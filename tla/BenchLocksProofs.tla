------------------------- MODULE BenchLocksProofs -------------------------
(***************************************************************************)
(* Exclusion of the locks of lupin_lock_benchmark, for any set of threads: *)
(* the Jayanti-Joshi lock and its w-port variant with crashes and abort    *)
(* signals, the recoverable MCS lock, and the two test-and-test-and-set    *)
(* locks, one of them recoverable.  JJLock is extended; the other modules  *)
(* are instances on the same variables.                                    *)
(***************************************************************************)
EXTENDS JJLock, TLAPS

-----------------------------------------------------------------------------
(***************************************************************************)
(* Exclusion of the Jayanti-Joshi lock for any number of threads that may  *)
(* die anywhere, come back, and get abort signals while they wait.         *)
(*                                                                         *)
(* The lock word names the owner from the promotion that made it the owner *)
(* to the store in its exit that frees the word.  The promotion is a       *)
(* compare-and-swap of a free word, so it takes the lock from nobody; the  *)
(* store is unconditional, so the invariant has to know that whoever is in *)
(* exit is still named, and is no longer inside.  What the min array holds *)
(* does not matter for this.                                               *)
(***************************************************************************)

Ops == {"enter", "abort", "giveup", "exit"}
InRefresh == {"refresh", "left", "right", "refreshed"}

\* Records with the fields that the code reads; only these are constrained.
IsRegister(r) ==
    /\ r = [op |-> r.op, tok |-> r.tok, i |-> r.i, round |-> r.round, cur |-> r.cur,
            left |-> r.left, right |-> r.right, s |-> r.s, peer |-> r.peer]
    /\ r.op \in Ops

IsLock(w) == w = [cs |-> w.cs, token |-> w.token, seq |-> w.seq]

JJTypeOK ==
    /\ DOMAIN pc = THREADS
    /\ reg = [t \in THREADS |-> reg[t]]
    /\ \A t \in THREADS : IsRegister(reg[t])
    /\ IsLock(lock)
    /\ inside \subseteq THREADS

\* In jj_spinlock_exit, up to the store that frees the word.
Exiting(t) ==
    \/ pc[t] \in {"unlock", "seq", "seqwrite", "free"}
    \/ pc[t] \in InRefresh /\ reg[t].op = "exit"

\* Only exit updates its leaf on behalf of exit.
LeafOK(t) == pc[t] \in {"taketoken", "leaf"} => reg[t].op # "exit"

JJInv ==
    /\ JJTypeOK
    /\ \A t \in THREADS : LeafOK(t)
    /\ \A t \in inside : Mine(t)
    /\ \A t \in THREADS : pc[t] = "cs" => Mine(t)
    /\ \A t \in THREADS : Exiting(t) => Mine(t) /\ t \notin inside

-----------------------------------------------------------------------------
\* The word names one thread.
LEMMA OneOwner == \A t, u : Mine(t) /\ Mine(u) => t = u
BY DEF Mine, cs_status

\* Everybody starts outside (main, past the barrier).
LEMMA JJInit == Init => JJInv
BY DEF Init, BenchInit, JJInv, JJTypeOK, LeafOK, Exiting, InRefresh, Cleared, Ops,
       jj_spinlock_init, IsRegister, IsLock

\* A step of t that takes the word from nobody and leaves inside alone, and in
\* which t neither enters nor begins to exit.
LEMMA NobodyLoses ==
    ASSUME JJInv, NEW t \in THREADS, NEW l, NEW r,
           pc' = [pc EXCEPT ![t] = l], reg' = [reg EXCEPT ![t] = r],
           inside' = inside, IsLock(lock'), \A u \in THREADS : Mine(u) => Mine(u)',
           IsRegister(r),
           l = "cs" => Mine(t),
           l \in {"taketoken", "leaf"} => r.op # "exit",
           l \in {"unlock", "seq", "seqwrite", "free"} \/ (l \in InRefresh /\ r.op = "exit") => Exiting(t)
    PROVE  JJInv'
<1>2. JJTypeOK'
    BY Zenon DEF JJInv, JJTypeOK
<1>3. \A u \in THREADS : LeafOK(u)'
    BY Zenon DEF JJInv, JJTypeOK, LeafOK
<1>4. \A u \in THREADS : Exiting(u)' => Exiting(u)
    BY Zenon DEF JJInv, JJTypeOK, Exiting
<1>5. \A u \in THREADS : pc'[u] = "cs" => Mine(u)
    BY Zenon DEF JJInv, JJTypeOK
<1> QED
    BY Zenon, <1>2, <1>3, <1>4, <1>5 DEF JJInv, JJTypeOK

\* The same for a step that leaves the word alone.
LEMMA Elsewhere ==
    ASSUME JJInv, NEW t \in THREADS, NEW l, NEW r,
           pc' = [pc EXCEPT ![t] = l], reg' = [reg EXCEPT ![t] = r],
           inside' = inside, IsLock(lock'), lock'.cs = lock.cs,
           IsRegister(r),
           l = "cs" => Mine(t),
           l \in {"taketoken", "leaf"} => r.op # "exit",
           l \in {"unlock", "seq", "seqwrite", "free"} \/ (l \in InRefresh /\ r.op = "exit") => Exiting(t)
    PROVE  JJInv'
<1>1. \A u \in THREADS : Mine(u) => Mine(u)'
    BY Zenon DEF Mine
<1> QED
    BY <1>1, NobodyLoses, Zenon

\* The same for a step that leaves the registers alone as well.
LEMMA Moves ==
    ASSUME JJInv, NEW t \in THREADS, NEW l,
           pc' = [pc EXCEPT ![t] = l], reg' = reg,
           inside' = inside, IsLock(lock'), lock'.cs = lock.cs,
           l = "cs" => Mine(t),
           l \notin {"taketoken", "leaf", "unlock"} \union InRefresh,
           l \in {"seq", "seqwrite", "free"} => Exiting(t)
    PROVE  JJInv'
<1> DEFINE r == reg[t]
<1>1. reg' = [reg EXCEPT ![t] = r] /\ IsRegister(r)
    BY Zenon DEF JJInv, JJTypeOK
<1>2. /\ l \in {"taketoken", "leaf"} => r.op # "exit"
      /\ l \in {"unlock", "seq", "seqwrite", "free"} \/ (l \in InRefresh /\ r.op = "exit") => Exiting(t)
    BY Zenon
<1> HIDE DEF r
<1> QED
    BY <1>1, <1>2, Elsewhere, Zenon

\* The lock call, up to the request.
LEMMA RecoverStep ==
    ASSUME JJInv, NEW t \in THREADS, jj_spinlock_recover(t)
    PROVE  JJInv'
<1> USE DEF JJInv, JJTypeOK
<1>1. CASE Mine(t)
    <2> DEFINE r == [Cleared EXCEPT !.op = "abort"]
    <2>1. IsRegister(r) /\ r.op = "abort"
        BY DEF Cleared, IsRegister, Ops
    <2>2. /\ pc' = [pc EXCEPT ![t] = "leaf"] /\ reg' = [reg EXCEPT ![t] = r]
          /\ inside' = inside /\ lock' = lock
        BY Zenon, <1>1 DEF jj_spinlock_recover, Goto, Reg
    <2> HIDE DEF r
    <2> QED
        BY Zenon, <2>1, <2>2, Elsewhere DEF InRefresh, Ops
<1>2. CASE ~Mine(t)
    <2>1. pc' = [pc EXCEPT ![t] = "try"] /\ reg' = reg /\ inside' = inside /\ lock' = lock
        BY Zenon, <1>2 DEF jj_spinlock_recover, Goto
    <2> QED
        BY Zenon, <2>1, Moves DEF InRefresh
<1> QED
    BY Zenon, <1>1, <1>2

\* A token is taken and the request made, or it turns out to be granted.
LEMMA TryStep ==
    ASSUME JJInv, NEW t \in THREADS, jj_spinlock_tryenter(t)
    PROVE  JJInv'
<1> USE DEF JJInv, JJTypeOK
<1>1. CASE pc[t] \in {"try", "registered"}
    <2>1. PICK l \in {"check", "token", "spin"} :
              pc' = [pc EXCEPT ![t] = l] /\ reg' = reg /\ inside' = inside /\ lock' = lock
        BY Zenon, <1>1 DEF jj_spinlock_tryenter, Goto
    <2> QED
        BY Zenon, <2>1, Moves DEF InRefresh
<1>2. CASE pc[t] = "token"
    <2> DEFINE r == [Cleared EXCEPT !.tok = lock.token]
    <2>1. IsRegister(r) /\ r.op = "enter"
        BY DEF Cleared, IsRegister, Ops
    <2>2. /\ pc' = [pc EXCEPT ![t] = "taketoken"] /\ reg' = [reg EXCEPT ![t] = r]
          /\ inside' = inside /\ lock' = lock
        BY Zenon, <1>2 DEF jj_spinlock_tryenter, Goto, Reg
    <2> HIDE DEF r
    <2> QED
        BY Zenon, <2>1, <2>2, Elsewhere DEF InRefresh, Ops
<1>3. CASE pc[t] = "taketoken"
    <2> DEFINE r == reg[t]
    <2>1. /\ pc' = [pc EXCEPT ![t] = "leaf"] /\ reg' = [reg EXCEPT ![t] = r]
          /\ inside' = inside /\ lock'.cs = lock.cs /\ IsLock(lock')
        BY Zenon, <1>3 DEF jj_spinlock_tryenter, Goto, IsLock
    <2>2. IsRegister(r) /\ r.op # "exit"
        BY Zenon, <1>3 DEF LeafOK
    <2> HIDE DEF r
    <2> QED
        BY Zenon, <2>1, <2>2, Elsewhere DEF InRefresh
<1> QED
    BY Zenon, <1>1, <1>2, <1>3 DEF jj_spinlock_tryenter

\* Waiting, an abort signal, and the critical section.
LEMMA EnterStep ==
    ASSUME JJInv, NEW t \in THREADS, jj_spinlock_enter(t)
    PROVE  JJInv'
<1> USE DEF JJInv, JJTypeOK
<1>1. CASE Mine(t) /\ Enter(t) /\ reg' = reg /\ lock' = lock
    <2>1. \A u \in THREADS : Mine(u)' <=> Mine(u)
        BY Zenon, <1>1 DEF Mine
    <2>2. \A u \in THREADS : LeafOK(u)' /\ (Exiting(u)' => Exiting(u) /\ u # t)
        BY Zenon, <1>1 DEF Enter, LeafOK, Exiting, InRefresh
    <2> QED
        BY Zenon, <1>1, <2>1, <2>2 DEF Enter
<1>2. CASE pc[t] = "spin"
    <2>1. pc' = [pc EXCEPT ![t] = "check"] /\ reg' = reg /\ inside' = inside /\ lock' = lock
        BY Zenon, <1>2 DEF jj_spinlock_enter, Goto, Signalled
    <2> QED
        BY Zenon, <2>1, Moves DEF InRefresh
<1>3. CASE pc[t] = "check" /\ ~Mine(t)
    <2> DEFINE r == [Cleared EXCEPT !.op = "giveup"]
    <2>1. IsRegister(r) /\ r.op = "giveup"
        BY DEF Cleared, IsRegister, Ops
    <2>2. /\ pc' = [pc EXCEPT ![t] = "leaf"] /\ reg' = [reg EXCEPT ![t] = r]
          /\ inside' = inside /\ lock' = lock
        BY Zenon, <1>3 DEF jj_spinlock_enter, Goto, Reg
    <2> HIDE DEF r
    <2> QED
        BY Zenon, <2>1, <2>2, Elsewhere DEF InRefresh, Ops
<1>4. CASE pc[t] = "aborted" /\ ~Mine(t)
    <2>1. pc' = [pc EXCEPT ![t] = "lock"] /\ reg' = reg /\ inside' = inside /\ lock' = lock
        BY Zenon, <1>4 DEF jj_spinlock_enter, Goto
    <2> QED
        BY Zenon, <2>1, Moves DEF InRefresh
<1> QED
    BY Zenon, <1>1, <1>2, <1>3, <1>4 DEF jj_spinlock_enter

\* The update of the leaf, in a request or in exit.
LEMMA LeafStep ==
    ASSUME JJInv, NEW t \in THREADS, set_leaf(t)
    PROVE  JJInv'
<1> USE DEF JJInv, JJTypeOK
<1> DEFINE o == IF pc[t] = "unlock" THEN "exit" ELSE reg[t].op
           r == climb(o, tree_parent(get_leaf_tree_pos(t)), 1)
<1>1. o \in Ops /\ (o = "exit" => pc[t] = "unlock")
    BY Zenon DEF set_leaf, IsRegister, LeafOK, Ops
<1>2. IsRegister(r) /\ r.op = o
    BY Zenon, <1>1 DEF climb, IsRegister
<1>3. /\ pc' = [pc EXCEPT ![t] = "refresh"] /\ reg' = [reg EXCEPT ![t] = r]
      /\ inside' = inside /\ lock' = lock
    BY Zenon DEF set_leaf, Goto, Reg
<1>4. o = "exit" => Exiting(t)
    BY Zenon, <1>1 DEF Exiting
<1> HIDE DEF r, o
<1>5. IsLock(lock') /\ lock'.cs = lock.cs /\ (r.op = "exit" => Exiting(t))
    BY Zenon, <1>2, <1>3, <1>4
<1> QED
    BY Zenon, <1>2, <1>3, <1>5, Elsewhere

\* The refreshes keep the purpose of the update.
LEMMA RefreshStep ==
    ASSUME JJInv, NEW t \in THREADS, refresh(t)
    PROVE  JJInv'
<1> USE DEF JJInv, JJTypeOK
<1>1. pc[t] \in InRefresh /\ inside' = inside /\ lock' = lock
    BY Zenon DEF refresh, InRefresh, Goto
<1>2. \E l \in InRefresh \union {"seq", "promote"} :
          pc' = [pc EXCEPT ![t] = l] /\ (l = "seq" => reg[t].op = "exit")
    BY Zenon DEF refresh, InRefresh, Goto
<1>3. \E r : reg' = [reg EXCEPT ![t] = r] /\ IsRegister(r) /\ r.op = reg[t].op
    <2>1. CASE pc[t] = "refresh"
        <3> DEFINE r == [reg[t] EXCEPT !.cur = node[reg[t].i]]
        <3>1. reg' = [reg EXCEPT ![t] = r]
            BY Zenon, <2>1 DEF refresh, Reg
        <3>2. IsRegister(r) /\ r.op = reg[t].op
            BY DEF IsRegister
        <3> QED
            BY Zenon, <3>1, <3>2
    <2>2. CASE pc[t] = "left"
        <3> DEFINE r == [reg[t] EXCEPT !.left = node[tree_left_child(reg[t].i)]]
        <3>1. reg' = [reg EXCEPT ![t] = r]
            BY Zenon, <2>2 DEF refresh, Reg
        <3>2. IsRegister(r) /\ r.op = reg[t].op
            BY DEF IsRegister
        <3> QED
            BY Zenon, <3>1, <3>2
    <2>3. CASE pc[t] = "right"
        <3> DEFINE r == [reg[t] EXCEPT !.right = node[tree_right_child(reg[t].i)]]
        <3>1. reg' = [reg EXCEPT ![t] = r]
            BY Zenon, <2>3 DEF refresh, Reg
        <3>2. IsRegister(r) /\ r.op = reg[t].op
            BY DEF IsRegister
        <3> QED
            BY Zenon, <3>1, <3>2
    <2>4. CASE pc[t] = "refreshed"
        <3> DEFINE r == IF reg[t].round = 1
                        THEN climb(reg[t].op, reg[t].i, 2) ELSE climb(reg[t].op, tree_parent(reg[t].i), 1)
        <3>1. reg' = [reg EXCEPT ![t] = r]
            BY Zenon, <2>4 DEF refresh, Reg
        <3>2. IsRegister(r) /\ r.op = reg[t].op
            BY Zenon DEF IsRegister, climb
        <3> QED
            BY Zenon, <3>1, <3>2
    <2> QED
        BY Zenon, <1>1, <2>1, <2>2, <2>3, <2>4 DEF InRefresh
<1>4. PICK l \in InRefresh \union {"seq", "promote"} :
          pc' = [pc EXCEPT ![t] = l] /\ (l = "seq" => reg[t].op = "exit")
    BY Zenon, <1>2
<1>5. PICK r : reg' = [reg EXCEPT ![t] = r] /\ IsRegister(r) /\ r.op = reg[t].op
    BY Zenon, <1>3
<1>6. l \in {"unlock", "seq", "seqwrite", "free"} \/ (l \in InRefresh /\ r.op = "exit") => Exiting(t)
    BY Zenon, <1>1, <1>4, <1>5 DEF Exiting, InRefresh
<1>7. l # "cs" /\ l \notin {"taketoken", "leaf"} /\ IsLock(lock') /\ lock'.cs = lock.cs
    BY Zenon, <1>1, <1>4 DEF InRefresh
<1> QED
    BY <1>1, <1>4, <1>5, <1>6, <1>7, Elsewhere, Zenon

\* Where a promotion returns to.
LEMMA PromotedIs ==
    ASSUME JJInv, NEW t \in THREADS, Promoted(t)
    PROVE  \E l \in {"registered", "try", "aborted", "lock", "done"} :
               pc' = [pc EXCEPT ![t] = l] /\ reg' = [reg EXCEPT ![t] = Cleared] /\ inside' = inside
<1>1. reg[t].op \in Ops
    BY Zenon DEF JJInv, JJTypeOK, IsRegister
<1> QED
    BY Zenon, <1>1 DEF Promoted, Reg, Goto, Return, Ops

\* The promotion: a compare-and-swap of a word that names nobody.
LEMMA PromoteStep ==
    ASSUME JJInv, NEW t \in THREADS, jj_spinlock_promote(t)
    PROVE  JJInv'
<1> USE DEF JJInv, JJTypeOK
<1>0. IsRegister(Cleared) /\ Cleared.op = "enter"
    BY Zenon DEF Cleared, IsRegister, Ops
<1>1. ASSUME Promoted(t), IsLock(lock'), \A u \in THREADS : Mine(u) => Mine(u)'
      PROVE  JJInv'
    <2>1. PICK l \in {"registered", "try", "aborted", "lock", "done"} :
              pc' = [pc EXCEPT ![t] = l] /\ reg' = [reg EXCEPT ![t] = Cleared] /\ inside' = inside
        BY Zenon, <1>1, PromotedIs
    <2> QED
        BY Zenon, <1>0, <1>1, <2>1, NobodyLoses DEF InRefresh
<1>2. CASE pc[t] \in {"promote", "min"} /\ Promoted(t)
    <2>1. lock' = lock
        BY Zenon, <1>2 DEF jj_spinlock_promote
    <2>2. \A u \in THREADS : Mine(u) => Mine(u)'
        BY Zenon, <2>1 DEF Mine
    <2> QED
        BY Zenon, <1>1, <1>2, <2>1, <2>2
<1>3. CASE pc[t] = "promote" /\ ~Promoted(t)
    <2> DEFINE r == hold(reg[t].op, lock.cs.s)
    <2>1. IsRegister(r)
        BY Zenon DEF hold, IsRegister
    <2>2. /\ pc' = [pc EXCEPT ![t] = "min"] /\ reg' = [reg EXCEPT ![t] = r]
          /\ inside' = inside /\ lock' = lock
        BY Zenon, <1>3 DEF jj_spinlock_promote, Goto, Reg
    <2> HIDE DEF r
    <2> QED
        BY Zenon, <2>1, <2>2, Elsewhere DEF InRefresh
<1>4. CASE pc[t] = "min" /\ ~Promoted(t)
    <2> DEFINE x == IF get_counter(node[1]) = COUNTER_INF THEN t ELSE get_process_id(node[1])
               r == [reg[t] EXCEPT !.peer = x]
    <2>1. /\ pc' = [pc EXCEPT ![t] = "promoting"] /\ reg' = [reg EXCEPT ![t] = r]
          /\ inside' = inside /\ lock' = lock
        BY Zenon, <1>4 DEF jj_spinlock_promote, Goto, Reg
    <2> HIDE DEF x
    <2>2. IsRegister(r)
        BY DEF IsRegister
    <2> HIDE DEF r
    <2> QED
        BY Zenon, <2>1, <2>2, Elsewhere DEF InRefresh
<1>5. CASE pc[t] = "promoting"
    <2>1. /\ lock' = [lock EXCEPT !.cs = IF @ = cs_status(FALSE, reg[t].s)
                                         THEN cs_status(TRUE, reg[t].peer) ELSE @]
          /\ Promoted(t)
        BY Zenon, <1>5 DEF jj_spinlock_promote
    <2>2. IsLock(lock')
        BY Zenon, <2>1 DEF IsLock
    <2>3. lock.cs = cs_status(FALSE, reg[t].s) \/ lock'.cs = lock.cs
        BY Zenon, <2>1 DEF IsLock
    <2>4. \A u \in THREADS : Mine(u) => Mine(u)'
        BY <2>3 DEF Mine, cs_status
    <2> QED
        BY Zenon, <1>1, <2>1, <2>2, <2>4
<1> QED
    BY Zenon, <1>2, <1>3, <1>4, <1>5 DEF jj_spinlock_promote

\* The end of exit: the word is freed by the thread it names, which has left.
LEMMA ExitStep ==
    ASSUME JJInv, NEW t \in THREADS, jj_spinlock_exit(t)
    PROVE  JJInv'
<1> USE DEF JJInv, JJTypeOK
<1>1. CASE pc[t] = "seq"
    <2> DEFINE r == hold("exit", lock.seq)
    <2>1. IsRegister(r) /\ Exiting(t)
        BY Zenon, <1>1 DEF hold, IsRegister, Ops, Exiting
    <2>2. /\ pc' = [pc EXCEPT ![t] = "seqwrite"] /\ reg' = [reg EXCEPT ![t] = r]
          /\ inside' = inside /\ lock' = lock
        BY Zenon, <1>1 DEF jj_spinlock_exit, Goto, Reg
    <2> HIDE DEF r
    <2> QED
        BY Zenon, <2>1, <2>2, Elsewhere DEF InRefresh
<1>2. CASE pc[t] = "seqwrite"
    <2>1. /\ pc' = [pc EXCEPT ![t] = "free"] /\ reg' = reg /\ inside' = inside
          /\ lock' = [lock EXCEPT !.seq = reg[t].s + 1]
        BY Zenon, <1>2 DEF jj_spinlock_exit, Goto
    <2>2. IsLock(lock') /\ lock'.cs = lock.cs /\ Exiting(t)
        BY Zenon, <1>2, <2>1 DEF IsLock, Exiting
    <2> QED
        BY Zenon, <2>1, <2>2, Moves DEF InRefresh
<1>3. CASE pc[t] = "free"
    <2> DEFINE r == [Cleared EXCEPT !.op = "exit"]
    <2>1. IsRegister(r)
        BY DEF Cleared, IsRegister, Ops
    <2>2. /\ pc' = [pc EXCEPT ![t] = "promote"] /\ reg' = [reg EXCEPT ![t] = r] /\ inside' = inside
          /\ lock' = [lock EXCEPT !.cs = cs_status(FALSE, reg[t].s + 1)]
        BY Zenon, <1>3 DEF jj_spinlock_exit, Goto, Reg
    <2> HIDE DEF r
    <2>3. Mine(t) /\ t \notin inside
        BY Zenon, <1>3 DEF Exiting
    <2>4. inside = {} /\ \A u \in THREADS : u # t => pc[u] # "cs" /\ ~Exiting(u)
        BY Zenon, <2>3, OneOwner
    <2>5. \A u \in THREADS : LeafOK(u)' /\ ~Exiting(u)' /\ pc'[u] # "cs"
        BY Zenon, <2>2, <2>4 DEF LeafOK, Exiting, InRefresh
    <2>6. JJTypeOK'
        BY Zenon, <2>1, <2>2 DEF IsLock
    <2> QED
        BY Zenon, <2>2, <2>4, <2>5, <2>6
<1> QED
    BY Zenon, <1>1, <1>2, <1>3 DEF jj_spinlock_exit

\* A passage ends, a thread dies, a thread comes back.
LEMMA ThreadStep ==
    ASSUME JJInv, NEW t \in THREADS, measure_jj(t) \/ Crashes(t) \/ Restarts(t)
    PROVE  JJInv'
<1> USE DEF JJInv, JJTypeOK
<1>1. CASE measure_jj(t)
    <2>1. /\ pc[t] = "cs" /\ pc' = [pc EXCEPT ![t] = "unlock"] /\ inside' = inside \ {t}
          /\ lock' = lock /\ reg' = reg
        BY Zenon, <1>1 DEF measure_jj, Passage
    <2>2. \A u \in THREADS : Mine(u)' <=> Mine(u)
        BY Zenon, <2>1 DEF Mine
    <2>3. \A u \in THREADS : LeafOK(u)' /\ (Exiting(u)' => Exiting(u) \/ u = t) /\ (pc'[u] = "cs" => pc[u] = "cs")
        BY Zenon, <2>1 DEF LeafOK, Exiting, InRefresh
    <2> QED
        BY Zenon, <2>1, <2>2, <2>3
<1>2. CASE Crashes(t)
    <2>1. IsRegister(Cleared)
        BY Zenon DEF Cleared, IsRegister, Ops
    <2>2. /\ pc' = [pc EXCEPT ![t] = "crashed"] /\ reg' = [reg EXCEPT ![t] = Cleared]
          /\ inside' = inside /\ lock' = lock
        BY Zenon, <1>2 DEF Crashes, Crash, Reg
    <2> QED
        BY Zenon, <2>1, <2>2, Elsewhere DEF InRefresh
<1>3. CASE Restarts(t)
    <2>1. pc' = [pc EXCEPT ![t] = "lock"] /\ reg' = reg /\ inside' = inside /\ lock' = lock
        BY Zenon, <1>3 DEF Restarts, Restart, Goto
    <2> QED
        BY Zenon, <2>1, Moves DEF InRefresh
<1> QED
    BY Zenon, <1>1, <1>2, <1>3

\* Every step keeps the invariant.
LEMMA JJNext == JJInv /\ [Next]_jjVars => JJInv'
<1> SUFFICES ASSUME JJInv, [Next]_jjVars PROVE JJInv'
    BY Zenon
<1>1. CASE Next
    <2>1. PICK t \in THREADS : Step(t) \/ Crashes(t) \/ Restarts(t)
        BY Zenon, <1>1 DEF Next
    <2> QED
        BY Zenon, <2>1, RecoverStep, TryStep, EnterStep, LeafStep, RefreshStep, PromoteStep, ExitStep, ThreadStep
        DEF Step
<1>2. CASE UNCHANGED jjVars
    BY Zenon, <1>2 DEF jjVars, benchVars, JJInv, JJTypeOK, LeafOK, Exiting, Mine
<1> QED
    BY Zenon, <1>1, <1>2

\* jj_abortable_spin.h: the critical section has one owner, which keeps it
\* across its death until it has come back and left; for any number of threads.
THEOREM JJExclusion == Spec => []Exclusion
<1>1. Init => JJInv
    BY Zenon, JJInit
<1>2. JJInv /\ [Next]_jjVars => JJInv'
    BY Zenon, JJNext
<1>3. JJInv => Exclusion
    BY Zenon, OneOwner DEF JJInv, Exclusion
<1> QED
    BY <1>1, <1>2, <1>3, PTL DEF Spec

-----------------------------------------------------------------------------
(***************************************************************************)
(* Exclusion of the w-port lock for any number of threads and ports, with  *)
(* threads that die anywhere, come back, and get abort signals.  The       *)
(* argument is the same for a word that also remembers its last owner:     *)
(* promotions replace only a word that names nobody, and the store that    *)
(* frees it is made by the thread it names.                                *)
(***************************************************************************)
CONSTANT wsize  \* the ports

Port == INSTANCE JJPortLock

PortOps == {"enter", "abort", "giveup", "exit"}

\* Records with the fields that the code reads; only op is constrained.
PortIsRegister(r) ==
    /\ r = [op |-> r.op, s |-> r.s, owner |-> r.owner, peer |-> r.peer]
    /\ r.op \in PortOps

PortIsLock(w) == w = [csst |-> w.csst, seq |-> w.seq, active |-> w.active]

PortTypeOK ==
    /\ DOMAIN pc = THREADS
    /\ reg = [t \in THREADS |-> reg[t]]
    /\ \A t \in THREADS : PortIsRegister(reg[t])
    /\ PortIsLock(lock)
    /\ inside \subseteq THREADS

\* In exit, up to the store that frees the word.
ExitLabels == {"unlock", "seq", "seqwrite", "free"}
PortExiting(t) ==
    \/ pc[t] \in ExitLabels
    \/ pc[t] \in {"unset", "sub"} /\ reg[t].op = "exit"

PortInv ==
    /\ PortTypeOK
    /\ \A t \in inside : Port!Mine(t)
    /\ \A t \in THREADS : pc[t] = "cs" => Port!Mine(t)
    /\ \A t \in THREADS : PortExiting(t) => Port!Mine(t) /\ t \notin inside

-----------------------------------------------------------------------------
\* The word names one thread.
LEMMA PortOneOwner == \A t, u : Port!Mine(t) /\ Port!Mine(u) => t = u
BY Zenon DEF Port!Mine

\* Everybody starts outside (main, past the barrier).
LEMMA PortInit == Port!Init => PortInv
BY DEF Port!Init, Port!BenchInit, PortInv, PortTypeOK, PortExiting, ExitLabels, Port!Cleared, PortOps, Port!jj_wport_spin_init,
       PortIsRegister, PortIsLock

\* A step of t that takes the word from nobody and leaves inside alone, and in
\* which t neither enters nor begins to exit.
LEMMA PortNobodyLoses ==
    ASSUME PortInv, NEW t \in THREADS, NEW l, NEW r,
           pc' = [pc EXCEPT ![t] = l], reg' = [reg EXCEPT ![t] = r],
           inside' = inside, PortIsLock(lock'), \A u \in THREADS : Port!Mine(u) => Port!Mine(u)',
           PortIsRegister(r), l # "cs",
           l \in ExitLabels \/ (l \in {"unset", "sub"} /\ r.op = "exit") => PortExiting(t)
    PROVE  PortInv'
<1>1. PortTypeOK'
    BY Zenon DEF PortInv, PortTypeOK
<1>2. \A u \in THREADS : PortExiting(u)' => PortExiting(u)
    BY Zenon DEF PortInv, PortTypeOK, PortExiting
<1>3. \A u \in THREADS : pc'[u] = "cs" => Port!Mine(u)
    BY Zenon DEF PortInv, PortTypeOK
<1> QED
    BY Zenon, <1>1, <1>2, <1>3 DEF PortInv, PortTypeOK

\* The same for a step that leaves the word alone.
LEMMA PortElsewhere ==
    ASSUME PortInv, NEW t \in THREADS, NEW l, NEW r,
           pc' = [pc EXCEPT ![t] = l], reg' = [reg EXCEPT ![t] = r],
           inside' = inside, PortIsLock(lock'), lock'.csst = lock.csst,
           PortIsRegister(r), l # "cs",
           l \in ExitLabels \/ (l \in {"unset", "sub"} /\ r.op = "exit") => PortExiting(t)
    PROVE  PortInv'
<1>1. \A u \in THREADS : Port!Mine(u) => Port!Mine(u)'
    BY Zenon DEF Port!Mine
<1> QED
    BY <1>1, PortNobodyLoses, Zenon

\* The same for a step that leaves the registers alone as well.
LEMMA PortMoves ==
    ASSUME PortInv, NEW t \in THREADS, NEW l,
           pc' = [pc EXCEPT ![t] = l], reg' = reg,
           inside' = inside, PortIsLock(lock'), lock'.csst = lock.csst, l # "cs",
           l \in ExitLabels \/ (l \in {"unset", "sub"} /\ reg[t].op = "exit") => PortExiting(t)
    PROVE  PortInv'
<1> DEFINE r == reg[t]
<1>1. reg' = [reg EXCEPT ![t] = r] /\ PortIsRegister(r)
    BY Zenon DEF PortInv, PortTypeOK
<1>2. l \in ExitLabels \/ (l \in {"unset", "sub"} /\ r.op = "exit") => PortExiting(t)
    BY Zenon
<1> HIDE DEF r
<1> QED
    BY <1>1, <1>2, PortElsewhere, Zenon

\* The lock call: the recovery section and the first look.
LEMMA PortRecoverStep ==
    ASSUME PortInv, NEW t \in THREADS, Port!recover(t) \/ Port!tryenter(t)
    PROVE  PortInv'
<1> USE DEF PortInv, PortTypeOK
<1>1. CASE Port!recover(t) /\ Port!Mine(t)
    <2> DEFINE r == [Port!Cleared EXCEPT !.op = "abort"]
    <2>1. PortIsRegister(r) /\ r.op = "abort"
        BY DEF Port!Cleared, PortIsRegister, PortOps
    <2>2. /\ pc' = [pc EXCEPT ![t] = "unset"] /\ reg' = [reg EXCEPT ![t] = r]
          /\ inside' = inside /\ lock' = lock
        BY Zenon, <1>1 DEF Port!recover, Port!Goto, Port!Reg
    <2> HIDE DEF r
    <2> QED
        BY Zenon, <2>1, <2>2, PortElsewhere DEF ExitLabels
<1>2. CASE (Port!recover(t) /\ ~Port!Mine(t)) \/ Port!tryenter(t)
    <2>1. PICK l \in {"try", "check", "set", "spin"} :
              pc' = [pc EXCEPT ![t] = l] /\ reg' = reg /\ inside' = inside /\ lock' = lock
        BY Zenon, <1>2 DEF Port!recover, Port!tryenter, Port!Goto
    <2> QED
        BY Zenon, <2>1, PortMoves DEF ExitLabels
<1> QED
    BY Zenon, <1>1, <1>2

\* A request is made or withdrawn: the word stays as it is.
LEMMA BitStep ==
    ASSUME PortInv, NEW t \in THREADS, Port!set_bit(t) \/ Port!unset_bit(t)
    PROVE  PortInv'
<1> USE DEF PortInv, PortTypeOK
<1>1. CASE Port!set_bit(t)
    <2>1. PICK l \in {"promote", "add"} : pc' = [pc EXCEPT ![t] = l]
        BY Zenon, <1>1 DEF Port!set_bit, Port!Goto
    <2>2. reg' = reg /\ inside' = inside
        BY Zenon, <1>1 DEF Port!set_bit, Port!Goto
    <2>3. PortIsLock(lock') /\ lock'.csst = lock.csst
        BY Zenon, <1>1 DEF Port!set_bit, PortIsLock
    <2> QED
        BY Zenon, <2>1, <2>2, <2>3, PortMoves DEF ExitLabels
<1>2. CASE Port!unset_bit(t)
    <2>1. PICK l \in {"sub", "seq", "promote"} :
              pc' = [pc EXCEPT ![t] = l] /\ (l = "seq" => reg[t].op = "exit")
        BY Zenon, <1>2 DEF Port!unset_bit, Port!Goto
    <2>2. reg' = reg /\ inside' = inside /\ pc[t] \in {"unset", "sub"}
        BY Zenon, <1>2 DEF Port!unset_bit, Port!Goto
    <2>3. PortIsLock(lock') /\ lock'.csst = lock.csst
        BY Zenon, <1>2 DEF Port!unset_bit, PortIsLock
    <2>4. l \in ExitLabels \/ (l \in {"unset", "sub"} /\ reg[t].op = "exit") => PortExiting(t)
        BY Zenon, <2>1, <2>2 DEF PortExiting, ExitLabels
    <2> QED
        BY Zenon, <2>1, <2>2, <2>3, <2>4, PortMoves
<1> QED
    BY Zenon, <1>1, <1>2

\* The rest of the lock call: entering, or giving the request up.
LEMMA PortEnterStep ==
    ASSUME PortInv, NEW t \in THREADS, Port!enter(t)
    PROVE  PortInv'
<1> USE DEF PortInv, PortTypeOK
<1>1. CASE Port!Mine(t) /\ Port!Enter(t) /\ reg' = reg /\ lock' = lock
    <2>1. \A u \in THREADS : Port!Mine(u)' <=> Port!Mine(u)
        BY Zenon, <1>1 DEF Port!Mine
    <2>2. \A u \in THREADS : PortExiting(u)' => PortExiting(u) /\ u # t
        BY Zenon, <1>1 DEF Port!Enter, PortExiting, ExitLabels
    <2> QED
        BY Zenon, <1>1, <2>1, <2>2 DEF Port!Enter
<1>2. CASE pc[t] = "spin"
    <2>1. pc' = [pc EXCEPT ![t] = "check"] /\ reg' = reg /\ inside' = inside /\ lock' = lock
        BY Zenon, <1>2 DEF Port!enter, Port!Goto, Port!Signalled
    <2> QED
        BY Zenon, <2>1, PortMoves DEF ExitLabels
<1>3. CASE pc[t] = "check" /\ ~Port!Mine(t)
    <2> DEFINE r == [Port!Cleared EXCEPT !.op = "giveup"]
    <2>1. PortIsRegister(r) /\ r.op = "giveup"
        BY DEF Port!Cleared, PortIsRegister, PortOps
    <2>2. /\ pc' = [pc EXCEPT ![t] = "unset"] /\ reg' = [reg EXCEPT ![t] = r]
          /\ inside' = inside /\ lock' = lock
        BY Zenon, <1>3 DEF Port!enter, Port!Goto, Port!Reg
    <2> HIDE DEF r
    <2> QED
        BY Zenon, <2>1, <2>2, PortElsewhere DEF ExitLabels
<1>4. CASE pc[t] = "aborted" /\ ~Port!Mine(t)
    <2>1. pc' = [pc EXCEPT ![t] = "lock"] /\ reg' = reg /\ inside' = inside /\ lock' = lock
        BY Zenon, <1>4 DEF Port!enter, Port!Goto
    <2> QED
        BY Zenon, <2>1, PortMoves DEF ExitLabels
<1> QED
    BY Zenon, <1>1, <1>2, <1>3, <1>4 DEF Port!enter

\* Where a promotion returns to.
LEMMA PortPromotedIs ==
    ASSUME PortInv, NEW t \in THREADS, Port!Promoted(t)
    PROVE  \E l \in {"registered", "try", "aborted", "lock", "done"} :
               pc' = [pc EXCEPT ![t] = l] /\ reg' = [reg EXCEPT ![t] = Port!Cleared] /\ inside' = inside
<1>1. reg[t].op \in PortOps
    BY Zenon DEF PortInv, PortTypeOK, PortIsRegister
<1> QED
    BY Zenon, <1>1 DEF Port!Promoted, Port!Reg, Port!Goto, Port!Return, PortOps

\* The promotion: a compare-and-swap of a word that names nobody.
LEMMA PortPromoteStep ==
    ASSUME PortInv, NEW t \in THREADS, Port!promote(t)
    PROVE  PortInv'
<1> USE DEF PortInv, PortTypeOK
<1>0. PortIsRegister(Port!Cleared) /\ Port!Cleared.op = "enter"
    BY Zenon DEF Port!Cleared, PortIsRegister, PortOps
<1>1. ASSUME Port!Promoted(t), PortIsLock(lock'), \A u \in THREADS : Port!Mine(u) => Port!Mine(u)'
      PROVE  PortInv'
    <2>1. PICK l \in {"registered", "try", "aborted", "lock", "done"} :
              pc' = [pc EXCEPT ![t] = l] /\ reg' = [reg EXCEPT ![t] = Port!Cleared] /\ inside' = inside
        BY Zenon, <1>1, PortPromotedIs
    <2> QED
        BY Zenon, <1>0, <1>1, <2>1, PortNobodyLoses DEF ExitLabels
<1>2. CASE pc[t] \in {"promote", "active"} /\ Port!Promoted(t)
    <2>1. lock' = lock
        BY Zenon, <1>2 DEF Port!promote
    <2>2. \A u \in THREADS : Port!Mine(u) => Port!Mine(u)'
        BY Zenon, <2>1 DEF Port!Mine
    <2> QED
        BY Zenon, <1>1, <1>2, <2>1, <2>2
<1>3. CASE pc[t] = "promote" /\ ~Port!Promoted(t)
    <2> DEFINE r == Port!hold(reg[t].op, lock.csst.s, lock.csst.owner)
    <2>1. PortIsRegister(r)
        BY Zenon DEF Port!hold, PortIsRegister
    <2>2. /\ pc' = [pc EXCEPT ![t] = "active"] /\ reg' = [reg EXCEPT ![t] = r]
          /\ inside' = inside /\ lock' = lock
        BY Zenon, <1>3 DEF Port!promote, Port!Goto, Port!Reg
    <2> HIDE DEF r
    <2> QED
        BY Zenon, <2>1, <2>2, PortElsewhere DEF ExitLabels
<1>4. CASE pc[t] = "active" /\ ~Port!Promoted(t)
    <2> DEFINE x == IF lock.active = 0 THEN t ELSE Port!next_bit(lock.active, reg[t].owner)
               r == [reg[t] EXCEPT !.peer = x]
    <2>1. /\ pc' = [pc EXCEPT ![t] = "promoting"] /\ reg' = [reg EXCEPT ![t] = r]
          /\ inside' = inside /\ lock' = lock
        BY Zenon, <1>4 DEF Port!promote, Port!Goto, Port!Reg
    <2> HIDE DEF x
    <2>2. PortIsRegister(r)
        BY DEF PortIsRegister
    <2> HIDE DEF r
    <2> QED
        BY Zenon, <2>1, <2>2, PortElsewhere DEF ExitLabels
<1>5. CASE pc[t] = "promoting"
    <2>1. /\ lock' = [lock EXCEPT !.csst = IF @ = Port!wport_csst(FALSE, reg[t].s, reg[t].owner)
                                           THEN Port!wport_csst(TRUE, reg[t].peer, reg[t].peer) ELSE @]
          /\ Port!Promoted(t)
        BY Zenon, <1>5 DEF Port!promote
    <2>2. PortIsLock(lock')
        BY Zenon, <2>1 DEF PortIsLock
    <2>3. lock.csst = Port!wport_csst(FALSE, reg[t].s, reg[t].owner) \/ lock'.csst = lock.csst
        BY Zenon, <2>1 DEF PortIsLock
    <2>4. \A u \in THREADS : Port!Mine(u) => Port!Mine(u)'
        BY <2>3 DEF Port!Mine, Port!wport_csst
    <2> QED
        BY Zenon, <1>1, <2>1, <2>2, <2>4
<1> QED
    BY Zenon, <1>2, <1>3, <1>4, <1>5 DEF Port!promote

\* exit: the word is freed by the thread it names, which has left.
LEMMA PortExitStep ==
    ASSUME PortInv, NEW t \in THREADS, Port!exit(t)
    PROVE  PortInv'
<1> USE DEF PortInv, PortTypeOK
<1>1. CASE pc[t] = "unlock"
    <2> DEFINE r == Port!hold("exit", 0, lock.csst.owner)
    <2>1. PortIsRegister(r) /\ PortExiting(t)
        BY Zenon, <1>1 DEF Port!hold, PortIsRegister, PortOps, PortExiting, ExitLabels
    <2>2. /\ pc' = [pc EXCEPT ![t] = "unset"] /\ reg' = [reg EXCEPT ![t] = r]
          /\ inside' = inside /\ lock' = lock
        BY Zenon, <1>1 DEF Port!exit, Port!Goto, Port!Reg
    <2> HIDE DEF r
    <2> QED
        BY Zenon, <2>1, <2>2, PortElsewhere
<1>2. CASE pc[t] = "seq"
    <2> DEFINE r == [reg[t] EXCEPT !.s = lock.seq]
    <2>1. PortIsRegister(r) /\ PortExiting(t)
        BY <1>2 DEF PortIsRegister, PortExiting, ExitLabels
    <2>2. /\ pc' = [pc EXCEPT ![t] = "seqwrite"] /\ reg' = [reg EXCEPT ![t] = r]
          /\ inside' = inside /\ lock' = lock
        BY Zenon, <1>2 DEF Port!exit, Port!Goto, Port!Reg
    <2> HIDE DEF r
    <2> QED
        BY Zenon, <2>1, <2>2, PortElsewhere
<1>3. CASE pc[t] = "seqwrite"
    <2>1. /\ pc' = [pc EXCEPT ![t] = "free"] /\ reg' = reg /\ inside' = inside
          /\ lock' = [lock EXCEPT !.seq = reg[t].s + 1]
        BY Zenon, <1>3 DEF Port!exit, Port!Goto
    <2>2. PortIsLock(lock') /\ lock'.csst = lock.csst /\ PortExiting(t)
        BY Zenon, <1>3, <2>1 DEF PortIsLock, PortExiting, ExitLabels
    <2> QED
        BY Zenon, <2>1, <2>2, PortMoves
<1>4. CASE pc[t] = "free"
    <2> DEFINE r == [Port!Cleared EXCEPT !.op = "exit"]
    <2>1. PortIsRegister(r)
        BY DEF Port!Cleared, PortIsRegister, PortOps
    <2>2. /\ pc' = [pc EXCEPT ![t] = "promote"] /\ reg' = [reg EXCEPT ![t] = r] /\ inside' = inside
          /\ lock' = [lock EXCEPT !.csst = Port!wport_csst(FALSE, reg[t].s + 1, reg[t].owner)]
        BY Zenon, <1>4 DEF Port!exit, Port!Goto, Port!Reg
    <2> HIDE DEF r
    <2>3. Port!Mine(t) /\ t \notin inside
        BY Zenon, <1>4 DEF PortExiting, ExitLabels
    <2>4. inside = {} /\ \A u \in THREADS : u # t => pc[u] # "cs" /\ ~PortExiting(u)
        BY Zenon, <2>3, PortOneOwner
    <2>5. \A u \in THREADS : ~PortExiting(u)' /\ pc'[u] # "cs"
        BY Zenon, <2>2, <2>4 DEF PortExiting, ExitLabels
    <2>6. PortTypeOK'
        BY Zenon, <2>1, <2>2 DEF PortIsLock
    <2> QED
        BY Zenon, <2>2, <2>4, <2>5, <2>6
<1> QED
    BY Zenon, <1>1, <1>2, <1>3, <1>4 DEF Port!exit

\* A passage ends, a thread dies, a thread comes back.
LEMMA PortThreadStep ==
    ASSUME PortInv, NEW t \in THREADS, Port!measure_jj_wport(t) \/ Port!Crashes(t) \/ Port!Restarts(t)
    PROVE  PortInv'
<1> USE DEF PortInv, PortTypeOK
<1>1. CASE Port!measure_jj_wport(t)
    <2>1. /\ pc[t] = "cs" /\ pc' = [pc EXCEPT ![t] = "unlock"] /\ inside' = inside \ {t}
          /\ lock' = lock /\ reg' = reg
        BY Zenon, <1>1 DEF Port!measure_jj_wport, Port!Passage
    <2>2. \A u \in THREADS : Port!Mine(u)' <=> Port!Mine(u)
        BY Zenon, <2>1 DEF Port!Mine
    <2>3. \A u \in THREADS : (PortExiting(u)' => PortExiting(u) \/ u = t) /\ (pc'[u] = "cs" => pc[u] = "cs")
        BY Zenon, <2>1 DEF PortExiting, ExitLabels
    <2> QED
        BY Zenon, <2>1, <2>2, <2>3
<1>2. CASE Port!Crashes(t)
    <2>1. PortIsRegister(Port!Cleared)
        BY Zenon DEF Port!Cleared, PortIsRegister, PortOps
    <2>2. /\ pc' = [pc EXCEPT ![t] = "crashed"] /\ reg' = [reg EXCEPT ![t] = Port!Cleared]
          /\ inside' = inside /\ lock' = lock
        BY Zenon, <1>2 DEF Port!Crashes, Port!Crash, Port!Reg
    <2> QED
        BY Zenon, <2>1, <2>2, PortElsewhere DEF ExitLabels
<1>3. CASE Port!Restarts(t)
    <2>1. pc' = [pc EXCEPT ![t] = "lock"] /\ reg' = reg /\ inside' = inside /\ lock' = lock
        BY Zenon, <1>3 DEF Port!Restarts, Port!Restart, Port!Goto
    <2> QED
        BY Zenon, <2>1, PortMoves DEF ExitLabels
<1> QED
    BY Zenon, <1>1, <1>2, <1>3

\* Every step keeps the invariant.
LEMMA PortNext == PortInv /\ [Port!Next]_(Port!portVars) => PortInv'
<1> SUFFICES ASSUME PortInv, [Port!Next]_(Port!portVars) PROVE PortInv'
    BY Zenon
<1>1. CASE Port!Next
    <2>1. PICK t \in THREADS : Port!Step(t) \/ Port!Crashes(t) \/ Port!Restarts(t)
        BY Zenon, <1>1 DEF Port!Next
    <2> QED
        BY Zenon, <2>1, PortRecoverStep, BitStep, PortEnterStep, PortPromoteStep, PortExitStep, PortThreadStep DEF Port!Step
<1>2. CASE UNCHANGED Port!portVars
    BY Zenon, <1>2 DEF Port!portVars, Port!benchVars, PortInv, PortTypeOK, PortExiting, Port!Mine
<1> QED
    BY Zenon, <1>1, <1>2

\* jj_ab_wport_spin.h: the critical section has one owner, which keeps it
\* across its death until it has come back and left; for any number of threads
\* and any number of ports.
THEOREM PortExclusion == Port!Spec => []Exclusion
<1>1. Port!Init => PortInv
    BY Zenon, PortInit
<1>2. PortInv /\ [Port!Next]_(Port!portVars) => PortInv'
    BY Zenon, PortNext
<1>3. PortInv => Exclusion
    BY Zenon, PortOneOwner DEF PortInv, Exclusion
<1> QED
    BY <1>1, <1>2, <1>3, PTL DEF Port!Spec
-----------------------------------------------------------------------------
(***************************************************************************)
(* Exclusion of the recoverable MCS lock for any set of threads.           *)
(*                                                                         *)
(* The lock's nodes form a queue that nothing in the code writes down: its *)
(* last thread is in lock.tail, its first one owns the lock, and a thread  *)
(* behind it is either about to link itself to the one it got from the     *)
(* swap or is linked to it and spins.  The inductive invariant says that   *)
(* there is such a queue, q[h] .. q[e - 1]; the swap puts a thread at e,   *)
(* and a hand-over or the last release moves h.                            *)
(***************************************************************************)

Rmcs == INSTANCE RmcsLock

Owning == {"own", "cs", "unlock", "next", "last", "wait", "handover"}
Queueing == Owning \union {"link", "spin"}
Outside == {"lock", "xchg", "done"}

Nodes == [next : THREADS \union {Rmcs!NULL}, locked : {"WAITING", "OWNED", "RELEASED"}]

RmcsTypeOK ==
    /\ pc \in [THREADS -> Queueing \union Outside]
    /\ inside \in SUBSET THREADS
    /\ lock \in THREADS \union {Rmcs!NULL}
    /\ node \in [THREADS -> Nodes]
    /\ reg \in [THREADS -> THREADS \union {Rmcs!NULL}]

\* The threads in the queue, each once, and the tail.
Queued(q, h, e) ==
    /\ q \in [Nat -> THREADS \union {Rmcs!NULL}]
    /\ h \in Nat /\ e \in Nat /\ h <= e
    /\ \A i \in Nat : h <= i /\ i < e => q[i] \in THREADS /\ pc[q[i]] \in Queueing
    /\ \A i, j \in Nat : h <= i /\ i < e /\ h <= j /\ j < e /\ q[i] = q[j] => i = j
    /\ \A t \in THREADS : pc[t] \in Queueing => \E i \in Nat : h <= i /\ i < e /\ q[i] = t
    /\ h = e => lock = Rmcs!NULL
    /\ h < e => lock = q[e - 1] /\ node[q[e - 1]].next = Rmcs!NULL

\* The first thread owns the lock, and it hands over only to a successor.
FirstOwns(q, h, e) ==
    h < e => /\ pc[q[h]] = "spin" => node[q[h]].locked = "OWNED"
             /\ pc[q[h]] # "link"
             /\ pc[q[h]] = "handover" => node[q[h]].next # Rmcs!NULL

\* The others wait, linked to the one before them or about to be.
OthersWait(q, h, e) ==
    \A i \in Nat : h < i /\ i < e =>
        /\ pc[q[i]] \in {"link", "spin"}
        /\ node[q[i]].locked = "WAITING"
        /\ pc[q[i]] = "link" => reg[q[i]] = q[i - 1] /\ node[q[i - 1]].next = Rmcs!NULL
        /\ pc[q[i]] = "spin" => node[q[i - 1]].next = q[i]

\* A node is fresh when its thread swaps it in.
FreshNodes == \A t \in THREADS : pc[t] = "xchg" => node[t] = [next |-> Rmcs!NULL, locked |-> "WAITING"]

QueueInv(q, h, e) ==
    /\ Queued(q, h, e)
    /\ FirstOwns(q, h, e)
    /\ OthersWait(q, h, e)

RmcsInv ==
    /\ RmcsTypeOK
    /\ FreshNodes
    /\ \A t \in inside : pc[t] = "cs"
    /\ \E q \in [Nat -> THREADS \union {Rmcs!NULL}], h, e \in Nat : QueueInv(q, h, e)

-----------------------------------------------------------------------------
\* NULL is not a thread.
LEMMA NullFact == Rmcs!NULL \notin THREADS
BY BenchAssumption DEF BenchAssumption, Rmcs!NULL

\* The threads start outside, with an empty queue (main, past the barrier).
LEMMA RmcsInit == Rmcs!Init => RmcsInv
<1> SUFFICES ASSUME Rmcs!Init PROVE RmcsInv
    BY Zenon
<1>1. RmcsTypeOK /\ FreshNodes /\ \A t \in inside : pc[t] = "cs"
    BY Zenon DEF Rmcs!Init, Rmcs!BenchInit, RmcsTypeOK, FreshNodes, Nodes, Queueing, Owning, Outside
<1>2. QueueInv([i \in Nat |-> Rmcs!NULL], 0, 0)
    BY DEF Rmcs!Init, Rmcs!BenchInit, QueueInv, Queued, FirstOwns, OthersWait, Queueing, Owning
<1> QED
    BY Zenon, <1>1, <1>2 DEF RmcsInv

\* Whoever is inside is the first of the queue.
LEMMA RmcsInvExcludes == RmcsInv => Exclusion
<1> SUFFICES ASSUME RmcsInv, NEW t \in inside, NEW u \in inside PROVE t = u
    BY Zenon DEF Exclusion
<1>1. PICK q \in [Nat -> THREADS \union {Rmcs!NULL}], h \in Nat, e \in Nat : QueueInv(q, h, e)
    BY Zenon DEF RmcsInv
<1>2. pc[t] = "cs" /\ pc[u] = "cs" /\ t \in THREADS /\ u \in THREADS
    BY Zenon DEF RmcsInv, RmcsTypeOK
<1>3. PICK i \in Nat : h <= i /\ i < e /\ q[i] = t
    BY Zenon, <1>1, <1>2 DEF QueueInv, Queued, Queueing, Owning
<1>4. PICK j \in Nat : h <= j /\ j < e /\ q[j] = u
    BY Zenon, <1>1, <1>2 DEF QueueInv, Queued, Queueing, Owning
<1>5. i = h /\ j = h
    BY <1>1, <1>2, <1>3, <1>4 DEF QueueInv, OthersWait
<1> QED
    BY Zenon, <1>3, <1>4, <1>5

\* A thread that owns the lock is the first of the queue.
LEMMA OwnerFirst ==
    ASSUME RmcsInv, NEW q \in [Nat -> THREADS \union {Rmcs!NULL}], NEW h \in Nat, NEW e \in Nat,
           QueueInv(q, h, e), NEW t \in THREADS,
           pc[t] \in Owning \/ (pc[t] = "spin" /\ node[t].locked # "WAITING")
    PROVE  t = q[h] /\ h < e
<1>1. PICK i \in Nat : h <= i /\ i < e /\ q[i] = t
    BY Zenon DEF QueueInv, Queued, Queueing
<1>2. ~(h < i)
    BY Zenon, <1>1 DEF QueueInv, OthersWait, Owning
<1> QED
    BY <1>1, <1>2

\* A step that leaves the tail, the registers and the links alone, of a thread
\* that stays first, keeps the queue (own, spin, unlock, next, wait, the passage).
LEMMA FirstMoves ==
    ASSUME RmcsInv, NEW q \in [Nat -> THREADS \union {Rmcs!NULL}], NEW h \in Nat, NEW e \in Nat,
           QueueInv(q, h, e), NEW t \in THREADS, t = q[h], h < e,
           NEW l \in Owning, pc' = [pc EXCEPT ![t] = l],
           NEW s \in {"WAITING", "OWNED", "RELEASED"}, node' = [node EXCEPT ![t].locked = s],
           l = "handover" => node[t].next # Rmcs!NULL,
           UNCHANGED <<lock, reg>>,
           inside' \in SUBSET THREADS, \A u \in inside' : pc'[u] = "cs"
    PROVE  RmcsInv'
<1>1. RmcsTypeOK'
    BY DEF RmcsInv, RmcsTypeOK, Nodes, Queueing
<1>2. FreshNodes'
    BY Zenon DEF RmcsInv, RmcsTypeOK, FreshNodes, Nodes, Owning
<1>3. \A i \in Nat : h <= i /\ i < e => q[i] \in THREADS /\ (i # h => q[i] # t)
    BY DEF QueueInv, Queued
<1>4. /\ \A u \in THREADS : node'[u].next = node[u].next
      /\ \A u \in THREADS : u # t => node'[u] = node[u] /\ pc'[u] = pc[u]
      /\ pc'[t] = l
    BY DEF RmcsInv, RmcsTypeOK, Nodes
<1>5. Queued(q, h, e)'
    BY <1>3, <1>4 DEF QueueInv, Queued, Queueing
<1>6. FirstOwns(q, h, e)'
    BY Zenon, <1>4 DEF FirstOwns, Owning
<1>7. OthersWait(q, h, e)'
    <2> SUFFICES ASSUME NEW i \in Nat, h < i, i < e
                 PROVE  /\ pc'[q[i]] \in {"link", "spin"}
                        /\ node'[q[i]].locked = "WAITING"
                        /\ pc'[q[i]] = "link" => reg'[q[i]] = q[i - 1] /\ node'[q[i - 1]].next = Rmcs!NULL
                        /\ pc'[q[i]] = "spin" => node'[q[i - 1]].next = q[i]
        BY Zenon DEF OthersWait
    <2>1. q[i] \in THREADS /\ q[i] # t /\ i - 1 \in Nat /\ q[i - 1] \in THREADS
        BY <1>3
    <2> QED
        BY <1>4, <2>1 DEF QueueInv, OthersWait
<1> QED
    BY Zenon, <1>1, <1>2, <1>5, <1>6, <1>7 DEF RmcsInv, QueueInv

\* rmcs_lock resets the node of a thread that is outside.
LEMMA ResetStep ==
    ASSUME RmcsInv, NEW t \in THREADS, pc[t] = "lock",
           node' = [node EXCEPT ![t] = [next |-> Rmcs!NULL, locked |-> "WAITING"]],
           Rmcs!Goto(t, "xchg"), UNCHANGED <<lock, reg>>
    PROVE  RmcsInv'
<1>1. PICK q \in [Nat -> THREADS \union {Rmcs!NULL}], h \in Nat, e \in Nat : QueueInv(q, h, e)
    BY Zenon DEF RmcsInv
<1>2. RmcsTypeOK'
    BY Zenon DEF RmcsInv, RmcsTypeOK, Nodes, Rmcs!Goto, Outside
<1>3. FreshNodes' /\ \A u \in inside' : pc'[u] = "cs"
    BY Zenon DEF RmcsInv, RmcsTypeOK, FreshNodes, Nodes, Rmcs!Goto
<1>4. \A i \in Nat : h <= i /\ i < e => q[i] \in THREADS /\ q[i] # t
    BY Zenon, <1>1 DEF QueueInv, Queued, Queueing, Owning
<1>5. \A u \in THREADS : u # t => node'[u] = node[u] /\ pc'[u] = pc[u]
    BY Zenon DEF RmcsInv, RmcsTypeOK, Rmcs!Goto
<1>6. pc'[t] = "xchg"
    BY Zenon DEF RmcsInv, RmcsTypeOK, Rmcs!Goto
<1>7. Queued(q, h, e)'
    BY <1>1, <1>4, <1>5, <1>6 DEF QueueInv, Queued, Queueing, Owning
<1>8. FirstOwns(q, h, e)'
    BY <1>1, <1>4, <1>5 DEF QueueInv, FirstOwns
<1>9. OthersWait(q, h, e)'
    <2> SUFFICES ASSUME NEW i \in Nat, h < i, i < e
                 PROVE  /\ pc'[q[i]] \in {"link", "spin"}
                        /\ node'[q[i]].locked = "WAITING"
                        /\ pc'[q[i]] = "link" => reg'[q[i]] = q[i - 1] /\ node'[q[i - 1]].next = Rmcs!NULL
                        /\ pc'[q[i]] = "spin" => node'[q[i - 1]].next = q[i]
        BY Zenon DEF OthersWait
    <2>1. q[i] \in THREADS /\ q[i] # t /\ i - 1 \in Nat /\ q[i - 1] \in THREADS /\ q[i - 1] # t
        BY <1>4
    <2> QED
        BY ZenonT(60), <1>1, <1>5, <2>1 DEF QueueInv, OthersWait
<1> QED
    BY Zenon, <1>2, <1>3, <1>7, <1>8, <1>9 DEF RmcsInv, QueueInv

\* The swap of rmcs_lock puts the thread at the end of the queue; it owns the
\* lock if the queue was empty.
LEMMA SwapStep ==
    ASSUME RmcsInv, NEW t \in THREADS, pc[t] = "xchg",
           lock' = t, reg' = [reg EXCEPT ![t] = lock],
           Rmcs!Goto(t, IF lock = Rmcs!NULL THEN "own" ELSE "link"), UNCHANGED node
    PROVE  RmcsInv'
<1>1. PICK q \in [Nat -> THREADS \union {Rmcs!NULL}], h \in Nat, e \in Nat : QueueInv(q, h, e)
    BY Zenon DEF RmcsInv
<1> DEFINE r == [q EXCEPT ![e] = t]
<1>2. RmcsTypeOK'
    BY Zenon DEF RmcsInv, RmcsTypeOK, Rmcs!Goto, Queueing, Owning
<1>3. FreshNodes' /\ \A u \in inside' : pc'[u] = "cs"
    BY Zenon DEF RmcsInv, RmcsTypeOK, FreshNodes, Rmcs!Goto
<1>4. node[t].next = Rmcs!NULL /\ node[t].locked = "WAITING"
    BY DEF RmcsInv, FreshNodes
<1>5. (h = e) <=> (lock = Rmcs!NULL)
    BY <1>1, NullFact DEF QueueInv, Queued
<1>6. /\ r \in [Nat -> THREADS \union {Rmcs!NULL}] /\ r[e] = t
      /\ \A i \in Nat : h <= i /\ i < e => r[i] = q[i] /\ r[i] \in THREADS /\ r[i] # t
    BY <1>1 DEF QueueInv, Queued, Queueing, Owning
<1>7. \A u \in THREADS : u # t => pc'[u] = pc[u] /\ reg'[u] = reg[u]
    BY Zenon DEF RmcsInv, RmcsTypeOK, Rmcs!Goto
<1>8. pc'[t] = (IF lock = Rmcs!NULL THEN "own" ELSE "link") /\ reg'[t] = lock
    BY Zenon DEF RmcsInv, RmcsTypeOK, Rmcs!Goto
<1> HIDE DEF r
<1>9. Queued(r, h, e + 1)'
    <2>1. \A i \in Nat : h <= i /\ i < e + 1 => r[i] \in THREADS /\ pc'[r[i]] \in Queueing
        BY <1>1, <1>6, <1>7, <1>8 DEF QueueInv, Queued, Queueing, Owning
    <2>2. \A i, j \in Nat : h <= i /\ i < e + 1 /\ h <= j /\ j < e + 1 /\ r[i] = r[j] => i = j
        BY <1>1, <1>6 DEF QueueInv, Queued
    <2>3. ASSUME NEW u \in THREADS, pc'[u] \in Queueing
          PROVE  \E i \in Nat : h <= i /\ i < e + 1 /\ r[i] = u
        <3>1. CASE u = t
            BY <1>1, <1>6, <3>1 DEF QueueInv, Queued
        <3>2. CASE u # t
            <4>1. PICK i \in Nat : h <= i /\ i < e /\ q[i] = u
                BY Zenon, <1>1, <1>7, <2>3, <3>2 DEF QueueInv, Queued
            <4> QED
                BY <1>6, <4>1
        <3> QED
            BY Zenon, <3>1, <3>2
    <2> QED
        BY <1>1, <1>4, <1>6, <2>1, <2>2, <2>3 DEF QueueInv, Queued
<1>10. FirstOwns(r, h, e + 1)'
    <2>1. CASE h = e
        BY Zenon, <1>5, <1>6, <1>8, <2>1 DEF FirstOwns
    <2>2. CASE h # e
        <3>1. h < e /\ r[h] = q[h] /\ r[h] \in THREADS /\ r[h] # t
            BY <1>1, <1>6, <2>2 DEF QueueInv, Queued
        <3> QED
            BY Zenon, <1>1, <1>7, <3>1 DEF QueueInv, FirstOwns
    <2> QED
        BY Zenon, <2>1, <2>2
<1>11. OthersWait(r, h, e + 1)'
    <2> SUFFICES ASSUME NEW i \in Nat, h < i, i < e + 1
                 PROVE  /\ pc'[r[i]] \in {"link", "spin"}
                        /\ node'[r[i]].locked = "WAITING"
                        /\ pc'[r[i]] = "link" => reg'[r[i]] = r[i - 1] /\ node'[r[i - 1]].next = Rmcs!NULL
                        /\ pc'[r[i]] = "spin" => node'[r[i - 1]].next = r[i]
        BY Zenon DEF OthersWait
    <2>1. i - 1 \in Nat /\ r[i - 1] = q[i - 1]
        BY <1>6
    <2>2. CASE i = e
        <3>1. lock = q[e - 1] /\ node[q[e - 1]].next = Rmcs!NULL /\ lock # Rmcs!NULL
            BY <1>1, <1>5, <2>2 DEF QueueInv, Queued
        <3> QED
            BY Zenon, <1>4, <1>6, <1>8, <2>1, <2>2, <3>1
    <2>3. CASE i < e
        <3>1. r[i] = q[i] /\ r[i] \in THREADS /\ r[i] # t
            BY <1>6, <2>3
        <3> QED
            BY <1>1, <1>7, <2>1, <2>3, <3>1 DEF QueueInv, OthersWait
    <2> QED
        BY <2>2, <2>3
<1>12. QueueInv(r, h, e + 1)'
    BY Zenon, <1>9, <1>10, <1>11 DEF QueueInv
<1> QED
    BY <1>2, <1>3, <1>6, <1>12 DEF RmcsInv

\* A thread links itself to the one that the swap returned.
LEMMA LinkStep ==
    ASSUME RmcsInv, NEW t \in THREADS, pc[t] = "link",
           node' = [node EXCEPT ![reg[t]].next = t],
           reg' = [reg EXCEPT ![t] = Rmcs!NULL], Rmcs!Goto(t, "spin"), UNCHANGED lock
    PROVE  RmcsInv'
<1>1. PICK q \in [Nat -> THREADS \union {Rmcs!NULL}], h \in Nat, e \in Nat : QueueInv(q, h, e)
    BY Zenon DEF RmcsInv
<1>2. PICK k \in Nat : h <= k /\ k < e /\ q[k] = t
    BY Zenon, <1>1 DEF QueueInv, Queued, Queueing
<1>3. h < k
    BY <1>1, <1>2 DEF QueueInv, FirstOwns
<1>4. k - 1 \in Nat /\ h <= k - 1 /\ q[k - 1] \in THREADS /\ reg[t] = q[k - 1]
    BY <1>1, <1>2, <1>3 DEF QueueInv, Queued, OthersWait
<1>5. \A i \in Nat : h <= i /\ i < e => /\ q[i] \in THREADS
                                        /\ i # k => q[i] # t
                                        /\ i # k - 1 => q[i] # q[k - 1]
    BY <1>1, <1>2, <1>4 DEF QueueInv, Queued
<1>6. /\ \A u \in THREADS : node'[u].locked = node[u].locked
      /\ \A u \in THREADS : u # q[k - 1] => node'[u] = node[u]
      /\ node'[q[k - 1]].next = t
    BY Zenon, <1>4 DEF RmcsInv, RmcsTypeOK, Nodes
<1>7. /\ \A u \in THREADS : u # t => pc'[u] = pc[u] /\ reg'[u] = reg[u]
      /\ pc'[t] = "spin"
    BY Zenon DEF RmcsInv, RmcsTypeOK, Rmcs!Goto
<1>8. RmcsTypeOK'
    BY Zenon, <1>4 DEF RmcsInv, RmcsTypeOK, Nodes, Rmcs!Goto, Queueing
<1>9. FreshNodes'
    <2> SUFFICES ASSUME NEW u \in THREADS, pc'[u] = "xchg"
                 PROVE  node'[u] = [next |-> Rmcs!NULL, locked |-> "WAITING"]
        BY Zenon DEF FreshNodes
    <2>1. u # t /\ pc[u] = "xchg"
        BY Zenon, <1>7
    <2>2. u # q[k - 1]
        BY <1>1, <1>2, <1>4, <2>1 DEF QueueInv, Queued, Queueing, Owning
    <2> QED
        BY Zenon, <1>6, <2>1, <2>2 DEF RmcsInv, FreshNodes
<1>10. \A u \in inside' : pc'[u] = "cs"
    BY Zenon DEF RmcsInv, RmcsTypeOK, Rmcs!Goto
<1>11. Queued(q, h, e)'
    <2>1. e - 1 # k - 1 /\ q[e - 1] \in THREADS /\ q[e - 1] # q[k - 1]
        BY <1>2, <1>3, <1>5
    <2> QED
        BY ZenonT(60), <1>1, <1>5, <1>6, <1>7, <2>1 DEF QueueInv, Queued, Queueing
<1>12. FirstOwns(q, h, e)'
    <2>1. q[h] \in THREADS /\ q[h] # t
        BY <1>2, <1>3, <1>5
    <2>2. node[q[h]].next # Rmcs!NULL => node'[q[h]].next # Rmcs!NULL
        BY Zenon, <1>4, <1>6, <2>1, NullFact
    <2> QED
        BY Zenon, <1>1, <1>6, <1>7, <2>1, <2>2 DEF QueueInv, FirstOwns
<1>13. OthersWait(q, h, e)'
    <2> SUFFICES ASSUME NEW i \in Nat, h < i, i < e
                 PROVE  /\ pc'[q[i]] \in {"link", "spin"}
                        /\ node'[q[i]].locked = "WAITING"
                        /\ pc'[q[i]] = "link" => reg'[q[i]] = q[i - 1] /\ node'[q[i - 1]].next = Rmcs!NULL
                        /\ pc'[q[i]] = "spin" => node'[q[i - 1]].next = q[i]
        BY Zenon DEF OthersWait
    <2>1. CASE i = k
        BY ZenonT(60), <1>1, <1>2, <1>3, <1>6, <1>7, <2>1 DEF QueueInv, OthersWait
    <2>2. CASE i # k
        <3>1. i - 1 \in Nat /\ q[i] \in THREADS /\ q[i] # t /\ q[i - 1] \in THREADS
                /\ q[i - 1] # q[k - 1]
            BY <1>5, <2>2
        <3>2. node'[q[i]].locked = node[q[i]].locked /\ node'[q[i - 1]] = node[q[i - 1]]
            BY Zenon, <1>6, <3>1
        <3>3. pc'[q[i]] = pc[q[i]] /\ reg'[q[i]] = reg[q[i]]
            BY Zenon, <1>7, <3>1
        <3> QED
            BY Zenon, <1>1, <3>2, <3>3 DEF QueueInv, OthersWait
    <2> QED
        BY Zenon, <2>1, <2>2
<1> QED
    BY Zenon, <1>1, <1>8, <1>9, <1>10, <1>11, <1>12, <1>13 DEF RmcsInv, QueueInv

\* rmcs_unlock of the only thread of the queue empties it (the swap of the tail).
LEMMA LastStep ==
    ASSUME RmcsInv, NEW t \in THREADS, pc[t] = "last", lock = t,
           lock' = Rmcs!NULL, Rmcs!Return(t), UNCHANGED <<node, reg>>
    PROVE  RmcsInv'
<1>1. PICK q \in [Nat -> THREADS \union {Rmcs!NULL}], h \in Nat, e \in Nat : QueueInv(q, h, e)
    BY Zenon DEF RmcsInv
<1>2. t = q[h] /\ h < e
    BY Zenon, <1>1, OwnerFirst DEF Owning
<1>3. e = h + 1
    <2>1. q[e - 1] = q[h] /\ e - 1 \in Nat /\ h <= e - 1 /\ e - 1 < e
        BY <1>1, <1>2 DEF QueueInv, Queued
    <2>2. e - 1 = h
        BY <1>1, <1>2, <2>1 DEF QueueInv, Queued
    <2> QED
        BY <2>2
<1>4. pc' \in [THREADS -> Queueing \union Outside] /\ pc'[t] \in {"lock", "done"}
    BY Zenon DEF RmcsInv, RmcsTypeOK, Rmcs!Return, Rmcs!Goto, Outside
<1>5. \A u \in THREADS : u # t => pc'[u] = pc[u]
    BY Zenon DEF RmcsInv, RmcsTypeOK, Rmcs!Return, Rmcs!Goto
<1>6. RmcsTypeOK'
    BY Zenon, <1>4 DEF RmcsInv, RmcsTypeOK, Rmcs!Return, Rmcs!Goto
<1>7. FreshNodes' /\ \A u \in inside' : pc'[u] = "cs"
    BY Zenon, <1>4, <1>5 DEF RmcsInv, RmcsTypeOK, FreshNodes, Rmcs!Return, Rmcs!Goto
<1>8. Queued(q, e, e)'
    <2>1. \A u \in THREADS : pc'[u] \notin Queueing
        BY <1>1, <1>2, <1>3, <1>4, <1>5 DEF QueueInv, Queued, Queueing, Owning
    <2> QED
        BY <2>1 DEF Queued
<1>9. FirstOwns(q, e, e)' /\ OthersWait(q, e, e)'
    BY DEF FirstOwns, OthersWait
<1> QED
    BY Zenon, <1>6, <1>7, <1>8, <1>9 DEF RmcsInv, QueueInv

\* The hand-over of rmcs_unlock: the next thread spins, and becomes the first.
LEMMA HandoverStep ==
    ASSUME RmcsInv, NEW t \in THREADS, pc[t] = "handover",
           node' = [node EXCEPT ![node[t].next].locked = "OWNED"],
           Rmcs!Return(t), UNCHANGED <<lock, reg>>
    PROVE  RmcsInv'
<1>1. PICK q \in [Nat -> THREADS \union {Rmcs!NULL}], h \in Nat, e \in Nat : QueueInv(q, h, e)
    BY Zenon DEF RmcsInv
<1>2. t = q[h] /\ h < e
    BY Zenon, <1>1, OwnerFirst DEF Owning
<1>3. node[t].next # Rmcs!NULL
    BY Zenon, <1>1, <1>2 DEF QueueInv, FirstOwns
<1>4. h + 1 < e
    BY <1>1, <1>2, <1>3 DEF QueueInv, Queued
<1>5. q[h + 1] = node[t].next /\ pc[q[h + 1]] = "spin"
    <2>1. h + 1 \in Nat /\ h < h + 1 /\ (h + 1) - 1 = h
        OBVIOUS
    <2> QED
        BY Zenon, <1>1, <1>2, <1>3, <1>4, <2>1 DEF QueueInv, OthersWait
<1>6. \A i \in Nat : h < i /\ i < e => q[i] \in THREADS /\ q[i] # t /\ (i # h + 1 => q[i] # q[h + 1])
    BY <1>1, <1>2, <1>4 DEF QueueInv, Queued
<1>7. q[h + 1] \in THREADS /\ q[h + 1] # t
    BY <1>4, <1>6
<1>8. /\ \A u \in THREADS : node'[u].next = node[u].next
      /\ \A u \in THREADS : u # q[h + 1] => node'[u] = node[u]
      /\ node'[q[h + 1]].locked = "OWNED"
    BY <1>5, <1>7 DEF RmcsInv, RmcsTypeOK, Nodes
<1>9. pc' \in [THREADS -> Queueing \union Outside] /\ pc'[t] \in {"lock", "done"}
    BY Zenon DEF RmcsInv, RmcsTypeOK, Rmcs!Return, Rmcs!Goto, Outside
<1>10. \A u \in THREADS : u # t => pc'[u] = pc[u]
    BY Zenon DEF RmcsInv, RmcsTypeOK, Rmcs!Return, Rmcs!Goto
<1>11. RmcsTypeOK'
    BY <1>5, <1>7, <1>9 DEF RmcsInv, RmcsTypeOK, Nodes, Rmcs!Return, Rmcs!Goto
<1>12. FreshNodes' /\ \A u \in inside' : pc'[u] = "cs"
    <2>1. \A u \in THREADS : pc'[u] = "xchg" => u # q[h + 1] /\ pc[u] = "xchg"
        BY Zenon, <1>5, <1>7, <1>9, <1>10
    <2> QED
        BY <1>8, <1>10, <2>1 DEF RmcsInv, RmcsTypeOK, FreshNodes, Rmcs!Return, Rmcs!Goto
<1>13. Queued(q, h + 1, e)'
    <2>1. ASSUME NEW u \in THREADS, pc'[u] \in Queueing
          PROVE  \E i \in Nat : h + 1 <= i /\ i < e /\ q[i] = u
        <3>1. u # t /\ pc[u] \in Queueing
            BY Zenon, <1>9, <1>10, <2>1 DEF Queueing, Owning
        <3>2. PICK i \in Nat : h <= i /\ i < e /\ q[i] = u
            BY Zenon, <1>1, <3>1 DEF QueueInv, Queued
        <3> QED
            BY <1>2, <3>1, <3>2
    <2>2. q[e - 1] \in THREADS
        BY <1>4, <1>6
    <2>3. \A i \in Nat : h + 1 <= i /\ i < e => q[i] \in THREADS /\ pc'[q[i]] \in Queueing
        BY <1>1, <1>6, <1>10 DEF QueueInv, Queued
    <2>4. \A i, j \in Nat : h + 1 <= i /\ i < e /\ h + 1 <= j /\ j < e /\ q[i] = q[j] => i = j
        BY <1>1 DEF QueueInv, Queued
    <2>5. lock' = q[e - 1] /\ node'[q[e - 1]].next = Rmcs!NULL
        BY Zenon, <1>1, <1>2, <1>8, <2>2 DEF QueueInv, Queued
    <2> QED
        BY <1>4, <2>1, <2>3, <2>4, <2>5 DEF Queued
<1>14. FirstOwns(q, h + 1, e)'
    BY Zenon, <1>5, <1>7, <1>8, <1>10 DEF FirstOwns
<1>15. OthersWait(q, h + 1, e)'
    <2> SUFFICES ASSUME NEW i \in Nat, h + 1 < i, i < e
                 PROVE  /\ pc'[q[i]] \in {"link", "spin"}
                        /\ node'[q[i]].locked = "WAITING"
                        /\ pc'[q[i]] = "link" => reg'[q[i]] = q[i - 1] /\ node'[q[i - 1]].next = Rmcs!NULL
                        /\ pc'[q[i]] = "spin" => node'[q[i - 1]].next = q[i]
        BY Zenon DEF OthersWait
    <2>1. i - 1 \in Nat /\ q[i] \in THREADS /\ q[i] # t /\ q[i] # q[h + 1] /\ q[i - 1] \in THREADS
        BY <1>6
    <2>2. /\ node'[q[i]] = node[q[i]] /\ node'[q[i - 1]].next = node[q[i - 1]].next
          /\ pc'[q[i]] = pc[q[i]]
        BY Zenon, <1>8, <1>10, <2>1
    <2>3. /\ pc[q[i]] \in {"link", "spin"}
          /\ node[q[i]].locked = "WAITING"
          /\ pc[q[i]] = "link" => reg[q[i]] = q[i - 1] /\ node[q[i - 1]].next = Rmcs!NULL
          /\ pc[q[i]] = "spin" => node[q[i - 1]].next = q[i]
        <3>1. h < i
            OBVIOUS
        <3> QED
            BY Zenon, <1>1, <3>1 DEF QueueInv, OthersWait
    <2>4. reg' = reg
        BY Zenon
    <2> QED
        BY Zenon, <2>2, <2>3, <2>4
<1>16. QueueInv(q, h + 1, e)'
    BY Zenon, <1>13, <1>14, <1>15 DEF QueueInv
<1>17. h + 1 \in Nat
    OBVIOUS
<1> QED
    BY Zenon, <1>1, <1>11, <1>12, <1>16, <1>17 DEF RmcsInv

\* The steps in which the first thread of the queue stays first.
LEMMA FirstSteps ==
    ASSUME RmcsInv, NEW t \in THREADS, UNCHANGED <<lock, reg>>,
           pc[t] \in Owning \/ (pc[t] = "spin" /\ node[t].locked = "OWNED"),
           NEW l \in Owning, pc' = [pc EXCEPT ![t] = l],
           NEW s \in {"WAITING", "OWNED", "RELEASED"}, node' = [node EXCEPT ![t].locked = s],
           l = "handover" => node[t].next # Rmcs!NULL,
           inside' = (IF l = "cs" THEN inside \union {t} ELSE inside \ {t})
    PROVE  RmcsInv'
<1>1. PICK q \in [Nat -> THREADS \union {Rmcs!NULL}], h \in Nat, e \in Nat : QueueInv(q, h, e)
    BY Zenon DEF RmcsInv
<1>2. t = q[h] /\ h < e
    BY Zenon, <1>1, OwnerFirst
<1>3. inside' \in SUBSET THREADS /\ \A u \in inside' : pc'[u] = "cs"
    BY Zenon DEF RmcsInv, RmcsTypeOK
<1> QED
    BY Zenon, <1>1, <1>2, <1>3, FirstMoves

\* Every step of the lock keeps the queue.
LEMMA RmcsNext == RmcsInv /\ [Rmcs!Next]_(Rmcs!rmcsVars) => RmcsInv'
<1> SUFFICES ASSUME RmcsInv, [Rmcs!Next]_(Rmcs!rmcsVars) PROVE RmcsInv'
    BY Zenon
<1>1. ASSUME NEW t \in THREADS, Rmcs!rmcs_lock(t) PROVE RmcsInv'
    <2>1. CASE pc[t] = "lock"
        BY Zenon, <1>1, <2>1, ResetStep DEF Rmcs!rmcs_lock
    <2>2. CASE pc[t] = "xchg"
        BY Zenon, <1>1, <2>2, SwapStep DEF Rmcs!rmcs_lock
    <2>3. CASE pc[t] = "own"
        BY Zenon, <1>1, <2>3, FirstSteps DEF Rmcs!rmcs_lock, Rmcs!Enter, Owning
    <2>4. CASE pc[t] = "link"
        BY Zenon, <1>1, <2>4, LinkStep DEF Rmcs!rmcs_lock
    <2>5. CASE pc[t] = "spin"
        <3>1. node' = [node EXCEPT ![t].locked = "OWNED"] /\ node[t].locked = "OWNED"
            BY <1>1, <2>5 DEF Rmcs!rmcs_lock, RmcsInv, RmcsTypeOK, Nodes
        <3> QED
            BY Zenon, <1>1, <2>5, <3>1, FirstSteps DEF Rmcs!rmcs_lock, Rmcs!Enter, Owning
    <2> QED
        BY Zenon, <1>1, <2>1, <2>2, <2>3, <2>4, <2>5 DEF Rmcs!rmcs_lock
<1>2. ASSUME NEW t \in THREADS, Rmcs!rmcs_unlock(t) PROVE RmcsInv'
    <2>0. /\ node[t].locked \in {"WAITING", "OWNED", "RELEASED"}
          /\ node = [node EXCEPT ![t].locked = node[t].locked]
          /\ pc[t] # "cs" => inside = inside \ {t}
        BY Zenon DEF RmcsInv, RmcsTypeOK, Nodes
    <2>1. CASE pc[t] = "unlock"
        BY Zenon, <1>2, <2>0, <2>1, FirstSteps DEF Rmcs!rmcs_unlock, Rmcs!Goto, Owning
    <2>2. CASE pc[t] = "next"
        <3>1. UNCHANGED <<lock, reg, inside, node>>
            BY Zenon, <1>2, <2>2 DEF Rmcs!rmcs_unlock, Rmcs!Goto
        <3>2. CASE node[t].next = Rmcs!NULL
            BY Zenon, <1>2, <2>0, <2>2, <3>1, <3>2, FirstSteps DEF Rmcs!rmcs_unlock, Rmcs!Goto, Owning
        <3>3. CASE node[t].next # Rmcs!NULL
            BY Zenon, <1>2, <2>0, <2>2, <3>1, <3>3, FirstSteps DEF Rmcs!rmcs_unlock, Rmcs!Goto, Owning
        <3> QED
            BY Zenon, <3>2, <3>3
    <2>3. CASE pc[t] = "last" /\ lock = t
        BY Zenon, <1>2, <2>3, LastStep DEF Rmcs!rmcs_unlock
    <2>4. CASE pc[t] = "last" /\ lock # t
        BY Zenon, <1>2, <2>0, <2>4, FirstSteps DEF Rmcs!rmcs_unlock, Rmcs!Goto, Owning
    <2>5. CASE pc[t] = "wait"
        BY Zenon, <1>2, <2>0, <2>5, FirstSteps DEF Rmcs!rmcs_unlock, Rmcs!Goto, Owning
    <2>6. CASE pc[t] = "handover"
        BY Zenon, <1>2, <2>6, HandoverStep DEF Rmcs!rmcs_unlock
    <2> QED
        BY Zenon, <1>2, <2>1, <2>2, <2>3, <2>4, <2>5, <2>6 DEF Rmcs!rmcs_unlock
<1>3. ASSUME NEW t \in THREADS, Rmcs!measure_rmcs(t) PROVE RmcsInv'
    <2>1. /\ node[t].locked \in {"WAITING", "OWNED", "RELEASED"}
          /\ node' = [node EXCEPT ![t].locked = node[t].locked]
        BY Zenon, <1>3 DEF RmcsInv, RmcsTypeOK, Nodes, Rmcs!measure_rmcs
    <2> QED
        BY Zenon, <1>3, <2>1, FirstSteps DEF Rmcs!measure_rmcs, Rmcs!Passage, Owning
<1>4. CASE UNCHANGED Rmcs!rmcsVars
    <2>1. PICK q \in [Nat -> THREADS \union {Rmcs!NULL}], h \in Nat, e \in Nat : QueueInv(q, h, e)
        BY Zenon DEF RmcsInv
    <2>2. pc' = pc /\ inside' = inside /\ lock' = lock /\ node' = node /\ reg' = reg
        BY Zenon, <1>4 DEF Rmcs!rmcsVars, Rmcs!benchVars
    <2>3. QueueInv(q, h, e)'
        BY Zenon, <2>1, <2>2 DEF QueueInv, Queued, FirstOwns, OthersWait
    <2> QED
        BY Zenon, <2>2, <2>3 DEF RmcsInv, RmcsTypeOK, FreshNodes
<1> QED
    BY Zenon, <1>1, <1>2, <1>3, <1>4 DEF Rmcs!Next, Rmcs!Step

\* At most one thread is between rmcs_lock and rmcs_unlock, whatever the number
\* of threads and of passages (measure_rmcs counts under the lock).
THEOREM RmcsExclusion == Rmcs!Spec => []Exclusion
<1>1. Rmcs!Init => RmcsInv
    BY Zenon, RmcsInit
<1>2. RmcsInv /\ [Rmcs!Next]_(Rmcs!rmcsVars) => RmcsInv'
    BY Zenon, RmcsNext
<1>3. RmcsInv => Exclusion
    BY Zenon, RmcsInvExcludes
<1> QED
    BY <1>1, <1>2, <1>3, PTL DEF Rmcs!Spec

-----------------------------------------------------------------------------
(***************************************************************************)
(* Exclusion of the two test-and-test-and-set locks, for any number of     *)
(* threads.  The recoverable one may lose its threads anywhere: what makes *)
(* a thread that died inside the owner is its id in the word, which only   *)
(* its own next unlock removes.                                            *)
(***************************************************************************)
CONSTANT recoverable    \* which of the two

Tas == INSTANCE TasLocks

TasTypeOK ==
    /\ pc \in [THREADS -> {"lock", "tas", "spin", "cas", "cs", "unlock", "done", "crashed"}]
    /\ inside \in SUBSET THREADS
    /\ recoverable \in BOOLEAN

\* ttas.h: the one thread in the critical section or about to leave it.
ByteInv ==
    /\ \A t \in THREADS : pc[t] \notin {"spin", "cas", "crashed"}
    /\ \A t \in inside : pc[t] = "cs"
    /\ \A t \in THREADS : pc[t] \in {"cs", "unlock"} => lock # Tas!UNLOCKED
    /\ \A t, u \in THREADS : pc[t] \in {"cs", "unlock"} /\ pc[u] \in {"cs", "unlock"} => t = u

\* tatas_spin.h: the word names whoever is inside, also one that crashed.
OwnerInv ==
    /\ \A t \in THREADS : pc[t] # "tas"
    /\ \A t \in inside : lock = Tas!compose_cs_status(t)
    /\ \A t \in THREADS : pc[t] \in {"cs", "unlock"} => lock = Tas!compose_cs_status(t)
    /\ \A t \in THREADS : pc[t] = "unlock" => t \notin inside

TasInv == TasTypeOK /\ (IF recoverable THEN OwnerInv ELSE ByteInv)

-----------------------------------------------------------------------------
\* Both locks start free.
LEMMA TasInit == recoverable \in BOOLEAN /\ Tas!Init => TasInv
BY Zenon DEF Tas!Init, Tas!BenchInit, TasInv, TasTypeOK, ByteInv, OwnerInv

\* The words of two threads differ, and from the free word.
LEMMA WordsDiffer ==
    /\ \A t, u \in THREADS : Tas!compose_cs_status(t) = Tas!compose_cs_status(u) => t = u
    /\ \A t \in THREADS : Tas!compose_cs_status(t) # Tas!NoOwner
    /\ Tas!SwappedIn # Tas!UNLOCKED
BY DEF Tas!compose_cs_status, Tas!NoOwner, Tas!SwappedIn, Tas!UNLOCKED

\* A step of the lock that swaps a byte.
LEMMA ByteStep ==
    ASSUME TasInv, ~recoverable, NEW t \in THREADS, Tas!Step(t) \/ Tas!Crashes(t) \/ Tas!Restarts(t)
    PROVE  TasInv'
<1> USE DEF TasInv, TasTypeOK, ByteInv
<1>1. CASE Tas!ttas_mutex_lock(t)
    <2>1. CASE pc[t] = "lock"
        BY <1>1, <2>1 DEF Tas!ttas_mutex_lock, Tas!Goto
    <2>2. CASE pc[t] = "tas" /\ Tas!IsFree
        BY <1>1, <2>2, WordsDiffer DEF Tas!ttas_mutex_lock, Tas!l_tas_uint8, Tas!IsFree, Tas!Enter
    <2>3. CASE pc[t] = "tas" /\ ~Tas!IsFree
        BY ZenonT(60), <1>1, <2>3, WordsDiffer DEF Tas!ttas_mutex_lock, Tas!l_tas_uint8, Tas!Goto
    <2> QED
        BY Zenon, <1>1, <2>1, <2>2, <2>3 DEF Tas!ttas_mutex_lock
<1>2. CASE Tas!ttas_mutex_unlock(t)
    BY Zenon, <1>2 DEF Tas!ttas_mutex_unlock, Tas!Return, Tas!Goto
<1>3. CASE Tas!measure_ttas(t)
    BY Zenon, <1>3 DEF Tas!measure_ttas, Tas!Passage
<1> QED
    BY Zenon, <1>1, <1>2, <1>3 DEF Tas!Step, Tas!ttas_recover, Tas!ttas_enter, Tas!ttas_exit, Tas!measure_lpttas,
                            Tas!Crashes, Tas!Restarts, Tas!Restart

\* A step of the lock that swaps the owner's id, a crash or a new start.
LEMMA OwnerStep ==
    ASSUME TasInv, recoverable, NEW t \in THREADS, Tas!Step(t) \/ Tas!Crashes(t) \/ Tas!Restarts(t)
    PROVE  TasInv'
<1> USE DEF TasInv, TasTypeOK, OwnerInv
<1>1. CASE Tas!ttas_recover(t)
    BY <1>1, WordsDiffer DEF Tas!ttas_recover, Tas!Enter, Tas!Goto
<1>2. CASE Tas!ttas_enter(t)
    <2>1. CASE pc[t] = "spin"
        BY Zenon, <1>2, <2>1 DEF Tas!ttas_enter, Tas!Goto
    <2>2. CASE pc[t] = "cas" /\ Tas!IsFree
        BY Zenon, <1>2, <2>2, WordsDiffer DEF Tas!ttas_enter, Tas!IsFree, Tas!Enter
    <2>3. CASE pc[t] = "cas" /\ ~Tas!IsFree
        BY Zenon, <1>2, <2>3 DEF Tas!ttas_enter, Tas!Goto
    <2> QED
        BY Zenon, <1>2, <2>1, <2>2, <2>3 DEF Tas!ttas_enter
<1>3. CASE Tas!ttas_exit(t)
    <2>1. \A u \in THREADS : u # t => pc[u] \notin {"cs", "unlock"} /\ u \notin inside
        BY Zenon, <1>3, WordsDiffer DEF Tas!ttas_exit
    <2>2. t \notin inside
        BY Zenon, <1>3 DEF Tas!ttas_exit
    <2> QED
        BY Zenon, <1>3, <2>1, <2>2 DEF Tas!ttas_exit, Tas!Return, Tas!Goto
<1>4. CASE Tas!measure_lpttas(t)
    BY Zenon, <1>4 DEF Tas!measure_lpttas, Tas!Passage
<1>5. CASE Tas!Crashes(t)
    BY Zenon, <1>5 DEF Tas!Crashes, Tas!Crash
<1>6. CASE Tas!Restarts(t)
    BY Zenon, <1>6 DEF Tas!Restarts, Tas!Restart, Tas!Goto
<1> QED
    BY Zenon, <1>1, <1>2, <1>3, <1>4, <1>5, <1>6 DEF Tas!Step, Tas!ttas_mutex_lock, Tas!ttas_mutex_unlock, Tas!measure_ttas

\* At most one thread is inside ttas_mutex_lock .. ttas_mutex_unlock, or inside
\* ttas_lock .. ttas_unlock wherever threads crash and come back.
THEOREM TasExclusion ==
    ASSUME recoverable \in BOOLEAN
    PROVE  Tas!Spec => []Exclusion
<1>1. Tas!Init => TasInv
    BY Zenon, TasInit
<1>2. TasInv /\ [Tas!Next]_(Tas!tasVars) => TasInv'
    <2>1. CASE UNCHANGED Tas!tasVars
        BY Zenon, <2>1 DEF Tas!tasVars, Tas!benchVars, TasInv, TasTypeOK, ByteInv, OwnerInv
    <2>2. CASE Tas!Next
        BY Zenon, <2>2, ByteStep, OwnerStep DEF Tas!Next
    <2> QED
        BY Zenon, <2>1, <2>2
<1>3. TasInv => Exclusion
    BY Zenon, WordsDiffer DEF TasInv, TasTypeOK, ByteInv, OwnerInv, Exclusion
<1> QED
    BY <1>1, <1>2, <1>3, PTL DEF Tas!Spec
=============================================================================
