---------------------------- MODULE QSpinProofs ----------------------------
(***************************************************************************)
(* Exclusion of the queued spinlock, for any number of threads.            *)
(*                                                                         *)
(* The queue is written out as the threads q[h] .. q[e - 1] in the order   *)
(* in which they exchanged the tail; the links of the nodes may lag behind *)
(* it, and the invariant says how far.  Only the first of them can be past *)
(* its wait, so only one thread claims the word, and it does so when       *)
(* neither owner nor pending bit is set.  The pending bit is taken on a    *)
(* word without tail, and its holder waits for the owner; the head of a    *)
(* queue that forms meanwhile waits for both.                              *)
(***************************************************************************)
EXTENDS QSpinLock, TLAPS

\* Labels: with a node in use; in the MCS queue; at its head; holding the lock.
Counted == {"tryread", "trylock", "xchg", "link", "mcs", "peek", "head", "claim", "setlocked",
            "next", "pass", "release"}
InQueue == {"link", "mcs", "peek", "head", "claim", "setlocked", "next", "pass"}
AtHead == {"peek", "head", "claim", "setlocked", "next", "pass"}
Holding == {"next", "pass", "release", "cs", "unlock"}
Pending == {"owner", "takeover"}
QLabels == Counted \union Holding \union Pending \union {"lock", "handover", "pend", "queue", "done"}

NodeIds == {4 * t + idx : t \in THREADS, idx \in 0 .. 3}
NodeSet == [next : NodeIds \union {NULL}, locked : {0, 1}, count : Int]
WordSet == [tail : Nat, pending : {0, 1}, locked : {0, 1}]

\* What a thread leaves in the tail, and the fields of its first node.
TailOf(t) == 4 * (t + 1)
NextOf == [t \in THREADS |-> node[4 * t].next]
LockedOf == [t \in THREADS |-> node[4 * t].locked]

\* The threads q[h] .. q[e - 1], each once, are the queue with this tail.
QQueued(q, h, e, p, tail, nx) ==
    /\ q \in [Nat -> THREADS \union {NULL}]
    /\ h \in Nat /\ e \in Nat /\ h <= e
    /\ \A i \in Nat : h <= i /\ i < e => q[i] \in THREADS /\ p[q[i]] \in InQueue
    /\ \A i, j \in Nat : h <= i /\ i < e /\ h <= j /\ j < e /\ q[i] = q[j] => i = j
    /\ \A t \in THREADS : p[t] \in InQueue => \E i \in Nat : h <= i /\ i < e /\ q[i] = t
    /\ h = e => tail = 0
    /\ h < e => tail = TailOf(q[e - 1]) /\ nx[q[e - 1]] = NULL

\* The first one has been told so, and what it knows of its successor is true.
QFirst(q, h, e, p, nx, lk, rg) ==
    h < e =>
        /\ p[q[h]] # "link"
        /\ p[q[h]] = "mcs" => lk[q[h]] = 1
        /\ p[q[h]] \in {"head", "claim", "setlocked", "next"} => rg[q[h]].next \in {NULL, nx[q[h]]}
        /\ p[q[h]] = "pass" => rg[q[h]].next = nx[q[h]] /\ nx[q[h]] # NULL

\* The others wait, linked to the one before them or about to be.
QOthers(q, h, e, p, nx, lk, rg) ==
    \A i \in Nat : h < i /\ i < e =>
        /\ p[q[i]] \in {"link", "mcs"}
        /\ lk[q[i]] = 0
        /\ p[q[i]] = "link" => rg[q[i]].old = TailOf(q[i - 1]) /\ nx[q[i - 1]] = NULL
        /\ p[q[i]] = "mcs" => nx[q[i - 1]] = 4 * q[i]

QInv(q, h, e, p, tail, nx, lk, rg) ==
    /\ QQueued(q, h, e, p, tail, nx)
    /\ QFirst(q, h, e, p, nx, lk, rg)
    /\ QOthers(q, h, e, p, nx, lk, rg)

QTypeOK ==
    /\ pc \in [THREADS -> QLabels]
    /\ inside \in SUBSET THREADS
    /\ lock \in WordSet
    /\ node \in [NodeIds -> NodeSet]
    /\ reg \in [THREADS -> [val : WordSet, next : NodeIds \union {NULL}, old : Nat]]

\* A thread uses only its first node, and that one is fresh when it is swapped in.
QNodes ==
    \A t \in THREADS :
        /\ node[4 * t].count = IF pc[t] \in Counted THEN 1 ELSE 0
        /\ pc[t] \in {"tryread", "trylock", "xchg"} => node[4 * t].next = NULL /\ node[4 * t].locked = 0

\* What the word says of the threads.
QWord ==
    /\ \A t \in inside : pc[t] = "cs"
    /\ \A t \in THREADS : pc[t] \in Holding => lock.locked = 1
    /\ \A t, u \in THREADS : pc[t] \in Holding /\ pc[u] \in Holding => t = u
    /\ \A t \in THREADS : pc[t] \in Pending => lock.pending = 1
    /\ \A t, u \in THREADS : pc[t] \in Pending /\ pc[u] \in Pending => t = u
    /\ \A t \in THREADS : pc[t] = "takeover" => lock.locked = 0
    /\ \A t \in THREADS : pc[t] \in {"claim", "setlocked"} => lock.locked = 0 /\ lock.pending = 0
    /\ \A t \in THREADS : pc[t] = "claim" =>
           reg[t].val.locked = 0 /\ reg[t].val.pending = 0 /\ reg[t].val.tail = TailOf(t)
    /\ \A t \in THREADS : pc[t] = "pend" => reg[t].val.tail = 0 /\ reg[t].val.pending = 0

QTheQueue ==
    \E q \in [Nat -> THREADS \union {NULL}], h, e \in Nat :
        QInv(q, h, e, pc, lock.tail, NextOf, LockedOf, reg)

QspinInv == QTypeOK /\ QNodes /\ QWord /\ QTheQueue

-----------------------------------------------------------------------------
\* NULL is no thread and no node; tails tell threads apart and are not 0.
LEMMA QNumbers ==
    /\ THREADS \subseteq Nat /\ NULL \notin THREADS /\ NULL \notin NodeIds
    /\ \A t \in THREADS : 4 * t \in NodeIds /\ TailOf(t) \in Nat /\ TailOf(t) # 0
    /\ \A t, u \in THREADS : (4 * t = 4 * u => t = u) /\ (TailOf(t) = TailOf(u) => t = u)
<1>1. THREADS \subseteq Nat
    BY BenchAssumption DEF BenchAssumption
<1>2. NULL \notin THREADS /\ NULL \notin NodeIds
    BY <1>1 DEF NULL, NodeIds
<1>3. \A t \in THREADS : 4 * t \in NodeIds
    <2> SUFFICES ASSUME NEW t \in THREADS PROVE 4 * t \in NodeIds
        OBVIOUS
    <2>1. 4 * t = 4 * t + 0 /\ 0 \in 0 .. 3
        BY <1>1
    <2> QED
        BY <2>1 DEF NodeIds
<1>4. \A t \in THREADS : TailOf(t) \in Nat /\ TailOf(t) # 0
    BY <1>1 DEF TailOf
<1>5. \A t, u \in THREADS : (4 * t = 4 * u => t = u) /\ (TailOf(t) = TailOf(u) => t = u)
    BY <1>1 DEF TailOf
<1> QED
    BY Zenon, <1>1, <1>2, <1>3, <1>4, <1>5

\* Without a tail nobody is queued, and only the first is past its waiting.
LEMMA QueueFacts ==
    ASSUME NEW q, NEW h, NEW e, NEW p, NEW tail, NEW nx, NEW lk, NEW rg,
           QInv(q, h, e, p, tail, nx, lk, rg)
    PROVE  /\ tail = 0 => \A t \in THREADS : p[t] \notin InQueue
           /\ \A t \in THREADS : p[t] \in AtHead \/ (p[t] = "mcs" /\ lk[t] = 1) => t = q[h] /\ h < e
           /\ \A t, u \in THREADS : p[t] \in AtHead /\ p[u] \in AtHead => t = u
<1>1. /\ h \in Nat /\ e \in Nat /\ h <= e
      /\ \A i \in Nat : h <= i /\ i < e => q[i] \in THREADS
      /\ \A t \in THREADS : p[t] \in InQueue => \E i \in Nat : h <= i /\ i < e /\ q[i] = t
      /\ h < e => tail = TailOf(q[e - 1])
    BY Zenon DEF QInv, QQueued
<1>2. ASSUME tail = 0, NEW t \in THREADS, p[t] \in InQueue PROVE FALSE
    <2>1. PICK i \in Nat : h <= i /\ i < e /\ q[i] = t
        BY Zenon, <1>1, <1>2
    <2>2. h < e /\ e - 1 \in Nat /\ h <= e - 1 /\ e - 1 < e
        BY <1>1, <2>1
    <2> QED
        BY Zenon, <1>1, <1>2, <2>2, QNumbers
<1>3. ASSUME NEW t \in THREADS, p[t] \in AtHead \/ (p[t] = "mcs" /\ lk[t] = 1)
      PROVE  t = q[h] /\ h < e
    <2>1. p[t] \in InQueue
        BY Zenon, <1>3 DEF AtHead, InQueue
    <2>2. PICK i \in Nat : h <= i /\ i < e /\ q[i] = t
        BY Zenon, <1>1, <2>1
    <2>3. ~(h < i)
        BY <1>3, <2>2 DEF QInv, QOthers, AtHead
    <2> QED
        BY <1>1, <2>2, <2>3
<1> QED
    BY Zenon, <1>2, <1>3

\* A step of a thread that is not queued before or after it.
LEMMA QOutside ==
    ASSUME NEW q, NEW h, NEW e, NEW p, NEW tail, NEW nx, NEW lk, NEW rg, NEW p2, NEW nx2, NEW lk2, NEW rg2,
           QInv(q, h, e, p, tail, nx, lk, rg),
           NEW t \in THREADS, p[t] \notin InQueue, p2[t] \notin InQueue,
           \A u \in THREADS : u # t => p2[u] = p[u] /\ nx2[u] = nx[u] /\ lk2[u] = lk[u] /\ rg2[u] = rg[u]
    PROVE  QInv(q, h, e, p2, tail, nx2, lk2, rg2)
<1>1. /\ q \in [Nat -> THREADS \union {NULL}]
      /\ h \in Nat /\ e \in Nat /\ h <= e
      /\ \A i \in Nat : h <= i /\ i < e => q[i] \in THREADS /\ q[i] # t
    BY Zenon DEF QInv, QQueued
<1>2. \A i \in Nat : h <= i /\ i < e => /\ p2[q[i]] = p[q[i]] /\ nx2[q[i]] = nx[q[i]]
                                        /\ lk2[q[i]] = lk[q[i]] /\ rg2[q[i]] = rg[q[i]]
    BY Zenon, <1>1
<1>3. QQueued(q, h, e, p2, tail, nx2)
    <2>1. h < e => nx2[q[e - 1]] = nx[q[e - 1]]
        <3>1. h < e => e - 1 \in Nat /\ h <= e - 1 /\ e - 1 < e
            BY <1>1
        <3> QED
            BY Zenon, <1>2, <3>1
    <2>2. \A u \in THREADS : p2[u] \in InQueue => p[u] \in InQueue
        BY Zenon
    <2> QED
        BY Zenon, <1>1, <1>2, <2>1, <2>2 DEF QInv, QQueued
<1>4. QFirst(q, h, e, p2, nx2, lk2, rg2)
    <2>1. h < e => p2[q[h]] = p[q[h]] /\ nx2[q[h]] = nx[q[h]] /\ lk2[q[h]] = lk[q[h]] /\ rg2[q[h]] = rg[q[h]]
        BY <1>1, <1>2
    <2> QED
        BY Zenon, <2>1 DEF QInv, QFirst
<1>5. QOthers(q, h, e, p2, nx2, lk2, rg2)
    <2> SUFFICES ASSUME NEW i \in Nat, h < i, i < e
                 PROVE  /\ p2[q[i]] \in {"link", "mcs"}
                        /\ lk2[q[i]] = 0
                        /\ p2[q[i]] = "link" => rg2[q[i]].old = TailOf(q[i - 1]) /\ nx2[q[i - 1]] = NULL
                        /\ p2[q[i]] = "mcs" => nx2[q[i - 1]] = 4 * q[i]
        BY Zenon DEF QOthers
    <2>1. h <= i /\ i - 1 \in Nat /\ h <= i - 1 /\ i - 1 < e
        BY <1>1
    <2>2. p2[q[i]] = p[q[i]] /\ lk2[q[i]] = lk[q[i]] /\ rg2[q[i]] = rg[q[i]] /\ nx2[q[i - 1]] = nx[q[i - 1]]
        BY Zenon, <1>2, <2>1
    <2> QED
        BY Zenon, <2>2 DEF QInv, QOthers
<1> QED
    BY Zenon, <1>3, <1>4, <1>5 DEF QInv

\* A step of the first thread that leaves it first and changes no node.
LEMMA QHeadMoves ==
    ASSUME NEW q, NEW h, NEW e, NEW p, NEW tail, NEW nx, NEW lk, NEW rg, NEW p2, NEW rg2,
           QInv(q, h, e, p, tail, nx, lk, rg),
           NEW t \in THREADS, p[t] \in AtHead \/ (p[t] = "mcs" /\ lk[t] = 1), p2[t] \in AtHead,
           p2[t] \in {"head", "claim", "setlocked", "next"} => rg2[t].next \in {NULL, nx[t]},
           p2[t] = "pass" => rg2[t].next = nx[t] /\ nx[t] # NULL,
           \A u \in THREADS : u # t => p2[u] = p[u] /\ rg2[u] = rg[u]
    PROVE  QInv(q, h, e, p2, tail, nx, lk, rg2)
<1>1. /\ q \in [Nat -> THREADS \union {NULL}]
      /\ h \in Nat /\ e \in Nat /\ h <= e
      /\ \A i \in Nat : h <= i /\ i < e => q[i] \in THREADS
      /\ \A i, j \in Nat : h <= i /\ i < e /\ h <= j /\ j < e /\ q[i] = q[j] => i = j
    BY Zenon DEF QInv, QQueued
<1>2. t = q[h] /\ h < e
    <2>1. \A u \in THREADS : p[u] \in AtHead \/ (p[u] = "mcs" /\ lk[u] = 1) => u = q[h] /\ h < e
        BY QueueFacts
    <2> QED
        BY Zenon, <2>1
<1>3. \A i \in Nat : h < i /\ i < e => q[i] # t
    BY <1>1, <1>2
<1>4. \A i \in Nat : h < i /\ i < e => p2[q[i]] = p[q[i]] /\ rg2[q[i]] = rg[q[i]]
    BY <1>1, <1>3
<1>5. QQueued(q, h, e, p2, tail, nx)
    <2>1. p[t] \in InQueue /\ p2[t] \in InQueue
        BY Zenon DEF AtHead, InQueue
    <2>2. \A u \in THREADS : p2[u] \in InQueue <=> p[u] \in InQueue
        BY Zenon, <2>1
    <2> QED
        BY Zenon, <2>2 DEF QInv, QQueued
<1>6. QFirst(q, h, e, p2, nx, lk, rg2)
    <2>1. p2[t] # "link" /\ p2[t] # "mcs"
        BY DEF AtHead
    <2> QED
        BY Zenon, <1>2, <2>1 DEF QFirst
<1>7. QOthers(q, h, e, p2, nx, lk, rg2)
    BY Zenon, <1>4 DEF QInv, QOthers
<1> QED
    BY Zenon, <1>5, <1>6, <1>7 DEF QInv

\* Thread t, with a fresh node, has swapped itself in as the tail.
QArrives(t, tail, nx, lk, p, rg, p2, rg2) ==
    /\ p[t] \notin InQueue /\ nx[t] = NULL /\ lk[t] = 0
    /\ p2[t] = (IF tail # 0 THEN "link" ELSE "head") /\ rg2[t].old = tail /\ rg2[t].next = NULL
    /\ \A u \in THREADS : u # t => p2[u] = p[u] /\ rg2[u] = rg[u]

\* xchg_tail puts a thread with a fresh node at the end of the queue.
LEMMA QPush ==
    ASSUME NEW q, NEW h, NEW e, NEW p, NEW tail, NEW nx, NEW lk, NEW rg, NEW p2, NEW rg2,
           QInv(q, h, e, p, tail, nx, lk, rg),
           NEW t \in THREADS, QArrives(t, tail, nx, lk, p, rg, p2, rg2)
    PROVE  \E r \in [Nat -> THREADS \union {NULL}], k \in Nat :
               QInv(r, h, k, p2, TailOf(t), nx, lk, rg2)
<1> DEFINE r == [q EXCEPT ![e] = t]
<1> USE DEF QArrives
<1>1. /\ q \in [Nat -> THREADS \union {NULL}]
      /\ h \in Nat /\ e \in Nat /\ h <= e /\ e + 1 \in Nat
      /\ \A i \in Nat : h <= i /\ i < e => q[i] \in THREADS /\ q[i] # t /\ p[q[i]] \in InQueue
      /\ \A i, j \in Nat : h <= i /\ i < e /\ h <= j /\ j < e /\ q[i] = q[j] => i = j
      /\ \A u \in THREADS : p[u] \in InQueue => \E i \in Nat : h <= i /\ i < e /\ q[i] = u
    <2>1. /\ q \in [Nat -> THREADS \union {NULL}]
          /\ h \in Nat /\ e \in Nat /\ h <= e
          /\ \A i \in Nat : h <= i /\ i < e => q[i] \in THREADS /\ q[i] # t /\ p[q[i]] \in InQueue
          /\ \A i, j \in Nat : h <= i /\ i < e /\ h <= j /\ j < e /\ q[i] = q[j] => i = j
          /\ \A u \in THREADS : p[u] \in InQueue => \E i \in Nat : h <= i /\ i < e /\ q[i] = u
        BY Zenon DEF QInv, QQueued
    <2>2. e + 1 \in Nat
        BY <2>1
    <2> QED
        BY Zenon, <2>1, <2>2
<1>2. /\ h = e => tail = 0
      /\ h < e => /\ tail = TailOf(q[e - 1]) /\ tail # 0 /\ nx[q[e - 1]] = NULL
                  /\ e - 1 \in Nat /\ h <= e - 1 /\ e - 1 < e
    <2>1. /\ h = e => tail = 0
          /\ h < e => tail = TailOf(q[e - 1]) /\ nx[q[e - 1]] = NULL
        BY Zenon DEF QInv, QQueued
    <2>2. h < e => e - 1 \in Nat /\ h <= e - 1 /\ e - 1 < e
        BY <1>1
    <2>3. h < e => q[e - 1] \in THREADS
        BY Zenon, <1>1, <2>2
    <2>4. \A u \in THREADS : TailOf(u) # 0
        BY Zenon, QNumbers
    <2> QED
        BY Zenon, <2>1, <2>2, <2>3, <2>4
<1>3. /\ r \in [Nat -> THREADS \union {NULL}] /\ r[e] = t
      /\ \A i \in Nat : i # e => r[i] = q[i]
    BY Zenon, <1>1
<1> HIDE DEF r
<1>4. \A i \in Nat : h <= i /\ i < e => /\ r[i] = q[i] /\ q[i] \in THREADS /\ q[i] # t
                                        /\ p2[q[i]] = p[q[i]] /\ rg2[q[i]] = rg[q[i]]
    BY <1>1, <1>3
<1>5. p2[t] \in InQueue
    BY Zenon DEF InQueue
<1>6. QQueued(r, h, e + 1, p2, TailOf(t), nx)
    <2>1. \A i \in Nat : h <= i /\ i < e + 1 => r[i] \in THREADS /\ p2[r[i]] \in InQueue
        BY <1>1, <1>3, <1>4, <1>5
    <2>2. \A i, j \in Nat : h <= i /\ i < e + 1 /\ h <= j /\ j < e + 1 /\ r[i] = r[j] => i = j
        BY <1>1, <1>3, <1>4
    <2>3. ASSUME NEW u \in THREADS, p2[u] \in InQueue
          PROVE  \E i \in Nat : h <= i /\ i < e + 1 /\ r[i] = u
        <3>1. CASE u = t
            BY <1>1, <1>3, <3>1
        <3>2. CASE u # t
            <4>1. PICK i \in Nat : h <= i /\ i < e /\ q[i] = u
                BY Zenon, <1>1, <2>3, <3>2
            <4> QED
                BY <1>1, <1>4, <4>1
        <3> QED
            BY Zenon, <3>1, <3>2
    <2>4. (e + 1) - 1 = e /\ h <= e + 1 /\ h # e + 1
        BY <1>1
    <2> QED
        BY Zenon, <1>1, <1>3, <2>1, <2>2, <2>3, <2>4 DEF QQueued
<1>7. QFirst(r, h, e + 1, p2, nx, lk, rg2)
    <2>1. CASE h = e
        BY Zenon, <1>2, <1>3, <2>1 DEF QFirst
    <2>2. CASE h # e
        <3>1. h < e /\ h <= h
            BY <1>1, <2>2
        <3>2. r[h] = q[h] /\ p2[q[h]] = p[q[h]] /\ rg2[q[h]] = rg[q[h]]
            BY Zenon, <1>1, <1>4, <3>1
        <3> QED
            BY Zenon, <3>1, <3>2 DEF QInv, QFirst
    <2> QED
        BY Zenon, <2>1, <2>2
<1>8. QOthers(r, h, e + 1, p2, nx, lk, rg2)
    <2> SUFFICES ASSUME NEW i \in Nat, h < i, i < e + 1
                 PROVE  /\ p2[r[i]] \in {"link", "mcs"}
                        /\ lk[r[i]] = 0
                        /\ p2[r[i]] = "link" => rg2[r[i]].old = TailOf(r[i - 1]) /\ nx[r[i - 1]] = NULL
                        /\ p2[r[i]] = "mcs" => nx[r[i - 1]] = 4 * r[i]
        BY Zenon DEF QOthers
    <2>1. i - 1 \in Nat /\ h <= i - 1 /\ i - 1 < e /\ i - 1 # e
        BY <1>1
    <2>2. r[i - 1] = q[i - 1]
        BY Zenon, <1>3, <2>1
    <2>3. CASE i = e
        <3>1. h < e
            BY Zenon, <2>3
        <3> QED
            BY Zenon, <1>2, <1>3, <2>2, <2>3, <3>1
    <2>4. CASE i # e
        <3>1. h <= i /\ i < e
            BY <1>1, <2>4
        <3>2. r[i] = q[i] /\ p2[q[i]] = p[q[i]] /\ rg2[q[i]] = rg[q[i]]
            BY Zenon, <1>4, <3>1
        <3> QED
            BY <2>2, <3>1, <3>2 DEF QInv, QOthers
    <2> QED
        BY Zenon, <2>3, <2>4
<1> QED
    BY Zenon, <1>1, <1>3, <1>6, <1>7, <1>8 DEF QInv

\* Thread t, queued behind s, has stored its node into that of s.
QLinks(t, s, p, nx, rg, p2, nx2, rg2) ==
    /\ p[t] = "link" /\ p2[t] = "mcs"
    /\ rg[t].old = TailOf(s) /\ nx2[s] = 4 * t
    /\ \A u \in THREADS : u # s => nx2[u] = nx[u]
    /\ \A u \in THREADS : u # t => p2[u] = p[u] /\ rg2[u] = rg[u]

\* A waiting thread links itself behind the one before it.
LEMMA QLink ==
    ASSUME NEW q, NEW h, NEW e, NEW p, NEW tail, NEW nx, NEW lk, NEW rg, NEW p2, NEW nx2, NEW rg2,
           QInv(q, h, e, p, tail, nx, lk, rg),
           NEW t \in THREADS, NEW s \in THREADS, QLinks(t, s, p, nx, rg, p2, nx2, rg2)
    PROVE  QInv(q, h, e, p2, tail, nx2, lk, rg2)
<1> USE DEF QLinks
<1>1. /\ q \in [Nat -> THREADS \union {NULL}]
      /\ h \in Nat /\ e \in Nat /\ h <= e
      /\ \A i \in Nat : h <= i /\ i < e => q[i] \in THREADS /\ p[q[i]] \in InQueue
      /\ \A i, j \in Nat : h <= i /\ i < e /\ h <= j /\ j < e /\ q[i] = q[j] => i = j
      /\ \A u \in THREADS : p[u] \in InQueue => \E i \in Nat : h <= i /\ i < e /\ q[i] = u
    BY Zenon DEF QInv, QQueued
<1>2. PICK k \in Nat : h <= k /\ k < e /\ q[k] = t
    BY Zenon, <1>1 DEF InQueue
<1>3. h < k /\ k - 1 \in Nat /\ h <= k - 1 /\ k - 1 < e
    <2>1. k # h
        BY Zenon, <1>2 DEF QInv, QFirst
    <2> QED
        BY <1>1, <1>2, <2>1
<1>4. q[k - 1] = s /\ nx[s] = NULL
    <2>1. rg[q[k]].old = TailOf(q[k - 1]) /\ nx[q[k - 1]] = NULL
        BY Zenon, <1>2, <1>3 DEF QInv, QOthers
    <2>2. q[k - 1] \in THREADS /\ TailOf(q[k - 1]) = TailOf(s)
        BY Zenon, <1>1, <1>2, <1>3, <2>1
    <2>3. \A u, v \in THREADS : TailOf(u) = TailOf(v) => u = v
        BY Zenon, QNumbers
    <2> QED
        BY Zenon, <2>1, <2>2, <2>3
<1>5. \A i \in Nat : h <= i /\ i < e => (i # k => q[i] # t) /\ (i # k - 1 => q[i] # s)
    BY Zenon, <1>1, <1>2, <1>3, <1>4
<1>6. QQueued(q, h, e, p2, tail, nx2)
    <2>1. \A u \in THREADS : p2[u] \in InQueue <=> p[u] \in InQueue
        BY Zenon DEF InQueue
    <2>2. e - 1 \in Nat /\ h <= e - 1 /\ e - 1 < e /\ e - 1 # k - 1
        BY <1>1, <1>2
    <2>3. nx2[q[e - 1]] = nx[q[e - 1]]
        BY <1>1, <1>5, <2>2
    <2> QED
        BY Zenon, <2>1, <2>3 DEF QInv, QQueued
<1>7. QFirst(q, h, e, p2, nx2, lk, rg2)
    <2>1. h < e /\ h <= h /\ h # k
        BY <1>1, <1>2, <1>3
    <2>2. q[h] \in THREADS /\ p2[q[h]] = p[q[h]] /\ rg2[q[h]] = rg[q[h]]
        BY Zenon, <1>1, <1>5, <2>1
    <2>3. CASE q[h] = s
        <3>1. 4 * t # NULL
            BY Zenon, QNumbers
        <3> QED
            BY Zenon, <1>4, <2>1, <2>2, <2>3, <3>1 DEF QInv, QFirst
    <2>4. CASE q[h] # s
        BY Zenon, <2>1, <2>2, <2>4 DEF QInv, QFirst
    <2> QED
        BY Zenon, <2>3, <2>4
<1>8. QOthers(q, h, e, p2, nx2, lk, rg2)
    <2> SUFFICES ASSUME NEW i \in Nat, h < i, i < e
                 PROVE  /\ p2[q[i]] \in {"link", "mcs"}
                        /\ lk[q[i]] = 0
                        /\ p2[q[i]] = "link" => rg2[q[i]].old = TailOf(q[i - 1]) /\ nx2[q[i - 1]] = NULL
                        /\ p2[q[i]] = "mcs" => nx2[q[i - 1]] = 4 * q[i]
        BY Zenon DEF QOthers
    <2>1. CASE i = k
        BY Zenon, <1>2, <1>4, <2>1 DEF QInv, QOthers
    <2>2. CASE i # k
        <3>1. h <= i /\ i - 1 \in Nat /\ h <= i - 1 /\ i - 1 < e /\ i - 1 # k - 1
            BY <1>1, <1>2, <2>2
        <3>2. nx2[q[i - 1]] = nx[q[i - 1]] /\ p2[q[i]] = p[q[i]] /\ rg2[q[i]] = rg[q[i]]
            BY Zenon, <1>1, <1>5, <2>2, <3>1
        <3> QED
            BY Zenon, <3>2 DEF QInv, QOthers
    <2> QED
        BY Zenon, <2>1, <2>2
<1> QED
    BY Zenon, <1>6, <1>7, <1>8 DEF QInv

\* The claim of a head that is also the tail empties the queue.
LEMMA QEmpty ==
    ASSUME NEW q, NEW h, NEW e, NEW p, NEW tail, NEW nx, NEW lk, NEW rg, NEW p2, NEW rg2,
           QInv(q, h, e, p, tail, nx, lk, rg),
           NEW t \in THREADS, p[t] \in AtHead, tail = TailOf(t), p2[t] \notin InQueue,
           \A u \in THREADS : u # t => p2[u] = p[u]
    PROVE  QInv(q, e, e, p2, 0, nx, lk, rg2)
<1>1. /\ q \in [Nat -> THREADS \union {NULL}]
      /\ h \in Nat /\ e \in Nat /\ h <= e
      /\ \A i \in Nat : h <= i /\ i < e => q[i] \in THREADS
      /\ \A i, j \in Nat : h <= i /\ i < e /\ h <= j /\ j < e /\ q[i] = q[j] => i = j
      /\ \A u \in THREADS : p[u] \in InQueue => \E i \in Nat : h <= i /\ i < e /\ q[i] = u
      /\ h < e => tail = TailOf(q[e - 1])
    BY Zenon DEF QInv, QQueued
<1>2. t = q[h] /\ h < e
    <2>1. \A u \in THREADS : p[u] \in AtHead \/ (p[u] = "mcs" /\ lk[u] = 1) => u = q[h] /\ h < e
        BY QueueFacts
    <2> QED
        BY Zenon, <2>1
<1>3. e - 1 \in Nat /\ h <= e - 1 /\ e - 1 < e /\ h <= h
    BY <1>1, <1>2
<1>4. q[e - 1] = t
    <2>1. \A u, v \in THREADS : TailOf(u) = TailOf(v) => u = v
        BY Zenon, QNumbers
    <2>2. q[e - 1] \in THREADS /\ TailOf(q[e - 1]) = TailOf(t)
        BY Zenon, <1>1, <1>2, <1>3
    <2> QED
        BY Zenon, <2>1, <2>2
<1>5. h = e - 1
    BY Zenon, <1>1, <1>2, <1>3, <1>4
<1>6. \A u \in THREADS : p2[u] \notin InQueue
    <2> SUFFICES ASSUME NEW u \in THREADS, p2[u] \in InQueue PROVE FALSE
        BY Zenon
    <2>1. u # t /\ p[u] \in InQueue
        BY Zenon
    <2>2. PICK i \in Nat : h <= i /\ i < e /\ q[i] = u
        BY Zenon, <1>1, <2>1
    <2>3. i = h
        BY <1>1, <1>5, <2>2
    <2> QED
        BY Zenon, <1>2, <2>1, <2>2, <2>3
<1>7. \A i \in Nat : ~(e <= i /\ i < e) /\ ~(e < i /\ i < e)
    BY <1>1
<1>8. ~(e < e) /\ e <= e
    BY <1>1
<1> QED
    BY Zenon, <1>1, <1>6, <1>7, <1>8 DEF QInv, QQueued, QFirst, QOthers

\* Thread t has left the queue and told s that it is the first now.
QPasses(t, s, p, lk, rg, p2, lk2, rg2) ==
    /\ p[t] = "pass" /\ p2[t] \notin InQueue
    /\ rg[t].next = 4 * s /\ lk2[s] = 1
    /\ \A u \in THREADS : u # s => lk2[u] = lk[u]
    /\ \A u \in THREADS : u # t => p2[u] = p[u] /\ rg2[u] = rg[u]

\* The first thread makes the next one the first.
LEMMA QPass ==
    ASSUME NEW q, NEW h, NEW e, NEW p, NEW tail, NEW nx, NEW lk, NEW rg, NEW p2, NEW lk2, NEW rg2,
           QInv(q, h, e, p, tail, nx, lk, rg),
           NEW t \in THREADS, NEW s \in THREADS, QPasses(t, s, p, lk, rg, p2, lk2, rg2)
    PROVE  QInv(q, h + 1, e, p2, tail, nx, lk2, rg2) /\ p[s] = "mcs" /\ s # t
<1> USE DEF QPasses
<1>1. /\ q \in [Nat -> THREADS \union {NULL}]
      /\ h \in Nat /\ e \in Nat /\ h <= e
      /\ \A i \in Nat : h <= i /\ i < e => q[i] \in THREADS /\ p[q[i]] \in InQueue
      /\ \A i, j \in Nat : h <= i /\ i < e /\ h <= j /\ j < e /\ q[i] = q[j] => i = j
      /\ \A u \in THREADS : p[u] \in InQueue => \E i \in Nat : h <= i /\ i < e /\ q[i] = u
      /\ h < e => tail = TailOf(q[e - 1]) /\ nx[q[e - 1]] = NULL
    BY Zenon DEF QInv, QQueued
<1>2. t = q[h] /\ h < e
    <2>1. \A u \in THREADS : p[u] \in AtHead \/ (p[u] = "mcs" /\ lk[u] = 1) => u = q[h] /\ h < e
        BY QueueFacts
    <2> QED
        BY Zenon, <2>1 DEF AtHead
<1>3. nx[t] = 4 * s /\ nx[t] # NULL
    BY Zenon, <1>2 DEF QInv, QFirst
<1>4. h + 1 \in Nat /\ h < h + 1 /\ h + 1 < e /\ (h + 1) - 1 = h /\ h <= h + 1 /\ h <= h
    <2>1. h # e - 1
        BY Zenon, <1>1, <1>2, <1>3
    <2> QED
        BY <1>1, <1>2, <2>1
<1>5. q[h + 1] \in THREADS /\ p[q[h + 1]] \in {"link", "mcs"}
    BY Zenon, <1>1, <1>4 DEF QInv, QOthers
<1>6. p[q[h + 1]] = "mcs" /\ nx[t] = 4 * q[h + 1]
    <2>1. /\ p[q[h + 1]] = "link" => nx[q[(h + 1) - 1]] = NULL
          /\ p[q[h + 1]] = "mcs" => nx[q[(h + 1) - 1]] = 4 * q[h + 1]
        BY Zenon, <1>4 DEF QInv, QOthers
    <2> QED
        BY Zenon, <1>2, <1>3, <1>4, <1>5, <2>1
<1>7. q[h + 1] = s
    <2>1. \A u, v \in THREADS : 4 * u = 4 * v => u = v
        BY Zenon, QNumbers
    <2> QED
        BY Zenon, <1>3, <1>5, <1>6, <2>1
<1>8. \A i \in Nat : h + 1 <= i /\ i < e => h <= i /\ h < i /\ q[i] # t /\ (i # h + 1 => q[i] # s)
    BY <1>1, <1>2, <1>4, <1>7
<1>9. s # t
    BY <1>1, <1>2, <1>4, <1>7
<1>10. QQueued(q, h + 1, e, p2, tail, nx)
    <2>1. \A i \in Nat : h + 1 <= i /\ i < e => q[i] \in THREADS /\ p2[q[i]] \in InQueue
        BY Zenon, <1>1, <1>8
    <2>2. ASSUME NEW u \in THREADS, p2[u] \in InQueue
          PROVE  \E i \in Nat : h + 1 <= i /\ i < e /\ q[i] = u
        <3>1. u # t /\ p[u] \in InQueue
            BY Zenon, <2>2
        <3>2. PICK i \in Nat : h <= i /\ i < e /\ q[i] = u
            BY Zenon, <1>1, <3>1
        <3>3. i # h
            BY Zenon, <1>2, <3>1, <3>2
        <3>4. h + 1 <= i
            BY <1>1, <3>2, <3>3
        <3> QED
            BY Zenon, <3>2, <3>4
    <2>3. \A i, j \in Nat : h + 1 <= i /\ i < e /\ h + 1 <= j /\ j < e /\ q[i] = q[j] => i = j
        BY Zenon, <1>1, <1>8
    <2>4. h + 1 <= e /\ h + 1 # e
        BY <1>1, <1>4
    <2> QED
        BY Zenon, <1>1, <1>2, <1>4, <2>1, <2>2, <2>3, <2>4 DEF QQueued
<1>11. QFirst(q, h + 1, e, p2, nx, lk2, rg2)
    <2>1. p2[q[h + 1]] = "mcs" /\ lk2[q[h + 1]] = 1
        BY Zenon, <1>6, <1>7, <1>9
    <2> QED
        BY Zenon, <2>1 DEF QFirst
<1>12. QOthers(q, h + 1, e, p2, nx, lk2, rg2)
    <2> SUFFICES ASSUME NEW i \in Nat, h + 1 < i, i < e
                 PROVE  /\ p2[q[i]] \in {"link", "mcs"}
                        /\ lk2[q[i]] = 0
                        /\ p2[q[i]] = "link" => rg2[q[i]].old = TailOf(q[i - 1]) /\ nx[q[i - 1]] = NULL
                        /\ p2[q[i]] = "mcs" => nx[q[i - 1]] = 4 * q[i]
        BY Zenon DEF QOthers
    <2>1. h + 1 <= i /\ i # h + 1
        BY <1>4
    <2>2. h < i /\ q[i] \in THREADS /\ p2[q[i]] = p[q[i]] /\ rg2[q[i]] = rg[q[i]] /\ lk2[q[i]] = lk[q[i]]
        BY Zenon, <1>1, <1>8, <2>1
    <2> QED
        BY Zenon, <2>2 DEF QInv, QOthers
<1> QED
    BY Zenon, <1>6, <1>7, <1>9, <1>10, <1>11, <1>12 DEF QInv

-----------------------------------------------------------------------------
(* Steps of a thread t, which is then at label l. *)

QMoves(t, l) == pc' = [pc EXCEPT ![t] = l] /\ t \in THREADS /\ l \in QLabels

\* The others stay where they are.
LEMMA QMoved ==
    ASSUME QTypeOK, NEW t, NEW l, QMoves(t, l)
    PROVE  /\ pc'[t] = l /\ pc' \in [THREADS -> QLabels]
           /\ \A u \in THREADS : u # t => pc'[u] = pc[u]
BY Zenon DEF QTypeOK, QMoves

\* A step that changes neither owner nor pending bit.
LEMMA WordKept ==
    ASSUME QTypeOK, QWord, NEW t, NEW l, QMoves(t, l),
           lock'.locked = lock.locked, lock'.pending = lock.pending,
           \A u \in THREADS : u # t => reg'[u] = reg[u],
           \A u \in inside' : pc'[u] = "cs",
           l \in Holding => pc[t] \in Holding,
           l \in Pending => pc[t] \in Pending,
           l = "takeover" => lock.locked = 0,
           l \in {"claim", "setlocked"} => lock.locked = 0 /\ lock.pending = 0,
           l = "claim" => reg'[t].val.locked = 0 /\ reg'[t].val.pending = 0 /\ reg'[t].val.tail = TailOf(t),
           l = "pend" => reg'[t].val.tail = 0 /\ reg'[t].val.pending = 0
    PROVE  QWord'
<1>1. pc'[t] = l /\ t \in THREADS /\ \A u \in THREADS : u # t => pc'[u] = pc[u]
    BY Zenon, QMoved DEF QMoves
<1>2. \A u \in THREADS : pc'[u] \in Holding => pc[u] \in Holding
    BY Zenon, <1>1
<1>3. \A u \in THREADS : pc'[u] \in Pending => pc[u] \in Pending
    BY Zenon, <1>1
<1>4. /\ \A u \in THREADS : pc'[u] \in Holding => lock'.locked = 1
      /\ \A u, v \in THREADS : pc'[u] \in Holding /\ pc'[v] \in Holding => u = v
    BY Zenon, <1>2 DEF QWord
<1>5. /\ \A u \in THREADS : pc'[u] \in Pending => lock'.pending = 1
      /\ \A u, v \in THREADS : pc'[u] \in Pending /\ pc'[v] \in Pending => u = v
    BY Zenon, <1>3 DEF QWord
<1>6. /\ \A u \in THREADS : pc'[u] = "takeover" => lock'.locked = 0
      /\ \A u \in THREADS : pc'[u] \in {"claim", "setlocked"} => lock'.locked = 0 /\ lock'.pending = 0
    BY Zenon, <1>1 DEF QWord
<1>7. \A u \in THREADS : pc'[u] = "claim" =>
           reg'[u].val.locked = 0 /\ reg'[u].val.pending = 0 /\ reg'[u].val.tail = TailOf(u)
    <2>1. \A u \in THREADS : pc[u] = "claim" =>
               reg[u].val.locked = 0 /\ reg[u].val.pending = 0 /\ reg[u].val.tail = TailOf(u)
        BY Zenon DEF QWord
    <2> SUFFICES ASSUME NEW u \in THREADS, pc'[u] = "claim"
                 PROVE  reg'[u].val.locked = 0 /\ reg'[u].val.pending = 0 /\ reg'[u].val.tail = TailOf(u)
        BY Zenon
    <2>2. CASE u = t
        BY Zenon, <1>1, <2>2
    <2>3. CASE u # t
        BY Zenon, <1>1, <2>1, <2>3
    <2> QED
        BY Zenon, <2>2, <2>3
<1>8. \A u \in THREADS : pc'[u] = "pend" => reg'[u].val.tail = 0 /\ reg'[u].val.pending = 0
    <2>1. \A u \in THREADS : pc[u] = "pend" => reg[u].val.tail = 0 /\ reg[u].val.pending = 0
        BY Zenon DEF QWord
    <2> SUFFICES ASSUME NEW u \in THREADS, pc'[u] = "pend"
                 PROVE  reg'[u].val.tail = 0 /\ reg'[u].val.pending = 0
        BY Zenon
    <2>2. CASE u = t
        BY Zenon, <1>1, <2>2
    <2>3. CASE u # t
        BY Zenon, <1>1, <2>1, <2>3
    <2> QED
        BY Zenon, <2>2, <2>3
<1> QED
    BY Zenon, <1>4, <1>5, <1>6, <1>7, <1>8 DEF QWord

\* A step that takes the lock while nobody has it or is about to get it.
LEMMA WordTaken ==
    ASSUME QTypeOK, QWord, NEW t, NEW l, QMoves(t, l),
           lock.locked = 0, lock'.locked = 1, l \in Holding,
           \A u \in THREADS : u # t => pc[u] \notin Pending \union {"claim", "setlocked"},
           \A u \in THREADS : u # t => reg'[u] = reg[u],
           \A u \in inside' : pc'[u] = "cs"
    PROVE  QWord'
<1>1. pc'[t] = l /\ t \in THREADS /\ \A u \in THREADS : u # t => pc'[u] = pc[u]
    BY Zenon, QMoved DEF QMoves
<1>2. \A u \in THREADS : pc'[u] \in Holding => u = t
    BY <1>1 DEF QWord
<1>3. l \notin Pending \union {"claim", "setlocked", "pend"} /\ "takeover" \in Pending
    BY DEF Holding, Pending
<1>4. \A u \in THREADS : pc'[u] \notin Pending \union {"claim", "setlocked"}
    BY Zenon, <1>1, <1>3
<1>5. \A u \in THREADS : pc'[u] = "pend" => reg'[u].val.tail = 0 /\ reg'[u].val.pending = 0
    <2> SUFFICES ASSUME NEW u \in THREADS, pc'[u] = "pend"
                 PROVE  reg'[u].val.tail = 0 /\ reg'[u].val.pending = 0
        BY Zenon
    <2>1. u # t
        BY Zenon, <1>1, <1>3
    <2>2. pc[u] = "pend" /\ reg'[u] = reg[u]
        BY Zenon, <1>1, <2>1
    <2> QED
        BY Zenon, <2>2 DEF QWord
<1> QED
    BY Zenon, <1>2, <1>3, <1>4, <1>5 DEF QWord

\* A step that sets the pending bit while the queue is empty.
LEMMA WordPending ==
    ASSUME QTypeOK, QWord, NEW t, QMoves(t, "owner"),
           lock.pending = 0, lock'.pending = 1, lock'.locked = lock.locked,
           \A u \in THREADS : pc[u] \notin {"claim", "setlocked"},
           \A u \in THREADS : u # t => reg'[u] = reg[u],
           \A u \in inside' : pc'[u] = "cs"
    PROVE  QWord'
<1>1. pc'[t] = "owner" /\ t \in THREADS /\ \A u \in THREADS : u # t => pc'[u] = pc[u]
    BY Zenon, QMoved DEF QMoves
<1>2. \A u \in THREADS : pc'[u] \in Pending => u = t
    BY <1>1 DEF QWord
<1>3. "owner" \notin Holding /\ "takeover" \in Pending
    BY DEF Holding, Pending
<1>4. \A u \in THREADS : pc'[u] \in Holding => u # t /\ pc[u] \in Holding
    <2> SUFFICES ASSUME NEW u \in THREADS, pc'[u] \in Holding PROVE u # t /\ pc[u] \in Holding
        BY Zenon
    <2>1. u # t
        BY Zenon, <1>1, <1>3
    <2> QED
        BY Zenon, <1>1, <2>1
<1>5. /\ \A u \in THREADS : pc'[u] # "takeover"
      /\ \A u \in THREADS : pc'[u] \notin {"claim", "setlocked"}
      /\ \A u \in THREADS : pc'[u] = "pend" => reg'[u].val.tail = 0 /\ reg'[u].val.pending = 0
    BY <1>1, <1>2, <1>3 DEF QWord
<1> QED
    BY Zenon, <1>2, <1>4, <1>5 DEF QWord

\* A step that gives the lock up.
LEMMA WordGiven ==
    ASSUME QTypeOK, QWord, NEW t, NEW l, QMoves(t, l), pc[t] \in Holding, l \in {"lock", "done"},
           lock'.locked = 0, lock'.pending = lock.pending, reg' = reg,
           \A u \in inside' : pc'[u] = "cs"
    PROVE  QWord'
<1>1. pc'[t] = l /\ t \in THREADS /\ \A u \in THREADS : u # t => pc'[u] = pc[u]
    BY Zenon, QMoved DEF QMoves
<1>2. l \notin Holding /\ l \notin Pending /\ l \notin {"takeover", "claim", "setlocked", "pend"}
    BY DEF Holding, Pending
<1>3. \A u \in THREADS : pc'[u] \notin Holding
    BY Zenon, <1>1, <1>2 DEF QWord
<1>4. \A u \in THREADS : pc'[u] \in Pending \/ pc'[u] \in {"claim", "setlocked", "pend", "takeover"}
                            => u # t /\ pc'[u] = pc[u]
    BY Zenon, <1>1, <1>2
<1> QED
    BY <1>3, <1>4 DEF QWord

\* A step that changes at most registers, word and label of a thread that is
\* not queued, and keeps the tail.
LEMMA QspinOutside ==
    ASSUME QspinInv, NEW t, NEW l, QMoves(t, l), UNCHANGED node, lock' \in WordSet, lock'.tail = lock.tail,
           reg' \in [THREADS -> [val : WordSet, next : NodeIds \union {NULL}, old : Nat]],
           \A u \in THREADS : u # t => reg'[u] = reg[u],
           inside' \in SUBSET THREADS, pc[t] \notin InQueue, l \notin InQueue,
           pc[t] \in Counted <=> l \in Counted,
           l \in {"tryread", "trylock", "xchg"} => pc[t] \in {"tryread", "trylock", "xchg"}, QWord'
    PROVE  QspinInv'
<1>1. /\ pc'[t] = l /\ t \in THREADS /\ pc' \in [THREADS -> QLabels]
      /\ \A u \in THREADS : u # t => pc'[u] = pc[u]
    BY Zenon, QMoved DEF QspinInv, QMoves
<1>2. QTypeOK'
    BY Zenon, <1>1 DEF QspinInv, QTypeOK
<1>3. \A u \in THREADS : /\ pc'[u] \in Counted <=> pc[u] \in Counted
                         /\ pc'[u] \in {"tryread", "trylock", "xchg"} => pc[u] \in {"tryread", "trylock", "xchg"}
    BY Zenon, <1>1
<1>4. QNodes'
    BY Zenon, <1>3 DEF QspinInv, QNodes
<1>5. PICK q \in [Nat -> THREADS \union {NULL}], h \in Nat, e \in Nat :
            QInv(q, h, e, pc, lock.tail, NextOf, LockedOf, reg)
    BY Zenon DEF QspinInv, QTheQueue
<1>6. NextOf' = NextOf /\ LockedOf' = LockedOf
    BY DEF NextOf, LockedOf
<1>7. QInv(q, h, e, pc', lock.tail, NextOf', LockedOf', reg')
    <2>1. \A u \in THREADS : u # t => /\ pc'[u] = pc[u] /\ NextOf'[u] = NextOf[u]
                                      /\ LockedOf'[u] = LockedOf[u] /\ reg'[u] = reg[u]
        BY Zenon, <1>1, <1>6
    <2> QED
        BY SMTT(60), <1>1, <1>5, <2>1, QOutside
<1>8. QTheQueue'
    BY Zenon, <1>7 DEF QTheQueue
<1> QED
    BY Zenon, <1>2, <1>4, <1>8 DEF QspinInv

\* A step of the head of the queue that keeps it there and changes no node.
LEMMA QspinHead ==
    ASSUME QspinInv, NEW t, NEW l, QMoves(t, l), UNCHANGED node, lock' \in WordSet, lock'.tail = lock.tail,
           reg' \in [THREADS -> [val : WordSet, next : NodeIds \union {NULL}, old : Nat]],
           \A u \in THREADS : u # t => reg'[u] = reg[u],
           inside' \in SUBSET THREADS, l \in AtHead,
           pc[t] \in AtHead \/ (pc[t] = "mcs" /\ node[4 * t].locked = 1),
           l \in {"head", "claim", "setlocked", "next"} => reg'[t].next \in {NULL, node[4 * t].next},
           l = "pass" => reg'[t].next = node[4 * t].next /\ node[4 * t].next # NULL, QWord'
    PROVE  QspinInv'
<1>1. /\ pc'[t] = l /\ t \in THREADS /\ pc' \in [THREADS -> QLabels]
      /\ \A u \in THREADS : u # t => pc'[u] = pc[u]
    BY Zenon, QMoved DEF QspinInv, QMoves
<1>2. QTypeOK'
    BY Zenon, <1>1 DEF QspinInv, QTypeOK
<1>3. \A u \in THREADS : /\ pc'[u] \in Counted <=> pc[u] \in Counted
                         /\ pc'[u] \in {"tryread", "trylock", "xchg"} => pc[u] \in {"tryread", "trylock", "xchg"}
    <2>1. l \in Counted /\ pc[t] \in Counted /\ l \notin {"tryread", "trylock", "xchg"}
        BY DEF AtHead, Counted
    <2> QED
        BY Zenon, <1>1, <2>1
<1>4. QNodes'
    BY Zenon, <1>3 DEF QspinInv, QNodes
<1>5. PICK q \in [Nat -> THREADS \union {NULL}], h \in Nat, e \in Nat :
            QInv(q, h, e, pc, lock.tail, NextOf, LockedOf, reg)
    BY Zenon DEF QspinInv, QTheQueue
<1>6. NextOf' = NextOf /\ LockedOf' = LockedOf /\ NextOf[t] = node[4 * t].next /\ LockedOf[t] = node[4 * t].locked
    BY Zenon, <1>1 DEF NextOf, LockedOf
<1>7. QInv(q, h, e, pc', lock.tail, NextOf, LockedOf, reg')
    <2>1. /\ pc[t] \in AtHead \/ (pc[t] = "mcs" /\ LockedOf[t] = 1)
          /\ pc'[t] \in AtHead
          /\ pc'[t] \in {"head", "claim", "setlocked", "next"} => reg'[t].next \in {NULL, NextOf[t]}
          /\ pc'[t] = "pass" => reg'[t].next = NextOf[t] /\ NextOf[t] # NULL
          /\ \A u \in THREADS : u # t => pc'[u] = pc[u] /\ reg'[u] = reg[u]
        BY Zenon, <1>1, <1>6
    <2> QED
        BY SMTT(60), <1>1, <1>5, <2>1, QHeadMoves
<1>8. QTheQueue'
    BY Zenon, <1>6, <1>7 DEF QTheQueue
<1> QED
    BY Zenon, <1>2, <1>4, <1>8 DEF QspinInv

\* What the queue says of the word and of the threads.
LEMMA QspinFacts ==
    ASSUME QspinInv
    PROVE  /\ lock.tail = 0 => \A t \in THREADS : pc[t] \notin InQueue
           /\ \A t, u \in THREADS : pc[t] \in AtHead /\ pc[u] \in AtHead => t = u
           /\ lock.pending = 0 => \A t \in THREADS : pc[t] \notin Pending
           /\ lock.locked = 0 => \A t \in THREADS : pc[t] \notin Holding
<1>1. PICK q \in [Nat -> THREADS \union {NULL}], h \in Nat, e \in Nat :
            QInv(q, h, e, pc, lock.tail, NextOf, LockedOf, reg)
    BY Zenon DEF QspinInv, QTheQueue
<1>2. /\ lock.tail = 0 => \A t \in THREADS : pc[t] \notin InQueue
      /\ \A t, u \in THREADS : pc[t] \in AtHead /\ pc[u] \in AtHead => t = u
    BY <1>1, QueueFacts
<1>3. \A t \in THREADS : (pc[t] \in Pending => lock.pending = 1) /\ (pc[t] \in Holding => lock.locked = 1)
    BY Zenon DEF QspinInv, QWord
<1>4. /\ lock.pending = 0 => \A t \in THREADS : pc[t] \notin Pending
      /\ lock.locked = 0 => \A t \in THREADS : pc[t] \notin Holding
    BY <1>3
<1> QED
    BY Zenon, <1>2, <1>4

\* The head of the trylock loop.
LEMMA LookStep ==
    ASSUME QspinInv, NEW t \in THREADS, pc[t] \in {"lock", "handover", "pend"}, Look(t, lock),
           UNCHANGED <<lock, node>>
    PROVE  QspinInv'
<1>1. PICK l \in {"queue", "pend"} :
            /\ QMoves(t, l) /\ inside' = inside /\ reg' = [reg EXCEPT ![t] = [Cleared EXCEPT !.val = lock]]
            /\ l = "pend" => lock.tail = 0 /\ lock.pending = 0
    <2>1. CASE lock.tail # 0 \/ lock.pending # 0
        <3>1. QMoves(t, "queue") /\ inside' = inside /\ "queue" # "pend"
            BY <2>1 DEF Look, Goto, QMoves, QLabels
        <3> QED
            BY Zenon, <3>1 DEF Look, Reg
    <2>2. CASE ~(lock.tail # 0 \/ lock.pending # 0)
        <3>1. QMoves(t, "pend") /\ inside' = inside
            BY <2>2 DEF Look, Goto, QMoves, QLabels
        <3> QED
            BY Zenon, <2>2, <3>1 DEF Look, Reg
    <2> QED
        BY Zenon, <2>1, <2>2
<1>2. /\ reg' \in [THREADS -> [val : WordSet, next : NodeIds \union {NULL}, old : Nat]]
      /\ reg'[t].val = lock
      /\ \A u \in THREADS : u # t => reg'[u] = reg[u]
    BY <1>1 DEF Cleared, QspinInv, QTypeOK
<1>3. /\ l \notin Holding \union Pending \union InQueue \union Counted
      /\ l \notin {"takeover", "claim", "setlocked", "tryread", "trylock", "xchg"}
      /\ pc[t] \notin InQueue \union Counted /\ pc[t] # "cs"
    BY <1>1 DEF Holding, Pending, InQueue, Counted
<1>4. QTypeOK /\ QWord /\ pc'[t] = l /\ \A u \in THREADS : u # t => pc'[u] = pc[u]
    BY Zenon, <1>1, QMoved DEF QspinInv
<1>5. \A u \in inside' : pc'[u] = "cs"
    <2>1. \A u \in inside : pc[u] = "cs" /\ u \in THREADS /\ u # t
        BY Zenon, <1>3, <1>4 DEF QWord, QTypeOK
    <2> QED
        BY Zenon, <1>1, <1>4, <2>1
<1>6. QWord'
    <2>1. lock' = lock
        OBVIOUS
    <2>2. l \notin Holding /\ l \notin Pending /\ l # "takeover" /\ l \notin {"claim", "setlocked"} /\ l # "claim"
        BY <1>3
    <2>3. l = "pend" => reg'[t].val.tail = 0 /\ reg'[t].val.pending = 0
        BY Zenon, <1>1, <1>2
    <2> QED
        BY <1>1, <1>2, <1>4, <1>5, <2>1, <2>2, <2>3, WordKept
<1>7. inside' \in SUBSET THREADS /\ lock' \in WordSet
    BY Zenon, <1>1 DEF QspinInv, QTypeOK
<1> QED
    BY <1>1, <1>2, <1>3, <1>6, <1>7, QspinOutside

\* inside follows the label "cs".
LEMMA InsideOK ==
    ASSUME QspinInv, NEW t, NEW l, QMoves(t, l),
           \/ inside' = inside /\ pc[t] # "cs"
           \/ inside' = inside \union {t} /\ l = "cs"
           \/ inside' = inside \ {t}
    PROVE  inside' \in SUBSET THREADS /\ \A u \in inside' : pc'[u] = "cs"
<1>1. /\ pc'[t] = l /\ t \in THREADS /\ inside \in SUBSET THREADS
      /\ \A u \in THREADS : u # t => pc'[u] = pc[u]
      /\ \A u \in inside : pc[u] = "cs"
    BY Zenon, QMoved DEF QspinInv, QWord, QTypeOK, QMoves
<1> QED
    BY Zenon, <1>1

\* A thread that takes the free word with one compare-and-swap.
LEMMA TakeStep ==
    ASSUME QspinInv, NEW t \in THREADS, lock = Free, lock' = _Q_LOCKED_VAL, UNCHANGED node,
           reg' \in [THREADS -> [val : WordSet, next : NodeIds \union {NULL}, old : Nat]],
           \A u \in THREADS : u # t => reg'[u] = reg[u],
           \/ pc[t] \in {"lock", "pend"} /\ Enter(t)
           \/ pc[t] = "trylock" /\ Goto(t, "release")
    PROVE  QspinInv'
<1>1. PICK l \in {"cs", "release"} :
            /\ QMoves(t, l)
            /\ l = "cs" => pc[t] \in {"lock", "pend"} /\ inside' = inside \union {t}
            /\ l = "release" => pc[t] = "trylock" /\ inside' = inside
    <2>1. CASE pc[t] \in {"lock", "pend"} /\ Enter(t)
        <3>1. QMoves(t, "cs") /\ inside' = inside \union {t} /\ "cs" # "release"
            BY <2>1 DEF Enter, QMoves, QLabels, Holding
        <3> QED
            BY Zenon, <2>1, <3>1
    <2>2. CASE pc[t] = "trylock" /\ Goto(t, "release")
        <3>1. QMoves(t, "release") /\ inside' = inside /\ "cs" # "release"
            BY <2>2 DEF Goto, QMoves, QLabels, Holding
        <3> QED
            BY Zenon, <2>2, <3>1
    <2> QED
        BY Zenon, <2>1, <2>2
<1>2. /\ lock.locked = 0 /\ lock.pending = 0 /\ lock.tail = 0
      /\ lock'.locked = 1 /\ lock'.pending = 0 /\ lock'.tail = 0 /\ lock' \in WordSet
    BY DEF Free, _Q_LOCKED_VAL, Word, WordSet
<1>3. inside' \in SUBSET THREADS /\ \A u \in inside' : pc'[u] = "cs"
    <2>1. pc[t] = "trylock" => pc[t] # "cs"
        BY Zenon
    <2> QED
        BY <1>1, <2>1, InsideOK
<1>4. \A u \in THREADS : pc[u] \notin Pending /\ pc[u] \notin {"claim", "setlocked"}
    <2>1. \A u \in THREADS : pc[u] \notin Pending /\ pc[u] \notin InQueue
        BY Zenon, <1>2, QspinFacts
    <2> QED
        BY <2>1 DEF InQueue
<1>5. QTypeOK /\ QWord
    BY Zenon DEF QspinInv
<1>6. QWord'
    <2>1. l \in Holding /\ \A u \in THREADS : u # t => pc[u] \notin Pending \union {"claim", "setlocked"}
        BY <1>1, <1>4 DEF Holding
    <2> QED
        BY <1>1, <1>2, <1>3, <1>5, <2>1, WordTaken
<1>7. /\ l \notin InQueue /\ pc[t] \notin InQueue /\ (pc[t] \in Counted <=> l \in Counted)
      /\ l \notin {"tryread", "trylock", "xchg"}
    BY <1>1 DEF Counted, InQueue
<1>8. lock'.tail = lock.tail
    BY Zenon, <1>2
<1> QED
    BY <1>1, <1>2, <1>3, <1>6, <1>7, <1>8, QspinOutside

\* The fast path of queued_spin_lock.
LEMMA AcquireStep ==
    ASSUME QspinInv, NEW t \in THREADS, lock_acquire(t)
    PROVE  QspinInv'
<1>1. reg \in [THREADS -> [val : WordSet, next : NodeIds \union {NULL}, old : Nat]]
    BY Zenon DEF QspinInv, QTypeOK
<1>2. CASE lock = Free
    BY <1>1, <1>2, TakeStep DEF lock_acquire, Cmpxchg
<1>3. CASE lock # Free /\ lock = _Q_PENDING_VAL
    <2>1. UNCHANGED <<lock, node, reg>> /\ QMoves(t, "handover") /\ inside' = inside /\ pc[t] = "lock"
        BY <1>3 DEF lock_acquire, Cmpxchg, Goto, QMoves, QLabels
    <2>2. inside' \in SUBSET THREADS /\ \A u \in inside' : pc'[u] = "cs"
        BY <2>1, InsideOK
    <2>3. QTypeOK /\ QWord /\ lock' \in WordSet /\ lock'.tail = lock.tail
        BY Zenon, <2>1 DEF QspinInv, QTypeOK
    <2>4. QWord'
        BY <2>1, <2>2, <2>3, WordKept DEF Holding, Pending
    <2> QED
        BY <1>1, <2>1, <2>2, <2>3, <2>4, QspinOutside DEF Counted, InQueue
<1>4. CASE lock # Free /\ lock # _Q_PENDING_VAL
    <2>1. UNCHANGED <<lock, node>> /\ Look(t, lock) /\ pc[t] = "lock"
        BY Zenon, <1>4 DEF lock_acquire, Cmpxchg
    <2> QED
        BY Zenon, <2>1, LookStep
<1> QED
    BY Zenon, <1>2, <1>3, <1>4

\* The pending path: wait for a hand-over, take the lock or the pending bit,
\* wait for the owner.
LEMMA PendingStep ==
    ASSUME QspinInv, NEW t \in THREADS, pending_path(t)
    PROVE  QspinInv'
<1>1. /\ reg \in [THREADS -> [val : WordSet, next : NodeIds \union {NULL}, old : Nat]]
      /\ UNCHANGED node /\ QTypeOK /\ QWord
    BY Zenon DEF QspinInv, QTypeOK, pending_path
<1>2. CASE pc[t] = "handover"
    <2>1. Look(t, lock) /\ UNCHANGED lock
        BY <1>2 DEF pending_path
    <2> QED
        BY Zenon, <1>1, <1>2, <2>1, LookStep
<1>3. CASE pc[t] = "pend" /\ lock # reg[t].val
    <2>1. Look(t, lock) /\ UNCHANGED lock
        BY <1>3 DEF pending_path, Cmpxchg
    <2> QED
        BY Zenon, <1>1, <1>3, <2>1, LookStep
<1>4. CASE pc[t] = "pend" /\ lock = reg[t].val
    <2>1. /\ lock' = Word(0, IF lock = _Q_LOCKED_VAL THEN 1 ELSE 0, 1)
          /\ Forget(t) /\ (IF lock = Free THEN Enter(t) ELSE Goto(t, "owner"))
        BY <1>4 DEF pending_path, Cmpxchg
    <2>2. /\ reg' \in [THREADS -> [val : WordSet, next : NodeIds \union {NULL}, old : Nat]]
          /\ \A u \in THREADS : u # t => reg'[u] = reg[u]
        BY <1>1, <2>1 DEF Forget, Reg, Cleared, Free, Word, WordSet
    <2>3. CASE lock = Free
        <3>1. lock' = _Q_LOCKED_VAL
            BY <2>1, <2>3 DEF Free, Word, _Q_LOCKED_VAL
        <3> QED
            BY <1>1, <1>4, <2>1, <2>2, <2>3, <3>1, TakeStep
    <2>4. CASE lock # Free
        <3>1. QMoves(t, "owner") /\ inside' = inside
            BY <2>1, <2>4 DEF Goto, QMoves, QLabels, Pending
        <3>2. reg[t].val.tail = 0 /\ reg[t].val.pending = 0
            BY Zenon, <1>1, <1>4 DEF QWord
        <3>3. /\ lock = _Q_LOCKED_VAL /\ lock.tail = 0 /\ lock.pending = 0 /\ lock.locked = 1
              /\ lock'.tail = 0 /\ lock'.pending = 1 /\ lock'.locked = 1 /\ lock' \in WordSet
            <4>1. lock.tail = 0 /\ lock.pending = 0 /\ lock \in WordSet
                BY Zenon, <1>1, <1>4, <3>2 DEF QTypeOK
            <4>2. lock = _Q_LOCKED_VAL
                BY <2>4, <4>1 DEF WordSet, Free, Word, _Q_LOCKED_VAL
            <4> QED
                BY <2>1, <4>1, <4>2 DEF WordSet, Word, _Q_LOCKED_VAL
        <3>4. inside' \in SUBSET THREADS /\ \A u \in inside' : pc'[u] = "cs"
            BY <1>4, <3>1, InsideOK
        <3>5. \A u \in THREADS : pc[u] \notin {"claim", "setlocked"}
            <4>1. \A u \in THREADS : pc[u] \notin InQueue
                BY Zenon, <3>3, QspinFacts
            <4> QED
                BY <4>1 DEF InQueue
        <3>6. lock'.locked = lock.locked /\ lock'.tail = lock.tail
            BY Zenon, <3>3
        <3>7. QWord'
            BY <1>1, <2>2, <3>1, <3>3, <3>4, <3>5, <3>6, WordPending
        <3> QED
            BY <1>1, <1>4, <2>2, <3>1, <3>3, <3>4, <3>6, <3>7, QspinOutside DEF Counted, InQueue
    <2> QED
        BY Zenon, <2>3, <2>4
<1>5. CASE pc[t] = "owner"
    <2>1. UNCHANGED <<lock, reg>> /\ QMoves(t, "takeover") /\ inside' = inside /\ lock.locked = 0
        BY <1>5 DEF pending_path, Goto, QMoves, QLabels, Pending
    <2>2. inside' \in SUBSET THREADS /\ \A u \in inside' : pc'[u] = "cs"
        BY <1>5, <2>1, InsideOK
    <2>3. lock' \in WordSet /\ lock'.tail = lock.tail
        BY Zenon, <1>1, <2>1 DEF QTypeOK
    <2>4. QWord'
        BY <1>1, <1>5, <2>1, <2>2, <2>3, WordKept DEF Holding, Pending
    <2> QED
        BY <1>1, <1>5, <2>1, <2>2, <2>3, <2>4, QspinOutside DEF Counted, InQueue
<1> QED
    BY <1>2, <1>3, <1>4, <1>5 DEF pending_path

\* A thread with a node in use uses its first one.
LEMMA FirstNode ==
    ASSUME QspinInv, NEW t \in THREADS, pc[t] \in Counted
    PROVE  /\ MyNode(t) = 4 * t /\ MyTail(t) = TailOf(t) /\ 4 * t \in NodeIds
           /\ NextOf[t] = node[4 * t].next /\ LockedOf[t] = node[4 * t].locked
<1>1. node[4 * t].count = 1
    BY Zenon DEF QspinInv, QNodes
<1>2. t \in Nat /\ 4 * t \in NodeIds
    BY Zenon, QNumbers
<1>3. MyNode(t) = 4 * t /\ MyTail(t) = TailOf(t)
    BY <1>1, <1>2 DEF MyNode, MyTail, Idx, encode_tail, TailOf
<1> QED
    BY Zenon, <1>2, <1>3 DEF NextOf, LockedOf

\* clear_pending_set_locked: the pending thread becomes the owner.
LEMMA TakeoverStep ==
    ASSUME QspinInv, NEW t \in THREADS, clear_pending_set_locked(t)
    PROVE  QspinInv'
<1>1. /\ UNCHANGED <<node, reg>> /\ QMoves(t, "cs") /\ pc[t] = "takeover"
      /\ inside' = inside \union {t} /\ lock' = [lock EXCEPT !.pending = 0, !.locked = 1]
    BY DEF clear_pending_set_locked, Enter, QMoves, QLabels, Holding
<1>2. QTypeOK /\ QWord /\ lock \in WordSet
      /\ reg \in [THREADS -> [val : WordSet, next : NodeIds \union {NULL}, old : Nat]]
    BY Zenon DEF QspinInv, QTypeOK
<1>3. lock' \in WordSet /\ lock'.tail = lock.tail /\ lock'.locked = 1
    BY <1>1, <1>2 DEF WordSet
<1>4. inside' \in SUBSET THREADS /\ \A u \in inside' : pc'[u] = "cs"
    BY <1>1, InsideOK
<1>5. lock.locked = 0 /\ lock.pending = 1 /\ "takeover" \in Pending
    BY <1>1, <1>2 DEF QWord, Pending
<1>6. \A u \in THREADS : u # t => pc[u] \notin Pending \union {"claim", "setlocked"}
    <2>1. /\ \A u \in THREADS : pc[u] \in Pending => u = t
          /\ \A u \in THREADS : pc[u] \in {"claim", "setlocked"} => lock.pending = 0
        BY Zenon, <1>1, <1>2, <1>5 DEF QWord
    <2> QED
        BY <1>5, <2>1
<1>7. QWord'
    BY <1>1, <1>2, <1>3, <1>4, <1>5, <1>6, WordTaken DEF Holding
<1> QED
    BY <1>1, <1>2, <1>3, <1>4, <1>7, QspinOutside DEF Counted, InQueue

\* A thread counts itself in and prepares its first node.
LEMMA QueueInitStep ==
    ASSUME QspinInv, NEW t \in THREADS, queue_init(t)
    PROVE  QspinInv'
<1>1. /\ UNCHANGED lock /\ QMoves(t, "tryread") /\ pc[t] = "queue" /\ inside' = inside /\ Forget(t)
    BY DEF queue_init, Goto, QMoves, QLabels, Counted
<1>2. /\ QTypeOK /\ QWord /\ lock \in WordSet /\ node \in [NodeIds -> NodeSet]
      /\ reg \in [THREADS -> [val : WordSet, next : NodeIds \union {NULL}, old : Nat]]
    BY Zenon DEF QspinInv, QTypeOK
<1>3. t \in Nat /\ 4 * t \in NodeIds /\ node[4 * t].count = 0
    <2>1. pc[t] \notin Counted
        BY <1>1 DEF Counted
    <2> QED
        BY Zenon, <2>1, QNumbers DEF QspinInv, QNodes
<1>4. /\ node' = [node EXCEPT ![4 * t].count = @ + 1, ![4 * t].locked = 0, ![4 * t].next = NULL]
    <2>1. 4 * t + node[4 * t].count = 4 * t
        BY <1>3
    <2> QED
        BY Zenon, <2>1 DEF queue_init
<1>5. /\ node' \in [NodeIds -> NodeSet]
      /\ node'[4 * t].count = 1 /\ node'[4 * t].locked = 0 /\ node'[4 * t].next = NULL
      /\ \A i \in NodeIds : i # 4 * t => node'[i] = node[i]
    BY <1>2, <1>3, <1>4 DEF NodeSet
<1>6. /\ reg' \in [THREADS -> [val : WordSet, next : NodeIds \union {NULL}, old : Nat]]
      /\ \A u \in THREADS : u # t => reg'[u] = reg[u]
    BY <1>1, <1>2 DEF Forget, Reg, Cleared, Free, Word, WordSet
<1>7. inside' \in SUBSET THREADS /\ \A u \in inside' : pc'[u] = "cs"
    BY <1>1, InsideOK
<1>8. /\ pc'[t] = "tryread" /\ pc' \in [THREADS -> QLabels]
      /\ \A u \in THREADS : u # t => pc'[u] = pc[u]
    BY <1>1, <1>2, QMoved
<1>9. \A u \in THREADS : u # t => 4 * u # 4 * t /\ 4 * u \in NodeIds
    BY Zenon, QNumbers
<1>10. QTypeOK'
    BY Zenon, <1>1, <1>2, <1>5, <1>6, <1>7, <1>8 DEF QTypeOK
<1>11. QWord'
    BY <1>1, <1>2, <1>6, <1>7, WordKept DEF Holding, Pending
<1>12. QNodes'
    <2> SUFFICES ASSUME NEW u \in THREADS
                 PROVE  /\ node'[4 * u].count = IF pc'[u] \in Counted THEN 1 ELSE 0
                        /\ pc'[u] \in {"tryread", "trylock", "xchg"} =>
                               node'[4 * u].next = NULL /\ node'[4 * u].locked = 0
        BY Zenon DEF QNodes
    <2>1. CASE u = t
        BY <1>5, <1>8, <2>1 DEF Counted
    <2>2. CASE u # t
        BY Zenon, <1>5, <1>8, <1>9, <2>2 DEF QspinInv, QNodes
    <2> QED
        BY Zenon, <2>1, <2>2
<1>13. QTheQueue'
    <2>1. PICK q \in [Nat -> THREADS \union {NULL}], h \in Nat, e \in Nat :
                QInv(q, h, e, pc, lock.tail, NextOf, LockedOf, reg)
        BY Zenon DEF QspinInv, QTheQueue
    <2>2. \A u \in THREADS : u # t => /\ pc'[u] = pc[u] /\ NextOf'[u] = NextOf[u]
                                      /\ LockedOf'[u] = LockedOf[u] /\ reg'[u] = reg[u]
        BY Zenon, <1>5, <1>6, <1>8, <1>9 DEF NextOf, LockedOf
    <2>3. pc[t] \notin InQueue /\ pc'[t] \notin InQueue
        BY <1>1, <1>8 DEF InQueue
    <2>4. QInv(q, h, e, pc', lock.tail, NextOf', LockedOf', reg')
        BY <2>1, <2>2, <2>3, QOutside
    <2> QED
        BY Zenon, <1>1, <2>4 DEF QTheQueue
<1> QED
    BY Zenon, <1>10, <1>11, <1>12, <1>13 DEF QspinInv

\* The last try before queueing.
LEMMA TrylockStep ==
    ASSUME QspinInv, NEW t \in THREADS, queued_spin_trylock(t)
    PROVE  QspinInv'
<1>1. /\ QTypeOK /\ QWord /\ lock \in WordSet /\ UNCHANGED <<node, reg>>
      /\ reg \in [THREADS -> [val : WordSet, next : NodeIds \union {NULL}, old : Nat]]
    BY Zenon DEF QspinInv, QTypeOK, queued_spin_trylock
<1>2. CASE pc[t] = "trylock" /\ lock = Free
    BY <1>1, <1>2, TakeStep DEF queued_spin_trylock, Cmpxchg
<1>3. CASE ~(pc[t] = "trylock" /\ lock = Free)
    <2>1. PICK l \in {"trylock", "xchg"} : QMoves(t, l) /\ inside' = inside /\ lock' = lock
        <3>1. /\ inside' = inside /\ lock' = lock
              /\ pc' = [pc EXCEPT ![t] = "trylock"] \/ pc' = [pc EXCEPT ![t] = "xchg"]
            BY <1>3 DEF queued_spin_trylock, Cmpxchg, Goto
        <3>2. "trylock" \in QLabels /\ "xchg" \in QLabels
            BY DEF QLabels, Counted
        <3> QED
            BY Zenon, <3>1, <3>2 DEF QMoves
    <2>2. pc[t] \in {"tryread", "trylock"}
        BY Zenon DEF queued_spin_trylock
    <2>3. inside' \in SUBSET THREADS /\ \A u \in inside' : pc'[u] = "cs"
        BY <2>1, <2>2, InsideOK
    <2>4. QWord'
        BY <1>1, <2>1, <2>3, WordKept DEF Holding, Pending
    <2>5. /\ l \notin InQueue /\ pc[t] \notin InQueue /\ l \in Counted /\ pc[t] \in Counted
        BY <2>1, <2>2 DEF InQueue, Counted
    <2> QED
        BY <1>1, <2>1, <2>2, <2>3, <2>4, <2>5, QspinOutside
<1> QED
    BY Zenon, <1>2, <1>3

\* xchg_tail puts the thread at the end of the queue.
LEMMA XchgStep ==
    ASSUME QspinInv, NEW t \in THREADS, xchg_tail(t)
    PROVE  QspinInv'
<1>1. pc[t] = "xchg" /\ pc[t] \in Counted /\ UNCHANGED node
    BY DEF xchg_tail, Counted
<1>2. /\ QTypeOK /\ QWord /\ lock \in WordSet /\ node \in [NodeIds -> NodeSet]
      /\ reg \in [THREADS -> [val : WordSet, next : NodeIds \union {NULL}, old : Nat]]
    BY Zenon DEF QspinInv, QTypeOK
<1>3. MyTail(t) = TailOf(t) /\ TailOf(t) \in Nat
    BY Zenon, <1>1, FirstNode, QNumbers
<1>4. /\ lock' \in WordSet /\ lock'.tail = TailOf(t) /\ lock'.pending = lock.pending
      /\ lock'.locked = lock.locked
    BY <1>2, <1>3 DEF xchg_tail, WordSet
<1>5. /\ reg' \in [THREADS -> [val : WordSet, next : NodeIds \union {NULL}, old : Nat]]
      /\ reg'[t].old = lock.tail /\ reg'[t].next = NULL
      /\ \A u \in THREADS : u # t => reg'[u] = reg[u]
    BY <1>2 DEF xchg_tail, Reg, Cleared, Free, Word, WordSet
<1>6. PICK l \in {"link", "head"} : QMoves(t, l) /\ inside' = inside /\ l = IF lock.tail # 0 THEN "link" ELSE "head"
    <2>1. "link" \in QLabels /\ "head" \in QLabels
        BY DEF QLabels, Counted
    <2>2. inside' = inside /\ pc' = [pc EXCEPT ![t] = IF lock.tail # 0 THEN "link" ELSE "head"]
        BY DEF xchg_tail, Goto
    <2> QED
        BY Zenon, <2>1, <2>2 DEF QMoves
<1>7. inside' \in SUBSET THREADS /\ \A u \in inside' : pc'[u] = "cs"
    BY <1>1, <1>6, InsideOK
<1>8. /\ pc'[t] = l /\ pc' \in [THREADS -> QLabels]
      /\ \A u \in THREADS : u # t => pc'[u] = pc[u]
    BY <1>2, <1>6, QMoved
<1>9. QTypeOK'
    BY Zenon, <1>1, <1>2, <1>4, <1>5, <1>7, <1>8 DEF QTypeOK
<1>10. QWord'
    BY <1>2, <1>4, <1>5, <1>6, <1>7, WordKept DEF Holding, Pending
<1>11. QNodes'
    <2>1. \A u \in THREADS : /\ pc'[u] \in Counted <=> pc[u] \in Counted
                             /\ pc'[u] \in {"tryread", "trylock", "xchg"} => pc[u] \in {"tryread", "trylock", "xchg"}
        BY <1>1, <1>6, <1>8 DEF Counted
    <2> QED
        BY Zenon, <1>1, <2>1 DEF QspinInv, QNodes
<1>12. QTheQueue'
    <2>1. PICK q \in [Nat -> THREADS \union {NULL}], h \in Nat, e \in Nat :
                QInv(q, h, e, pc, lock.tail, NextOf, LockedOf, reg)
        BY Zenon DEF QspinInv, QTheQueue
    <2>2. node[4 * t].next = NULL /\ node[4 * t].locked = 0
        BY Zenon, <1>1 DEF QspinInv, QNodes
    <2>3. pc[t] \notin InQueue
        BY <1>1 DEF InQueue
    <2>4. NextOf[t] = NULL /\ LockedOf[t] = 0 /\ pc[t] \notin InQueue
        BY Zenon, <1>1, <2>2, <2>3, FirstNode
    <2>5. pc'[t] = IF lock.tail # 0 THEN "link" ELSE "head"
        BY Zenon, <1>6, <1>8
    <2>6. \A u \in THREADS : u # t => pc'[u] = pc[u] /\ reg'[u] = reg[u]
        BY Zenon, <1>5, <1>8
    <2>7. PICK r \in [Nat -> THREADS \union {NULL}], k \in Nat :
                QInv(r, h, k, pc', TailOf(t), NextOf, LockedOf, reg')
        <3>1. QArrives(t, lock.tail, NextOf, LockedOf, pc, reg, pc', reg')
            BY Zenon, <1>5, <2>4, <2>5, <2>6 DEF QArrives
        <3> QED
            BY <2>1, <3>1, QPush
    <2>8. NextOf' = NextOf /\ LockedOf' = LockedOf
        BY Zenon, <1>1 DEF NextOf, LockedOf
    <2> QED
        BY Zenon, <1>4, <2>7, <2>8 DEF QTheQueue
<1> QED
    BY Zenon, <1>9, <1>10, <1>11, <1>12 DEF QspinInv

\* The previous tail of a thread about to link, and the successor of one about
\* to pass the head on, are threads of the queue.
LEMMA QNeighbours ==
    ASSUME NEW q, NEW h, NEW e, NEW p, NEW tail, NEW nx, NEW lk, NEW rg,
           QInv(q, h, e, p, tail, nx, lk, rg), NEW t \in THREADS
    PROVE  /\ p[t] = "link" => \E s \in THREADS : rg[t].old = TailOf(s) /\ p[s] \in InQueue
           /\ p[t] = "pass" => \E s \in THREADS : rg[t].next = 4 * s
<1>1. /\ h \in Nat /\ e \in Nat /\ h <= e
      /\ \A i \in Nat : h <= i /\ i < e => q[i] \in THREADS /\ p[q[i]] \in InQueue
      /\ p[t] \in InQueue => \E i \in Nat : h <= i /\ i < e /\ q[i] = t
      /\ h < e => nx[q[e - 1]] = NULL
    BY Zenon DEF QInv, QQueued
<1>2. ASSUME p[t] = "link"
      PROVE  \E s \in THREADS : rg[t].old = TailOf(s) /\ p[s] \in InQueue
    <2>1. PICK i \in Nat : h <= i /\ i < e /\ q[i] = t
        BY <1>1, <1>2 DEF InQueue
    <2>2. i # h
        <3>1. h < e => p[q[h]] # "link"
            BY Zenon DEF QInv, QFirst
        <3> QED
            BY <1>1, <1>2, <2>1, <3>1
    <2>3. h < i /\ i - 1 \in Nat /\ h <= i - 1 /\ i - 1 < e
        BY <1>1, <2>1, <2>2
    <2>4. rg[t].old = TailOf(q[i - 1])
        BY Zenon, <1>2, <2>1, <2>3 DEF QInv, QOthers
    <2> QED
        BY Zenon, <1>1, <2>3, <2>4
<1>3. ASSUME p[t] = "pass"
      PROVE  \E s \in THREADS : rg[t].next = 4 * s
    <2>1. t = q[h] /\ h < e
        <3>1. \A u \in THREADS : p[u] \in AtHead \/ (p[u] = "mcs" /\ lk[u] = 1) => u = q[h] /\ h < e
            BY QueueFacts
        <3> QED
            BY <1>3, <3>1 DEF AtHead
    <2>2. rg[t].next = nx[t] /\ nx[t] # NULL
        BY Zenon, <1>3, <2>1 DEF QInv, QFirst
    <2>3. h # e - 1
        BY Zenon, <1>1, <2>1, <2>2
    <2>4. h + 1 \in Nat /\ h < h + 1 /\ h <= h + 1 /\ h + 1 < e /\ (h + 1) - 1 = h
        BY <1>1, <2>1, <2>3
    <2>5. /\ p[q[h + 1]] \in {"link", "mcs"}
          /\ p[q[h + 1]] = "link" => nx[q[(h + 1) - 1]] = NULL
          /\ p[q[h + 1]] = "mcs" => nx[q[(h + 1) - 1]] = 4 * q[h + 1]
        BY Zenon, <2>4 DEF QInv, QOthers
    <2>6. nx[t] = 4 * q[h + 1]
        BY <2>1, <2>2, <2>4, <2>5
    <2> QED
        BY Zenon, <1>1, <2>2, <2>4, <2>6
<1> QED
    BY Zenon, <1>2, <1>3

\* mcs_wait, the store into the previous node.
LEMMA StoreLinkStep ==
    ASSUME QspinInv, NEW t \in THREADS, mcs_wait(t), pc[t] = "link"
    PROVE  QspinInv'
<1>1. /\ UNCHANGED lock /\ QMoves(t, "mcs") /\ inside' = inside /\ Forget(t) /\ pc[t] \in Counted
      /\ node' = [node EXCEPT ![decode_tail(reg[t].old)].next = MyNode(t)]
    BY DEF mcs_wait, Goto, QMoves, QLabels, Counted
<1>2. /\ QTypeOK /\ QWord /\ lock \in WordSet /\ node \in [NodeIds -> NodeSet]
      /\ reg \in [THREADS -> [val : WordSet, next : NodeIds \union {NULL}, old : Nat]]
    BY Zenon DEF QspinInv, QTypeOK
<1>3. PICK q \in [Nat -> THREADS \union {NULL}], h \in Nat, e \in Nat :
            QInv(q, h, e, pc, lock.tail, NextOf, LockedOf, reg)
    BY Zenon DEF QspinInv, QTheQueue
<1>4. PICK s \in THREADS : reg[t].old = TailOf(s) /\ pc[s] \in InQueue
    BY <1>3, QNeighbours
<1>5. decode_tail(reg[t].old) = 4 * s /\ MyNode(t) = 4 * t
    <2>1. s \in Nat
        BY Zenon, QNumbers
    <2>2. decode_tail(reg[t].old) = 4 * s
        BY <1>4, <2>1 DEF decode_tail, TailOf
    <2> QED
        BY Zenon, <1>1, <2>2, FirstNode
<1>6. 4 * t \in NodeIds /\ 4 * s \in NodeIds /\ \A u \in THREADS : 4 * u \in NodeIds /\ (u # s => 4 * u # 4 * s)
    BY Zenon, QNumbers
<1>7. /\ node' \in [NodeIds -> NodeSet] /\ node'[4 * s].next = 4 * t
      /\ node'[4 * s].locked = node[4 * s].locked /\ node'[4 * s].count = node[4 * s].count
      /\ \A i \in NodeIds : i # 4 * s => node'[i] = node[i]
    BY <1>1, <1>2, <1>5, <1>6 DEF NodeSet
<1>8. /\ reg' \in [THREADS -> [val : WordSet, next : NodeIds \union {NULL}, old : Nat]]
      /\ \A u \in THREADS : u # t => reg'[u] = reg[u]
    BY <1>1, <1>2 DEF Forget, Reg, Cleared, Free, Word, WordSet
<1>9. inside' \in SUBSET THREADS /\ \A u \in inside' : pc'[u] = "cs"
    BY <1>1, InsideOK
<1>10. /\ pc'[t] = "mcs" /\ pc' \in [THREADS -> QLabels]
       /\ \A u \in THREADS : u # t => pc'[u] = pc[u]
    BY <1>1, <1>2, QMoved
<1>11. QTypeOK'
    BY Zenon, <1>1, <1>2, <1>7, <1>8, <1>9, <1>10 DEF QTypeOK
<1>12. QWord'
    BY <1>1, <1>2, <1>8, <1>9, WordKept DEF Holding, Pending
<1>13. QNodes'
    <2> SUFFICES ASSUME NEW u \in THREADS
                 PROVE  /\ node'[4 * u].count = IF pc'[u] \in Counted THEN 1 ELSE 0
                        /\ pc'[u] \in {"tryread", "trylock", "xchg"} =>
                               node'[4 * u].next = NULL /\ node'[4 * u].locked = 0
        BY Zenon DEF QNodes
    <2>1. /\ pc'[u] \in Counted <=> pc[u] \in Counted
          /\ pc'[u] \in {"tryread", "trylock", "xchg"} => pc[u] \in {"tryread", "trylock", "xchg"} /\ u # s
        BY <1>1, <1>4, <1>10 DEF Counted, InQueue
    <2>2. node'[4 * u].count = node[4 * u].count /\ (u # s => node'[4 * u] = node[4 * u])
        BY Zenon, <1>6, <1>7
    <2> QED
        BY Zenon, <2>1, <2>2 DEF QspinInv, QNodes
<1>14. QTheQueue'
    <2>1. \A u \in THREADS : NextOf'[u] = node'[4 * u].next /\ NextOf[u] = node[4 * u].next
        BY Zenon DEF NextOf
    <2>2. /\ NextOf'[s] = 4 * t /\ \A u \in THREADS : u # s => NextOf'[u] = NextOf[u]
        BY Zenon, <1>6, <1>7, <2>1
    <2>3. LockedOf' = LockedOf
        <3>1. \A u \in THREADS : node'[4 * u].locked = node[4 * u].locked
            BY Zenon, <1>6, <1>7
        <3> QED
            BY <3>1 DEF LockedOf
    <2>4. \A u \in THREADS : u # t => pc'[u] = pc[u] /\ reg'[u] = reg[u]
        BY Zenon, <1>8, <1>10
    <2>5. QLinks(t, s, pc, NextOf, reg, pc', NextOf', reg')
        BY Zenon, <1>4, <1>10, <2>2, <2>4 DEF QLinks
    <2>6. QInv(q, h, e, pc', lock.tail, NextOf', LockedOf, reg')
        BY <1>3, <2>5, QLink
    <2> QED
        BY Zenon, <1>1, <2>3, <2>6 DEF QTheQueue
<1> QED
    BY Zenon, <1>11, <1>12, <1>13, <1>14 DEF QspinInv

\* The wait in the queue, up to the read of the successor.
LEMMA McsStep ==
    ASSUME QspinInv, NEW t \in THREADS, mcs_wait(t)
    PROVE  QspinInv'
<1>1. /\ QTypeOK /\ QWord /\ lock \in WordSet /\ UNCHANGED lock /\ lock'.tail = lock.tail
      /\ reg \in [THREADS -> [val : WordSet, next : NodeIds \union {NULL}, old : Nat]]
      /\ node \in [NodeIds -> NodeSet]
    BY Zenon DEF QspinInv, QTypeOK, mcs_wait
<1>2. CASE pc[t] = "mcs"
    <2>1. /\ UNCHANGED <<node, reg>> /\ QMoves(t, "peek") /\ inside' = inside /\ pc[t] \in Counted
          /\ node[MyNode(t)].locked = 1
        BY <1>2 DEF mcs_wait, Goto, QMoves, QLabels, Counted
    <2>2. node[4 * t].locked = 1
        BY Zenon, <2>1, FirstNode
    <2>3. inside' \in SUBSET THREADS /\ \A u \in inside' : pc'[u] = "cs"
        BY <1>2, <2>1, InsideOK
    <2>4. QWord'
        BY <1>1, <2>1, <2>3, WordKept DEF Holding, Pending
    <2>5. "peek" \in AtHead /\ "peek" \notin {"head", "claim", "setlocked", "next"} /\ "peek" # "pass"
        BY DEF AtHead
    <2> QED
        BY <1>1, <1>2, <2>1, <2>2, <2>3, <2>4, <2>5, QspinHead
<1>3. CASE pc[t] = "peek"
    <2>1. /\ UNCHANGED node /\ QMoves(t, "head") /\ inside' = inside /\ pc[t] \in Counted
          /\ Reg(t, [Cleared EXCEPT !.next = node[MyNode(t)].next])
        BY <1>3 DEF mcs_wait, Goto, QMoves, QLabels, Counted
    <2>2. MyNode(t) = 4 * t /\ node[4 * t].next \in NodeIds \union {NULL}
        <3>1. 4 * t \in NodeIds /\ MyNode(t) = 4 * t
            BY Zenon, <2>1, FirstNode
        <3> QED
            BY <1>1, <3>1 DEF NodeSet
    <2>3. inside' \in SUBSET THREADS /\ \A u \in inside' : pc'[u] = "cs"
        BY <1>3, <2>1, InsideOK
    <2>4. /\ reg' \in [THREADS -> [val : WordSet, next : NodeIds \union {NULL}, old : Nat]]
          /\ reg'[t].next = node[4 * t].next
          /\ \A u \in THREADS : u # t => reg'[u] = reg[u]
        BY <1>1, <2>1, <2>2 DEF Reg, Cleared, Free, Word, WordSet
    <2>5. QWord'
        BY <1>1, <2>1, <2>3, <2>4, WordKept DEF Holding, Pending
    <2>6. "head" \in AtHead /\ pc[t] \in AtHead /\ "head" # "pass"
        BY <1>3 DEF AtHead
    <2> QED
        BY <1>1, <2>1, <2>3, <2>4, <2>5, <2>6, QspinHead
<1> QED
    BY <1>2, <1>3, StoreLinkStep DEF mcs_wait

\* What the head has read of its successor is still so.
LEMMA QspinKnown ==
    ASSUME QspinInv, NEW t \in THREADS
    PROVE  /\ pc[t] \in {"head", "claim", "setlocked", "next"} => reg[t].next \in {NULL, node[4 * t].next}
           /\ pc[t] = "pass" => reg[t].next = node[4 * t].next /\ node[4 * t].next # NULL
<1>1. PICK q \in [Nat -> THREADS \union {NULL}], h \in Nat, e \in Nat :
            QInv(q, h, e, pc, lock.tail, NextOf, LockedOf, reg)
    BY Zenon DEF QspinInv, QTheQueue
<1>2. \A u \in THREADS : pc[u] \in AtHead \/ (pc[u] = "mcs" /\ LockedOf[u] = 1) => u = q[h] /\ h < e
    BY <1>1, QueueFacts
<1>3. pc[t] \in {"head", "claim", "setlocked", "next", "pass"} => t = q[h] /\ h < e
    BY <1>2 DEF AtHead
<1>4. NextOf[t] = node[4 * t].next
    BY Zenon DEF NextOf
<1>5. h < e => /\ pc[q[h]] \in {"head", "claim", "setlocked", "next"} => reg[q[h]].next \in {NULL, NextOf[q[h]]}
               /\ pc[q[h]] = "pass" => reg[q[h]].next = NextOf[q[h]] /\ NextOf[q[h]] # NULL
    BY Zenon, <1>1 DEF QInv, QFirst
<1> QED
    BY Zenon, <1>3, <1>4, <1>5

\* The head has seen the word free of owner and pending.
LEMMA ClaimOn ==
    ASSUME QspinInv, NEW t \in THREADS, pc[t] \in {"head", "claim"}, Claim(t, lock),
           lock.locked = 0, lock.pending = 0, UNCHANGED <<lock, node>>
    PROVE  QspinInv'
<1>1. /\ QTypeOK /\ QWord /\ lock \in WordSet /\ lock' \in WordSet /\ lock'.tail = lock.tail
      /\ reg \in [THREADS -> [val : WordSet, next : NodeIds \union {NULL}, old : Nat]]
    BY Zenon DEF QspinInv, QTypeOK
<1>2. MyTail(t) = TailOf(t)
    <2>1. pc[t] \in Counted
        BY DEF Counted
    <2> QED
        BY Zenon, <2>1, FirstNode
<1>3. PICK l \in {"setlocked", "claim"} : QMoves(t, l) /\ inside' = inside /\ (l = "claim" => lock.tail = TailOf(t))
    <2>1. "setlocked" \in QLabels /\ "claim" \in QLabels /\ "setlocked" # "claim"
        BY DEF QLabels, Counted
    <2>2. inside' = inside /\ pc' = [pc EXCEPT ![t] = IF lock.tail # TailOf(t) THEN "setlocked" ELSE "claim"]
        BY <1>2 DEF Claim, Goto
    <2> QED
        BY Zenon, <2>1, <2>2 DEF QMoves
<1>4. /\ reg' \in [THREADS -> [val : WordSet, next : NodeIds \union {NULL}, old : Nat]]
      /\ reg'[t].val = lock /\ reg'[t].next = reg[t].next
      /\ \A u \in THREADS : u # t => reg'[u] = reg[u]
    BY <1>1 DEF Claim, Reg
<1>5. inside' \in SUBSET THREADS /\ \A u \in inside' : pc'[u] = "cs"
    BY <1>3, InsideOK
<1>6. QWord'
    <2>1. l \notin Holding /\ l \notin Pending /\ l # "takeover" /\ l # "pend"
        BY <1>3 DEF Holding, Pending
    <2> QED
        BY <1>1, <1>3, <1>4, <1>5, <2>1, WordKept
<1>7. reg'[t].next \in {NULL, node[4 * t].next}
    <2>1. pc[t] \in {"head", "claim", "setlocked", "next"}
        BY Zenon
    <2> QED
        BY Zenon, <1>4, <2>1, QspinKnown
<1>8. l \in AtHead /\ pc[t] \in AtHead /\ l # "pass"
    BY <1>3 DEF AtHead
<1> QED
    BY <1>1, <1>3, <1>4, <1>5, <1>6, <1>7, <1>8, QspinHead

\* The head takes the word, and empties the queue if it is the last.
LEMMA ClaimStep ==
    ASSUME QspinInv, NEW t \in THREADS, claim_lock(t)
    PROVE  QspinInv'
<1>1. /\ QTypeOK /\ QWord /\ lock \in WordSet /\ UNCHANGED node /\ node \in [NodeIds -> NodeSet]
      /\ reg \in [THREADS -> [val : WordSet, next : NodeIds \union {NULL}, old : Nat]]
    BY Zenon DEF QspinInv, QTypeOK, claim_lock
<1>2. CASE pc[t] = "head"
    <2>1. lock.locked = 0 /\ lock.pending = 0 /\ Claim(t, lock) /\ UNCHANGED lock
        BY <1>2 DEF claim_lock
    <2> QED
        BY Zenon, <1>1, <1>2, <2>1, ClaimOn
<1>3. CASE pc[t] = "claim" /\ lock # reg[t].val
    <2>1. Claim(t, lock) /\ UNCHANGED lock
        BY <1>3 DEF claim_lock, Cmpxchg
    <2>2. lock.locked = 0 /\ lock.pending = 0
        BY Zenon, <1>1, <1>3 DEF QWord
    <2> QED
        BY Zenon, <1>1, <1>3, <2>1, <2>2, ClaimOn
<1>4. CASE pc[t] = "claim" /\ lock = reg[t].val
    <2>1. /\ lock' = _Q_LOCKED_VAL /\ QMoves(t, "release") /\ inside' = inside /\ Forget(t)
        BY <1>4 DEF claim_lock, Cmpxchg, Goto, QMoves, QLabels, Counted
    <2>2. lock.locked = 0 /\ lock.pending = 0 /\ lock.tail = TailOf(t)
        BY Zenon, <1>1, <1>4 DEF QWord
    <2>3. lock' \in WordSet /\ lock'.tail = 0 /\ lock'.locked = 1
        BY <2>1 DEF _Q_LOCKED_VAL, Word, WordSet
    <2>4. /\ reg' \in [THREADS -> [val : WordSet, next : NodeIds \union {NULL}, old : Nat]]
          /\ \A u \in THREADS : u # t => reg'[u] = reg[u]
        BY <1>1, <2>1 DEF Forget, Reg, Cleared, Free, Word, WordSet
    <2>5. inside' \in SUBSET THREADS /\ \A u \in inside' : pc'[u] = "cs"
        BY <1>4, <2>1, InsideOK
    <2>6. /\ pc'[t] = "release" /\ pc' \in [THREADS -> QLabels]
          /\ \A u \in THREADS : u # t => pc'[u] = pc[u]
        BY <1>1, <2>1, QMoved
    <2>7. pc[t] \in AtHead /\ pc'[t] \notin InQueue /\ "release" \in Holding
        BY <1>4, <2>6 DEF AtHead, InQueue, Holding
    <2>8. \A u \in THREADS : u # t => pc[u] \notin Pending \union {"claim", "setlocked"}
        <3>1. \A u \in THREADS : pc[u] \notin Pending /\ (pc[u] \in AtHead => u = t)
            BY Zenon, <2>2, <2>7, QspinFacts
        <3> QED
            BY <3>1 DEF AtHead
    <2>9. QTypeOK'
        BY Zenon, <1>1, <2>3, <2>4, <2>5, <2>6 DEF QTypeOK
    <2>10. QWord'
        BY <1>1, <2>1, <2>2, <2>3, <2>4, <2>5, <2>7, <2>8, WordTaken
    <2>11. QNodes'
        <3>1. \A u \in THREADS : /\ pc'[u] \in Counted <=> pc[u] \in Counted
                                 /\ pc'[u] \in {"tryread", "trylock", "xchg"} => pc[u] \in {"tryread", "trylock", "xchg"}
            BY <1>4, <2>6 DEF Counted
        <3> QED
            BY Zenon, <1>1, <3>1 DEF QspinInv, QNodes
    <2>12. QTheQueue'
        <3>1. PICK q \in [Nat -> THREADS \union {NULL}], h \in Nat, e \in Nat :
                    QInv(q, h, e, pc, lock.tail, NextOf, LockedOf, reg)
            BY Zenon DEF QspinInv, QTheQueue
        <3>2. QInv(q, e, e, pc', 0, NextOf, LockedOf, reg')
            BY <2>2, <2>6, <2>7, <3>1, QEmpty
        <3>3. NextOf' = NextOf /\ LockedOf' = LockedOf
            BY Zenon, <1>1 DEF NextOf, LockedOf
        <3> QED
            BY Zenon, <2>3, <3>2, <3>3 DEF QTheQueue
    <2> QED
        BY Zenon, <2>9, <2>10, <2>11, <2>12 DEF QspinInv
<1> QED
    BY <1>2, <1>3, <1>4 DEF claim_lock

\* The head takes the word with others behind it.
LEMMA SetLockedStep ==
    ASSUME QspinInv, NEW t \in THREADS, set_locked(t)
    PROVE  QspinInv'
<1>1. /\ QTypeOK /\ QWord /\ lock \in WordSet /\ UNCHANGED node /\ pc[t] = "setlocked"
      /\ reg \in [THREADS -> [val : WordSet, next : NodeIds \union {NULL}, old : Nat]]
    BY Zenon DEF QspinInv, QTypeOK, set_locked
<1>2. lock' \in WordSet /\ lock'.tail = lock.tail /\ lock'.locked = 1
    BY <1>1 DEF set_locked, WordSet
<1>3. lock.locked = 0 /\ lock.pending = 0
    BY Zenon, <1>1 DEF QWord
<1>4. PICK l \in {"next", "pass"} : QMoves(t, l) /\ inside' = inside /\ (l = "pass" => reg[t].next # NULL)
    <2>1. "next" \in QLabels /\ "pass" \in QLabels /\ "next" # "pass"
        BY DEF QLabels, Counted
    <2>2. inside' = inside /\ pc' = [pc EXCEPT ![t] = IF reg[t].next = NULL THEN "next" ELSE "pass"]
        BY DEF set_locked, Goto
    <2> QED
        BY Zenon, <2>1, <2>2 DEF QMoves
<1>5. /\ reg' \in [THREADS -> [val : WordSet, next : NodeIds \union {NULL}, old : Nat]]
      /\ reg'[t].next = reg[t].next
      /\ \A u \in THREADS : u # t => reg'[u] = reg[u]
    BY <1>1 DEF set_locked, Reg, Cleared, Free, Word, WordSet
<1>6. inside' \in SUBSET THREADS /\ \A u \in inside' : pc'[u] = "cs"
    BY <1>1, <1>4, InsideOK
<1>7. pc[t] \in AtHead /\ l \in AtHead /\ l \in Holding
    BY <1>1, <1>4 DEF AtHead, Holding
<1>8. \A u \in THREADS : u # t => pc[u] \notin Pending \union {"claim", "setlocked"}
    <2>1. \A u \in THREADS : pc[u] \notin Pending /\ (pc[u] \in AtHead => u = t)
        BY Zenon, <1>3, <1>7, QspinFacts
    <2> QED
        BY <2>1 DEF AtHead
<1>9. QWord'
    BY <1>1, <1>2, <1>3, <1>4, <1>5, <1>6, <1>7, <1>8, WordTaken
<1>10. reg[t].next \in {NULL, node[4 * t].next}
    BY Zenon, <1>1, QspinKnown
<1>11. /\ reg'[t].next \in {NULL, node[4 * t].next}
       /\ l = "pass" => reg'[t].next = node[4 * t].next /\ node[4 * t].next # NULL
    BY <1>4, <1>5, <1>10
<1> QED
    BY <1>1, <1>2, <1>4, <1>5, <1>6, <1>7, <1>9, <1>11, QspinHead

\* pass_head, the store that makes the successor the head.
LEMMA PassOnStep ==
    ASSUME QspinInv, NEW t \in THREADS, pass_head(t), pc[t] = "pass"
    PROVE  QspinInv'
<1>1. /\ UNCHANGED lock /\ QMoves(t, "release") /\ inside' = inside /\ Forget(t)
      /\ node' = [node EXCEPT ![reg[t].next].locked = 1]
    BY DEF pass_head, Goto, QMoves, QLabels, Counted
<1>2. /\ QTypeOK /\ QWord /\ lock \in WordSet /\ node \in [NodeIds -> NodeSet]
      /\ reg \in [THREADS -> [val : WordSet, next : NodeIds \union {NULL}, old : Nat]]
    BY Zenon DEF QspinInv, QTypeOK
<1>3. PICK q \in [Nat -> THREADS \union {NULL}], h \in Nat, e \in Nat :
            QInv(q, h, e, pc, lock.tail, NextOf, LockedOf, reg)
    BY Zenon DEF QspinInv, QTheQueue
<1>4. PICK s \in THREADS : reg[t].next = 4 * s
    BY <1>3, QNeighbours
<1>5. 4 * s \in NodeIds /\ \A u \in THREADS : 4 * u \in NodeIds /\ (u # s => 4 * u # 4 * s)
    BY Zenon, QNumbers
<1>6. /\ node' \in [NodeIds -> NodeSet] /\ node'[4 * s].locked = 1
      /\ node'[4 * s].next = node[4 * s].next /\ node'[4 * s].count = node[4 * s].count
      /\ \A i \in NodeIds : i # 4 * s => node'[i] = node[i]
    BY <1>1, <1>2, <1>4, <1>5 DEF NodeSet
<1>7. /\ reg' \in [THREADS -> [val : WordSet, next : NodeIds \union {NULL}, old : Nat]]
      /\ \A u \in THREADS : u # t => reg'[u] = reg[u]
    BY <1>1, <1>2 DEF Forget, Reg, Cleared, Free, Word, WordSet
<1>8. inside' \in SUBSET THREADS /\ \A u \in inside' : pc'[u] = "cs"
    BY <1>1, InsideOK
<1>9. /\ pc'[t] = "release" /\ pc' \in [THREADS -> QLabels]
      /\ \A u \in THREADS : u # t => pc'[u] = pc[u]
    BY <1>1, <1>2, QMoved
<1>10. /\ LockedOf'[s] = 1 /\ \A u \in THREADS : u # s => LockedOf'[u] = LockedOf[u]
    BY Zenon, <1>5, <1>6 DEF LockedOf
<1>11. NextOf' = NextOf
    <2>1. \A u \in THREADS : node'[4 * u].next = node[4 * u].next
        BY Zenon, <1>5, <1>6
    <2> QED
        BY <2>1 DEF NextOf
<1>12. QInv(q, h + 1, e, pc', lock.tail, NextOf, LockedOf', reg') /\ pc[s] = "mcs"
    <2>1. pc'[t] \notin InQueue
        BY <1>9 DEF InQueue
    <2>2. \A u \in THREADS : u # t => pc'[u] = pc[u] /\ reg'[u] = reg[u]
        BY Zenon, <1>7, <1>9
    <2>3. QPasses(t, s, pc, LockedOf, reg, pc', LockedOf', reg')
        BY Zenon, <1>4, <1>10, <2>1, <2>2 DEF QPasses
    <2> QED
        BY <1>3, <2>3, QPass
<1>13. QTypeOK'
    BY Zenon, <1>1, <1>2, <1>6, <1>7, <1>8, <1>9 DEF QTypeOK
<1>14. QWord'
    BY <1>1, <1>2, <1>7, <1>8, WordKept DEF Holding, Pending
<1>15. QNodes'
    <2> SUFFICES ASSUME NEW u \in THREADS
                 PROVE  /\ node'[4 * u].count = IF pc'[u] \in Counted THEN 1 ELSE 0
                        /\ pc'[u] \in {"tryread", "trylock", "xchg"} =>
                               node'[4 * u].next = NULL /\ node'[4 * u].locked = 0
        BY Zenon DEF QNodes
    <2>1. /\ pc'[u] \in Counted <=> pc[u] \in Counted
          /\ pc'[u] \in {"tryread", "trylock", "xchg"} => pc[u] \in {"tryread", "trylock", "xchg"} /\ u # s
        BY <1>9, <1>12 DEF Counted
    <2>2. node'[4 * u].count = node[4 * u].count /\ (u # s => node'[4 * u] = node[4 * u])
        BY Zenon, <1>5, <1>6
    <2> QED
        BY Zenon, <2>1, <2>2 DEF QspinInv, QNodes
<1>16. QTheQueue'
    <2>1. h + 1 \in Nat
        BY <1>3
    <2> QED
        BY Zenon, <1>1, <1>11, <1>12, <2>1 DEF QTheQueue
<1> QED
    BY Zenon, <1>13, <1>14, <1>15, <1>16 DEF QspinInv

\* The owner waits for its successor to link itself and makes it the head.
LEMMA PassStep ==
    ASSUME QspinInv, NEW t \in THREADS, pass_head(t)
    PROVE  QspinInv'
<1>1. CASE pc[t] = "next"
    <2>1. /\ QTypeOK /\ QWord /\ lock \in WordSet /\ UNCHANGED lock /\ lock'.tail = lock.tail
          /\ reg \in [THREADS -> [val : WordSet, next : NodeIds \union {NULL}, old : Nat]]
          /\ node \in [NodeIds -> NodeSet]
        BY Zenon DEF QspinInv, QTypeOK, pass_head
    <2>2. /\ UNCHANGED node /\ QMoves(t, "pass") /\ inside' = inside /\ pc[t] \in Counted
          /\ Reg(t, [Cleared EXCEPT !.next = node[MyNode(t)].next]) /\ node[MyNode(t)].next # NULL
        BY <1>1 DEF pass_head, Goto, QMoves, QLabels, Counted
    <2>3. MyNode(t) = 4 * t /\ node[4 * t].next \in NodeIds \union {NULL}
        <3>1. 4 * t \in NodeIds /\ MyNode(t) = 4 * t
            BY Zenon, <2>2, FirstNode
        <3> QED
            BY <2>1, <3>1 DEF NodeSet
    <2>4. inside' \in SUBSET THREADS /\ \A u \in inside' : pc'[u] = "cs"
        BY <1>1, <2>2, InsideOK
    <2>5. /\ reg' \in [THREADS -> [val : WordSet, next : NodeIds \union {NULL}, old : Nat]]
          /\ reg'[t].next = node[4 * t].next /\ node[4 * t].next # NULL
          /\ \A u \in THREADS : u # t => reg'[u] = reg[u]
        BY <2>1, <2>2, <2>3 DEF Reg, Cleared, Free, Word, WordSet
    <2>6. QWord'
        BY <1>1, <2>1, <2>2, <2>4, <2>5, WordKept DEF Holding, Pending
    <2>7. "pass" \in AtHead /\ pc[t] \in AtHead /\ "pass" \notin {"head", "claim", "setlocked", "next"}
        BY <1>1 DEF AtHead
    <2> QED
        BY <2>1, <2>2, <2>4, <2>5, <2>6, <2>7, QspinHead
<1> QED
    BY <1>1, PassOnStep DEF pass_head

\* The owner gives its node back.
LEMMA ReleaseNodeStep ==
    ASSUME QspinInv, NEW t \in THREADS, release_node(t)
    PROVE  QspinInv'
<1>1. /\ UNCHANGED <<lock, reg>> /\ QMoves(t, "cs") /\ inside' = inside \union {t} /\ pc[t] = "release"
      /\ node' = [node EXCEPT ![4 * t].count = @ - 1]
    BY DEF release_node, Enter, QMoves, QLabels, Holding
<1>2. /\ QTypeOK /\ QWord /\ lock \in WordSet /\ node \in [NodeIds -> NodeSet]
    BY Zenon DEF QspinInv, QTypeOK
<1>3. 4 * t \in NodeIds /\ \A u \in THREADS : 4 * u \in NodeIds /\ (u # t => 4 * u # 4 * t)
    BY Zenon, QNumbers
<1>4. node[4 * t].count = 1
    <2>1. pc[t] \in Counted
        BY <1>1 DEF Counted
    <2> QED
        BY Zenon, <2>1 DEF QspinInv, QNodes
<1>5. /\ node' \in [NodeIds -> NodeSet] /\ node'[4 * t].count = 0
      /\ \A i \in NodeIds : i # 4 * t => node'[i] = node[i]
    BY <1>1, <1>2, <1>3, <1>4 DEF NodeSet
<1>6. inside' \in SUBSET THREADS /\ \A u \in inside' : pc'[u] = "cs"
    BY <1>1, InsideOK
<1>7. /\ pc'[t] = "cs" /\ pc' \in [THREADS -> QLabels]
      /\ \A u \in THREADS : u # t => pc'[u] = pc[u]
    BY <1>1, <1>2, QMoved
<1>8. QTypeOK'
    BY Zenon, <1>1, <1>2, <1>5, <1>6, <1>7 DEF QTypeOK
<1>9. QWord'
    BY <1>1, <1>2, <1>6, WordKept DEF Holding, Pending
<1>10. QNodes'
    <2> SUFFICES ASSUME NEW u \in THREADS
                 PROVE  /\ node'[4 * u].count = IF pc'[u] \in Counted THEN 1 ELSE 0
                        /\ pc'[u] \in {"tryread", "trylock", "xchg"} =>
                               node'[4 * u].next = NULL /\ node'[4 * u].locked = 0
        BY Zenon DEF QNodes
    <2>1. CASE u = t
        BY <1>5, <1>7, <2>1 DEF Counted
    <2>2. CASE u # t
        BY Zenon, <1>3, <1>5, <1>7, <2>2 DEF QspinInv, QNodes
    <2> QED
        BY Zenon, <2>1, <2>2
<1>11. QTheQueue'
    <2>1. PICK q \in [Nat -> THREADS \union {NULL}], h \in Nat, e \in Nat :
                QInv(q, h, e, pc, lock.tail, NextOf, LockedOf, reg)
        BY Zenon DEF QspinInv, QTheQueue
    <2>2. \A u \in THREADS : u # t => /\ pc'[u] = pc[u] /\ NextOf'[u] = NextOf[u]
                                      /\ LockedOf'[u] = LockedOf[u] /\ reg'[u] = reg[u]
        BY Zenon, <1>1, <1>3, <1>5, <1>7 DEF NextOf, LockedOf
    <2>3. pc[t] \notin InQueue /\ pc'[t] \notin InQueue
        BY <1>1, <1>7 DEF InQueue
    <2>4. QInv(q, h, e, pc', lock.tail, NextOf', LockedOf', reg')
        BY <2>1, <2>2, <2>3, QOutside
    <2> QED
        BY Zenon, <1>1, <2>4 DEF QTheQueue
<1> QED
    BY Zenon, <1>8, <1>9, <1>10, <1>11 DEF QspinInv

\* queued_spin_unlock, and the turn of the loop inside.
LEMMA UnlockStep ==
    ASSUME QspinInv, NEW t \in THREADS, lock_release(t) \/ measure_qspin(t)
    PROVE  QspinInv'
<1>1. /\ QTypeOK /\ QWord /\ lock \in WordSet /\ UNCHANGED <<node, reg>>
      /\ reg \in [THREADS -> [val : WordSet, next : NodeIds \union {NULL}, old : Nat]]
    BY Zenon DEF QspinInv, QTypeOK, lock_release, measure_qspin
<1>2. CASE lock_release(t)
    <2>1. PICK l \in {"lock", "done"} : QMoves(t, l) /\ inside' = inside /\ pc[t] = "unlock"
        <3>1. "lock" \in QLabels /\ "done" \in QLabels
            BY DEF QLabels
        <3>2. /\ inside' = inside /\ pc[t] = "unlock"
              /\ pc' = [pc EXCEPT ![t] = "lock"] \/ pc' = [pc EXCEPT ![t] = "done"]
            BY <1>2 DEF lock_release, Return, Goto
        <3> QED
            BY Zenon, <3>1, <3>2 DEF QMoves
    <2>2. lock' \in WordSet /\ lock'.tail = lock.tail /\ lock'.locked = 0 /\ lock'.pending = lock.pending
        BY <1>1, <1>2 DEF lock_release, WordSet
    <2>3. inside' \in SUBSET THREADS /\ \A u \in inside' : pc'[u] = "cs"
        BY <2>1, InsideOK
    <2>4. QWord'
        BY <1>1, <2>1, <2>2, <2>3, WordGiven DEF Holding
    <2>5. /\ l \notin InQueue /\ pc[t] \notin InQueue /\ l \notin Counted /\ pc[t] \notin Counted
          /\ l \notin {"tryread", "trylock", "xchg"}
        BY <2>1 DEF InQueue, Counted
    <2> QED
        BY <1>1, <2>1, <2>2, <2>3, <2>4, <2>5, QspinOutside
<1>3. CASE measure_qspin(t)
    <2>1. QMoves(t, "unlock") /\ inside' = inside \ {t} /\ pc[t] = "cs" /\ lock' = lock
        BY <1>3 DEF measure_qspin, Passage, QMoves, QLabels, Holding
    <2>2. inside' \in SUBSET THREADS /\ \A u \in inside' : pc'[u] = "cs"
        BY <2>1, InsideOK
    <2>3. QWord'
        BY <1>1, <2>1, <2>2, WordKept DEF Holding, Pending
    <2> QED
        BY <1>1, <2>1, <2>2, <2>3, QspinOutside DEF InQueue, Counted
<1> QED
    BY Zenon, <1>2, <1>3

-----------------------------------------------------------------------------
\* The invariant holds when the threads pass the barrier.
LEMMA QspinInit == Init => QspinInv
<1> SUFFICES ASSUME Init PROVE QspinInv
    OBVIOUS
<1>1. /\ pc = [t \in THREADS |-> "lock"] /\ inside = {} /\ lock = Free
      /\ node = [i \in NodeIds |-> [next |-> NULL, locked |-> 0, count |-> 0]]
      /\ reg = [t \in THREADS |-> Cleared]
    BY DEF Init, BenchInit, mcs_init_locks, NodeIds
<1>2. QTypeOK
    <2>1. pc \in [THREADS -> QLabels] /\ inside \in SUBSET THREADS
        BY <1>1 DEF QLabels
    <2>2. lock \in WordSet /\ Cleared \in [val : WordSet, next : NodeIds \union {NULL}, old : Nat]
        BY <1>1 DEF WordSet, Cleared, Free, Word
    <2>3. [next |-> NULL, locked |-> 0, count |-> 0] \in NodeSet
        BY DEF NodeSet
    <2> QED
        BY Zenon, <1>1, <2>1, <2>2, <2>3 DEF QTypeOK
<1>3. QWord
    BY <1>1 DEF QWord, Holding, Pending
<1>4. QNodes
    <2>1. \A t \in THREADS : 4 * t \in NodeIds
        BY Zenon, QNumbers
    <2> QED
        BY <1>1, <2>1 DEF QNodes, Counted
<1>5. QTheQueue
    <2>1. \A t \in THREADS : pc[t] \notin InQueue
        BY <1>1 DEF InQueue
    <2>2. lock.tail = 0
        BY <1>1 DEF Free, Word
    <2>3. PICK q \in [Nat -> THREADS \union {NULL}] : TRUE
        <3>1. [i \in Nat |-> NULL] \in [Nat -> THREADS \union {NULL}]
            OBVIOUS
        <3> QED
            BY Zenon, <3>1
    <2>4. QInv(q, 0, 0, pc, lock.tail, NextOf, LockedOf, reg)
        BY <2>1, <2>2, <2>3 DEF QInv, QQueued, QFirst, QOthers
    <2>5. 0 \in Nat
        OBVIOUS
    <2> QED
        BY Zenon, <2>4, <2>5 DEF QTheQueue
<1> QED
    BY Zenon, <1>2, <1>3, <1>4, <1>5 DEF QspinInv

\* Every step of every thread keeps the invariant.
LEMMA QspinNext == QspinInv /\ [Next]_qspinVars => QspinInv'
<1> SUFFICES ASSUME QspinInv, [Next]_qspinVars PROVE QspinInv'
    OBVIOUS
<1>1. CASE UNCHANGED qspinVars
    <2>1. pc' = pc /\ inside' = inside /\ lock' = lock /\ node' = node /\ reg' = reg
        BY <1>1 DEF qspinVars, benchVars
    <2>2. NextOf' = NextOf /\ LockedOf' = LockedOf
        BY Zenon, <2>1 DEF NextOf, LockedOf
    <2> QED
        BY Zenon, <2>1, <2>2 DEF QspinInv, QTypeOK, QNodes, QWord, QTheQueue
<1>2. ASSUME NEW t \in THREADS, Step(t) PROVE QspinInv'
    BY Zenon, <1>2, AcquireStep, PendingStep, TakeoverStep, QueueInitStep, TrylockStep, XchgStep, McsStep,
       ClaimStep, SetLockedStep, PassStep, ReleaseNodeStep, UnlockStep DEF Step
<1> QED
    BY Zenon, <1>1, <1>2 DEF Next

\* At most one thread is in the critical section of the queued spinlock.
THEOREM QspinExclusion == Spec => []Exclusion
<1>1. QspinInv => Exclusion
    <2>1. "cs" \in Holding
        BY DEF Holding
    <2> QED
        BY <2>1 DEF QspinInv, QTypeOK, QWord, Exclusion
<1> QED
    BY <1>1, QspinInit, QspinNext, PTL DEF Spec
=============================================================================
