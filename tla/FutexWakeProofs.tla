--------------------------- MODULE FutexWakeProofs ---------------------------
(***************************************************************************)
(* The circular queue between machines is a queue: for any size of the     *)
(* ring and any number of wakers and handlers that may die anywhere, it    *)
(* implements FifoQueue, if no two callers take its lock under one id.     *)
(*                                                                         *)
(* A caller works on positions it loaded before.  The inductive invariant  *)
(* says that they are still the current ones, that the slot it writes is   *)
(* outside the contents, and that what it is about to publish is there.    *)
(*                                                                         *)
(* The bucket of the sleepers on a machine is true to what the threads do, *)
(* for any number of threads, wakers and offsets: its list is exactly the  *)
(* sleepers, and its count is exactly those that announced themselves.     *)
(***************************************************************************)
EXTENDS FutexWake, FiniteSetTheorems, WellFoundedInduction, TLAPS

\* No two callers use the same id in the lock.
DistinctIdentities == \A c, d \in Callers : Identity[c] = Identity[d] => c = d

N == CQUEUE_SIZE

\* The number of entries between two positions, and the place of the i-th.
Size(rd, wr) == IF rd <= wr THEN wr - rd ELSE wr - rd + N
Slot(rd, i) == IF rd + i - 1 < N THEN rd + i - 1 ELSE rd + i - 1 - N

-----------------------------------------------------------------------------
(* The ring *)

\* Queues with the same entries at the same places are the same.
LEMMA SameQueue ==
    ASSUME NEW S, NEW s \in Seq(S), NEW t \in Seq(S), Len(s) = Len(t), \A i \in 1..Len(s) : s[i] = t[i]
    PROVE  s = t
OBVIOUS

\* A remainder without a division.
LEMMA Remainder ==
    ASSUME NEW x \in Nat, x < N + N
    PROVE  x % N = IF x < N THEN x ELSE x - N
BY QueueAssumption DEF QueueAssumption, N

\* Positions follow one another and wrap at the end (circular_queue_*).
LEMMA NextPositionIs ==
    ASSUME NEW p \in Positions
    PROVE  /\ NextPosition(p) = IF p + 1 < N THEN p + 1 ELSE 0
           /\ NextPosition(p) \in Positions
<1>1. p \in Nat /\ p < N /\ N \in Nat /\ N > 0
    BY QueueAssumption DEF QueueAssumption, Positions, N
<1>2. (p + 1) % N = IF p + 1 < N THEN p + 1 ELSE p + 1 - N
    BY <1>1, Remainder
<1> QED
    BY <1>1, <1>2 DEF NextPosition, Positions, N

\* The contents in terms of Size and Slot.
LEMMA ContentsIs ==
    ASSUME NEW rd \in Positions, NEW wr \in Positions
    PROVE  /\ (wr - rd + CQUEUE_SIZE) % CQUEUE_SIZE = Size(rd, wr)
           /\ Size(rd, wr) \in Nat /\ Size(rd, wr) < N
           /\ \A i \in 1..Size(rd, wr) : /\ (rd + i - 1) % CQUEUE_SIZE = Slot(rd, i)
                                         /\ Slot(rd, i) \in Positions
                                         /\ Slot(rd, i) # wr
<1>1. rd \in Nat /\ rd < N /\ wr \in Nat /\ wr < N /\ N \in Nat /\ N > 0
    BY QueueAssumption DEF QueueAssumption, Positions, N
<1>2. (wr - rd + N) % N = Size(rd, wr)
    <2>1. wr - rd + N \in Nat /\ wr - rd + N < N + N
        BY <1>1
    <2> QED
        BY <1>1, <2>1, Remainder DEF Size
<1>3. Size(rd, wr) \in Nat /\ Size(rd, wr) < N
    BY <1>1 DEF Size
<1>4. ASSUME NEW i \in 1..Size(rd, wr)
      PROVE  (rd + i - 1) % N = Slot(rd, i) /\ Slot(rd, i) \in Positions /\ Slot(rd, i) # wr
    <2>1. i \in Nat /\ 1 <= i /\ i <= Size(rd, wr)
        BY <1>3
    <2>2. rd + i - 1 \in Nat /\ rd + i - 1 < N + N
        BY <1>1, <1>3, <2>1
    <2>3. (rd + i - 1) % N = Slot(rd, i)
        BY <1>1, <2>1, <2>2, Remainder DEF Slot
    <2>4. Slot(rd, i) \in 0 .. N - 1 /\ Slot(rd, i) # wr
        BY <1>1, <2>1 DEF Slot, Size
    <2> QED
        BY Zenon, <2>3, <2>4 DEF Positions, N
<1> QED
    BY Zenon, <1>2, <1>3, <1>4 DEF N

\* The ring that is not full grows by the slot at the write position.
LEMMA Grows ==
    ASSUME NEW rd \in Positions, NEW wr \in Positions, NextPosition(wr) # rd
    PROVE  /\ Size(rd, NextPosition(wr)) = Size(rd, wr) + 1
           /\ Size(rd, wr) < N - 1
           /\ Slot(rd, Size(rd, wr) + 1) = wr
<1>1. rd \in Nat /\ rd < N /\ wr \in Nat /\ wr < N /\ N \in Nat /\ N > 0
    BY QueueAssumption DEF QueueAssumption, Positions, N
<1> QED
    BY <1>1, NextPositionIs DEF Size, Slot

\* The ring that is not empty shrinks by the slot at the read position.
LEMMA Shrinks ==
    ASSUME NEW rd \in Positions, NEW wr \in Positions, wr # rd
    PROVE  /\ Size(rd, wr) >= 1 /\ Slot(rd, 1) = rd
           /\ Size(NextPosition(rd), wr) = Size(rd, wr) - 1
           /\ \A i \in 1..Size(NextPosition(rd), wr) : Slot(NextPosition(rd), i) = Slot(rd, i + 1)
<1>1. rd \in Nat /\ rd < N /\ wr \in Nat /\ wr < N /\ N \in Nat /\ N > 0
    BY QueueAssumption DEF QueueAssumption, Positions, N
<1>2. /\ Size(rd, wr) >= 1 /\ Slot(rd, 1) = rd
      /\ Size(NextPosition(rd), wr) = Size(rd, wr) - 1
    BY <1>1, NextPositionIs DEF Size, Slot
<1>3. ASSUME NEW i \in Nat, 1 <= i, i <= Size(rd, wr) - 1
      PROVE  Slot(NextPosition(rd), i) = Slot(rd, i + 1)
    BY <1>1, <1>3, NextPositionIs DEF Size, Slot
<1>4. Size(rd, wr) \in Nat
    BY Zenon, ContentsIs
<1> QED
    BY <1>2, <1>3, <1>4

-----------------------------------------------------------------------------
(* The inductive invariant *)

InCall == {"recover", "spin", "load", "data", "store", "unlock", "refused", "failed"}

RingTypeOK ==
    /\ read \in Positions /\ write \in Positions
    /\ data \in [Positions -> Entries \union {NoEntry}]
    /\ pc \in [Callers -> InCall \union {"idle", "returned", "scan"}]
    /\ op \in [Callers -> {"enqueue", "dequeue"}]
    /\ item \in [Callers -> Entries \union {NoEntry}]
    /\ r \in [Callers -> Positions] /\ w \in [Callers -> Positions]

\* Whoever is inside has its id in the lock.
OwnsLock == \A c \in Callers : Inside(c) => lock = Identity[c]

\* The positions a caller has loaded are the current ones.
LoadedCurrent ==
    \A c \in Callers : pc[c] \in {"data", "store"} =>
        /\ r[c] = read /\ w[c] = write
        /\ op[c] = "enqueue" => ~Full(read, write)
        /\ op[c] = "dequeue" => ~Empty(read, write)

\* What a caller is about to publish is in its place.
DataMoved ==
    \A c \in Callers : pc[c] = "store" =>
        IF op[c] = "enqueue" THEN data[write] = item[c] ELSE item[c] = data[read]

\* Wakers bring an entry, and only handlers take one out.
CallsSensible ==
    \A c \in Callers : pc[c] \in InCall =>
        IF op[c] = "enqueue" THEN item[c] \in Entries ELSE c \in Handlers

RingInv == RingTypeOK /\ OwnsLock /\ LoadedCurrent /\ DataMoved /\ CallsSensible

\* The queue starts empty, and nobody is inside.
LEMMA RingInit == Init => RingInv
<1>1. 0 \in Positions
    BY QueueAssumption DEF QueueAssumption, Positions
<1> QED
    BY <1>1 DEF Init, QueueInit, RingInv, RingTypeOK, OwnsLock, Inside, LoadedCurrent, DataMoved,
                CallsSensible, InCall

\* Callers are inside one at a time.
LEMMA RingExcludes == DistinctIdentities /\ RingInv => QueueExclusive
BY Zenon DEF DistinctIdentities, RingInv, OwnsLock, QueueExclusive

\* A caller that is outside, or leaves, does what it likes with its own locals.
LEMMA OutsideStep ==
    ASSUME RingInv, NEW S \in SUBSET Callers, UNCHANGED <<read, write, data>>,
           RingTypeOK',
           \A c \in Callers \ S : /\ pc'[c] = pc[c] /\ op'[c] = op[c] /\ item'[c] = item[c]
                                  /\ r'[c] = r[c] /\ w'[c] = w[c],
           \A c \in S : pc'[c] \in {"idle", "recover", "returned", "scan"},
           \A c \in S : pc'[c] = "recover" => IF op'[c] = "enqueue" THEN item'[c] \in Entries
                                             ELSE c \in Handlers,
           UNCHANGED lock
    PROVE  RingInv'
<1>1. OwnsLock'
    BY Zenon DEF RingInv, OwnsLock, Inside
<1>2. LoadedCurrent'
    BY Zenon DEF RingInv, LoadedCurrent, Full, Empty, NextPosition
<1>3. DataMoved'
    <2> SUFFICES ASSUME NEW c \in Callers, pc'[c] = "store"
                 PROVE  IF op'[c] = "enqueue" THEN data'[write'] = item'[c] ELSE item'[c] = data'[read']
        BY Zenon DEF DataMoved
    <2>1. c \in Callers \ S
        BY Zenon
    <2>2. pc[c] = "store" /\ op'[c] = op[c] /\ item'[c] = item[c]
        BY Zenon, <2>1
    <2> QED
        BY Zenon, <2>2 DEF RingInv, DataMoved
<1>4. CallsSensible'
    BY Zenon DEF RingInv, CallsSensible, InCall
<1> QED
    BY Zenon, <1>1, <1>2, <1>3, <1>4 DEF RingInv

\* The same for one caller.
LEMMA OutsideOne ==
    ASSUME RingInv, NEW c \in Callers, UNCHANGED <<read, write, data>>, UNCHANGED <<lock, r, w>>,
           RingTypeOK',
           \A d \in Callers \ {c} : pc'[d] = pc[d] /\ op'[d] = op[d] /\ item'[d] = item[d],
           pc'[c] \in {"idle", "recover", "returned", "scan"},
           pc'[c] = "recover" => IF op'[c] = "enqueue" THEN item'[c] \in Entries ELSE c \in Handlers
    PROVE  RingInv'
<1> DEFINE S == {c}
<1>1. S \in SUBSET Callers
    BY Zenon
<1>2. \A d \in Callers \ S : /\ pc'[d] = pc[d] /\ op'[d] = op[d] /\ item'[d] = item[d]
                             /\ r'[d] = r[d] /\ w'[d] = w[d]
    BY Zenon
<1>3. /\ \A d \in S : pc'[d] \in {"idle", "recover", "returned", "scan"}
      /\ \A d \in S : pc'[d] = "recover" => IF op'[d] = "enqueue" THEN item'[d] \in Entries
                                           ELSE d \in Handlers
    BY Zenon
<1>4. UNCHANGED lock
    BY Zenon
<1> HIDE DEF S
<1> QED
    BY Zenon, <1>1, <1>2, <1>3, <1>4, OutsideStep

\* The first five steps of a call, and the last: the contents stay what they were.
LEMMA CallStep ==
    ASSUME DistinctIdentities, RingInv, NEW c \in Callers,
           ttas_recover(c) \/ ttas_enter(c) \/ load_position(c) \/ move_data(c) \/ cq_unlock(c)
    PROVE  RingInv'
<1> USE DEF RingInv
<1>1. CASE ttas_recover(c)
    BY Zenon, <1>1 DEF ttas_recover, Goto, queueVars, RingTypeOK, OwnsLock, Inside, LoadedCurrent, Full, Empty,
                NextPosition, DataMoved, CallsSensible, InCall
<1>2. CASE ttas_enter(c)
    BY Zenon, <1>2, QueueAssumption DEF QueueAssumption, ttas_enter, Goto, RingTypeOK, OwnsLock, Inside, LoadedCurrent,
                Full, Empty, NextPosition, DataMoved, CallsSensible, InCall
<1>3. CASE load_position(c)
    BY Zenon, <1>3 DEF load_position, Goto, RingTypeOK, OwnsLock, Inside, LoadedCurrent, Full, Empty,
                NextPosition, DataMoved, CallsSensible, InCall
<1>4. CASE move_data(c)
    <2>0. \A d \in Callers \ {c} : ~Inside(d)
        BY Zenon, <1>4 DEF move_data, DistinctIdentities, OwnsLock, Inside
    <2>1. w[c] = write /\ r[c] = read
        BY Zenon, <1>4 DEF move_data, LoadedCurrent
    <2>2. RingTypeOK'
        BY Zenon, <1>4, <2>1 DEF move_data, Goto, RingTypeOK, CallsSensible, InCall
    <2>3. OwnsLock' /\ CallsSensible'
        BY Zenon, <1>4 DEF move_data, Goto, RingTypeOK, OwnsLock, Inside, CallsSensible, InCall
    <2>4. LoadedCurrent'
        BY Zenon, <1>4 DEF move_data, Goto, RingTypeOK, LoadedCurrent, Full, Empty, NextPosition
    <2>5. DataMoved'
        BY <1>4, <2>0, <2>1 DEF move_data, Goto, RingTypeOK, DataMoved, Inside
    <2> QED
        BY Zenon, <2>2, <2>3, <2>4, <2>5
<1>5. CASE cq_unlock(c)
    <2>0. \A d \in Callers \ {c} : ~Inside(d)
        BY Zenon, <1>5 DEF cq_unlock, DistinctIdentities, OwnsLock, Inside
    <2>1. 0 \in Positions
        BY QueueAssumption DEF QueueAssumption, Positions
    <2> QED
        BY Zenon, <1>5, <2>0, <2>1 DEF cq_unlock, Goto, RingTypeOK, OwnsLock, Inside, LoadedCurrent, Full, Empty,
                    NextPosition, DataMoved, CallsSensible, InCall
<1> QED
    BY Zenon, <1>1, <1>2, <1>3, <1>4, <1>5

\* The step that publishes: nobody else is inside.
LEMMA StoreStep ==
    ASSUME DistinctIdentities, RingInv, NEW c \in Callers, store_position(c)
    PROVE  RingInv'
<1> USE DEF RingInv
<1>1. \A d \in Callers \ {c} : ~Inside(d)
    BY Zenon DEF store_position, DistinctIdentities, OwnsLock, Inside
<1>2. RingTypeOK'
    <2>1. NextPosition(w[c]) \in Positions /\ NextPosition(r[c]) \in Positions
        BY Zenon, NextPositionIs DEF RingTypeOK
    <2> QED
        BY Zenon, <2>1 DEF store_position, Goto, RingTypeOK, InCall
<1>3. OwnsLock' /\ CallsSensible'
    BY Zenon DEF store_position, Goto, RingTypeOK, OwnsLock, Inside, CallsSensible, InCall
<1>4. \A d \in Callers : pc'[d] \notin {"data", "store"}
    BY Zenon, <1>1 DEF store_position, Goto, RingTypeOK, Inside
<1> QED
    BY Zenon, <1>2, <1>3, <1>4 DEF LoadedCurrent, DataMoved

\* The steps outside a call: threads that wait, wake-ups that begin or end, a
\* refused call that is tried again, and crashes.
LEMMA UserStep ==
    ASSUME RingInv, Next, \A c \in Callers : ~QueueStep(c)
    PROVE  RingInv' /\ UNCHANGED <<read, write, data, out>>
<1>1. 0 \in Positions
    BY QueueAssumption DEF QueueAssumption, Positions
<1>2. Remote \subseteq Callers /\ Local \subseteq Callers /\ Handlers \subseteq Callers
    BY Zenon, FutexAssumption DEF FutexAssumption
<1>3. ASSUME NEW t \in Threads, WaitStep(t) PROVE RingInv' /\ UNCHANGED <<read, write, data, out>>
    <2>1. UNCHANGED <<queueVars, pc>>
        BY Zenon, <1>3 DEF WaitStep, do_vcxl_cond_wait, waiters_inc, vcxl_futex_q_lock, wait_setup, wait_queue,
                    woken, unqueue
    <2> QED
        BY Zenon, <2>1 DEF queueVars, RingInv, RingTypeOK, OwnsLock, Inside, LoadedCurrent, Full, Empty, NextPosition,
                    DataMoved, CallsSensible
<1>4. ASSUME NEW c \in Callers, Refused(c) PROVE RingInv' /\ UNCHANGED <<read, write, data, out>>
    <2>1. UNCHANGED <<read, write, data, out, lock, r, w>> /\ RingTypeOK'
        BY Zenon, <1>4 DEF Refused, Call, Goto, queueVars, RingInv, RingTypeOK, InCall
    <2>2. c \notin Handlers => item[c] \in Entries
        BY Zenon, <1>4 DEF Refused, RingInv, CallsSensible, InCall
    <2>3. /\ \A d \in Callers \ {c} : pc'[d] = pc[d] /\ op'[d] = op[d] /\ item'[d] = item[d]
          /\ pc'[c] \in {"idle", "recover", "returned", "scan"}
          /\ pc'[c] = "recover" => IF op'[c] = "enqueue" THEN item'[c] \in Entries ELSE c \in Handlers
        BY Zenon, <1>4, <2>2 DEF Refused, Call, Goto, queueVars, RingInv, RingTypeOK
    <2> QED
        BY Zenon, <1>2, <2>1, <2>3, OutsideOne
<1>5. ASSUME NEW c \in Remote, NEW o \in Entries, WakeRemote(c, o)
      PROVE  RingInv' /\ UNCHANGED <<read, write, data, out>>
    <2>1. UNCHANGED <<read, write, data, out, lock, r, w>> /\ RingTypeOK'
        BY Zenon, <1>2, <1>5 DEF WakeRemote, Call, Goto, RingInv, RingTypeOK, InCall
    <2>2. /\ \A d \in Callers \ {c} : pc'[d] = pc[d] /\ op'[d] = op[d] /\ item'[d] = item[d]
          /\ pc'[c] \in {"idle", "recover", "returned", "scan"}
          /\ pc'[c] = "recover" => IF op'[c] = "enqueue" THEN item'[c] \in Entries ELSE c \in Handlers
        BY Zenon, <1>2, <1>5 DEF WakeRemote, Call, Goto, RingInv, RingTypeOK
    <2> QED
        BY Zenon, <1>2, <2>1, <2>2, OutsideOne
<1>6. ASSUME NEW c \in Remote, RingDoorbell(c) PROVE RingInv' /\ UNCHANGED <<read, write, data, out>>
    <2>1. UNCHANGED <<read, write, data, out, lock, r, w>> /\ RingTypeOK'
        BY Zenon, <1>2, <1>6 DEF RingDoorbell, Goto, RingInv, RingTypeOK, InCall
    <2>2. /\ \A d \in Callers \ {c} : pc'[d] = pc[d] /\ op'[d] = op[d] /\ item'[d] = item[d]
          /\ pc'[c] \in {"idle", "recover", "returned", "scan"}
          /\ pc'[c] = "recover" => IF op'[c] = "enqueue" THEN item'[c] \in Entries ELSE c \in Handlers
        BY Zenon, <1>2, <1>6 DEF RingDoorbell, Goto, RingInv, RingTypeOK
    <2> QED
        BY Zenon, <1>2, <2>1, <2>2, OutsideOne
<1>7. ASSUME NEW c \in Local, NEW o \in Entries, WakeLocal(c, o)
      PROVE  RingInv' /\ UNCHANGED <<read, write, data, out>>
    <2>1. UNCHANGED <<read, write, data, out, lock, r, w>> /\ RingTypeOK'
        BY Zenon, <1>2, <1>7 DEF WakeLocal, Goto, RingInv, RingTypeOK, InCall
    <2>2. /\ \A d \in Callers \ {c} : pc'[d] = pc[d] /\ op'[d] = op[d] /\ item'[d] = item[d]
          /\ pc'[c] \in {"idle", "recover", "returned", "scan"}
          /\ pc'[c] = "recover" => IF op'[c] = "enqueue" THEN item'[c] \in Entries ELSE c \in Handlers
        BY Zenon, <1>2, <1>7 DEF WakeLocal, Goto, RingInv, RingTypeOK
    <2> QED
        BY Zenon, <1>2, <2>1, <2>2, OutsideOne
<1>8. ASSUME NEW c \in Handlers, Interrupt(c) PROVE RingInv' /\ UNCHANGED <<read, write, data, out>>
    <2>1. UNCHANGED <<read, write, data, out, lock, r, w>> /\ RingTypeOK'
        BY Zenon, <1>2, <1>8 DEF Interrupt, Call, Goto, RingInv, RingTypeOK, InCall
    <2>2. /\ \A d \in Callers \ {c} : pc'[d] = pc[d] /\ op'[d] = op[d] /\ item'[d] = item[d]
          /\ pc'[c] \in {"idle", "recover", "returned", "scan"}
          /\ pc'[c] = "recover" => IF op'[c] = "enqueue" THEN item'[c] \in Entries ELSE c \in Handlers
        BY Zenon, <1>2, <1>8 DEF Interrupt, Call, Goto, RingInv, RingTypeOK
    <2> QED
        BY Zenon, <1>2, <2>1, <2>2, OutsideOne
<1>9. ASSUME NEW c \in Handlers \union Local, waiters_pending(c) \/ wake_proc(c)
      PROVE  RingInv' /\ UNCHANGED <<read, write, data, out>>
    <2>1. UNCHANGED <<read, write, data, out, lock, r, w, op>> /\ RingTypeOK'
        BY Zenon, <1>2, <1>9 DEF waiters_pending, wake_proc, Goto, RingInv, RingTypeOK, InCall
    <2>2. /\ \A d \in Callers \ {c} : pc'[d] = pc[d] /\ item'[d] = item[d]
          /\ pc'[c] \in {"idle", "scan"}
        BY Zenon, <1>2, <1>9 DEF waiters_pending, wake_proc, Goto, RingInv, RingTypeOK
    <2> QED
        BY Zenon, <1>2, <2>1, <2>2, OutsideOne
<1>10. ASSUME NEW S \in SUBSET Callers, QueueForget(S) PROVE RingInv' /\ UNCHANGED <<read, write, data, out>>
    <2>1. UNCHANGED <<read, write, data, out, lock>> /\ RingTypeOK'
        BY Zenon, <1>1, <1>10 DEF QueueForget, RingInv, RingTypeOK
    <2>2. /\ \A d \in Callers \ S : /\ pc'[d] = pc[d] /\ op'[d] = op[d] /\ item'[d] = item[d]
                                    /\ r'[d] = r[d] /\ w'[d] = w[d]
          /\ \A d \in S : pc'[d] = "idle"
        BY Zenon, <1>10 DEF QueueForget
    <2> QED
        BY Zenon, <2>1, <2>2, OutsideStep
<1>11. ASSUME NEW c \in Remote, CrashWaker(c) PROVE RingInv' /\ UNCHANGED <<read, write, data, out>>
    BY Zenon, <1>2, <1>10, <1>11 DEF CrashWaker
<1>12. CASE CrashWaiter
    BY Zenon, <1>2, <1>10, <1>12 DEF CrashWaiter
<1> QED
    BY Zenon, <1>3, <1>4, <1>5, <1>6, <1>7, <1>8, <1>9, <1>11, <1>12 DEF Next

-----------------------------------------------------------------------------
(* The refinement *)

\* The contents as a sequence, from the data and the two positions.
Entry(d, rd, i) == d[Slot(rd, i)]
Queue(d, rd, wr) == [i \in 1..Size(rd, wr) |-> Entry(d, rd, i)]

\* Contents is that sequence.
LEMMA ContentsQueue ==
    ASSUME RingTypeOK
    PROVE  /\ Contents = Queue(data, read, write)
           /\ Contents \in Seq(Entries \union {NoEntry})
           /\ Len(Contents) = Size(read, write)
<1>1. /\ (write - read + CQUEUE_SIZE) % CQUEUE_SIZE = Size(read, write)
      /\ Size(read, write) \in Nat
      /\ \A i \in 1..Size(read, write) : /\ (read + i - 1) % CQUEUE_SIZE = Slot(read, i)
                                         /\ Slot(read, i) \in Positions
    BY Zenon, ContentsIs DEF RingTypeOK
<1>2. Contents = Queue(data, read, write)
    BY Zenon, <1>1 DEF Contents, Queue, Entry
<1>3. Queue(data, read, write) \in [1..Size(read, write) -> Entries \union {NoEntry}]
    BY Zenon, <1>1 DEF Queue, Entry, RingTypeOK
<1> QED
    BY <1>1, <1>2, <1>3

\* The same after a step.
LEMMA ContentsQueueNext ==
    ASSUME RingTypeOK'
    PROVE  /\ Contents' = Queue(data', read', write')
           /\ Contents' \in Seq(Entries \union {NoEntry})
           /\ Len(Contents') = Size(read', write')
<1>1. /\ (write' - read' + CQUEUE_SIZE) % CQUEUE_SIZE = Size(read', write')
      /\ Size(read', write') \in Nat
      /\ \A i \in 1..Size(read', write') : /\ (read' + i - 1) % CQUEUE_SIZE = Slot(read', i)
                                           /\ Slot(read', i) \in Positions
    BY Zenon, ContentsIs DEF RingTypeOK
<1>2. Contents' = Queue(data', read', write')
    BY Zenon, <1>1 DEF Contents, Queue, Entry
<1>3. Queue(data', read', write') \in [1..Size(read', write') -> Entries \union {NoEntry}]
    BY Zenon, <1>1 DEF Queue, Entry, RingTypeOK
<1> QED
    BY <1>1, <1>2, <1>3

\* Moving the data of an entry does not touch the contents: the slot that is
\* written is not one of them.
LEMMA MoveStep ==
    ASSUME RingInv, NEW c \in Callers, move_data(c), RingTypeOK'
    PROVE  UNCHANGED <<Contents, out>>
<1>1. read' = read /\ write' = write /\ out' = out /\ w[c] = write
    BY Zenon DEF move_data, RingInv, LoadedCurrent
<1>2. /\ Size(read, write) \in Nat
      /\ \A i \in 1..Size(read, write) : Slot(read, i) \in Positions /\ Slot(read, i) # write
    BY Zenon, ContentsIs DEF RingInv, RingTypeOK
<1>3. \A p \in Positions : p # write => data'[p] = data[p]
    BY Zenon, <1>1 DEF move_data, RingInv, RingTypeOK
<1>4. \A i \in 1..Size(read, write) : Entry(data', read, i) = Entry(data, read, i)
    BY Zenon, <1>2, <1>3 DEF Entry
<1>5. Queue(data', read', write') = Queue(data, read, write)
    BY Zenon, <1>1, <1>4 DEF Queue
<1>6. Contents' = Queue(data', read', write') /\ Contents = Queue(data, read, write)
    BY Zenon, ContentsQueue, ContentsQueueNext DEF RingInv
<1> QED
    BY Zenon, <1>1, <1>5, <1>6

\* circular_queue_enqueue appends its entry when it stores the write position.
LEMMA EnqueueStep ==
    ASSUME RingInv, NEW c \in Callers, store_position(c), op[c] = "enqueue", RingTypeOK'
    PROVE  Fifo!Enqueue(item[c]) /\ item[c] \in Entries
<1>1. /\ read' = read /\ out' = out /\ data' = data
      /\ write' = NextPosition(write)
      /\ NextPosition(write) # read
      /\ data[write] = item[c]
      /\ item[c] \in Entries
    BY Zenon DEF store_position, RingInv, LoadedCurrent, DataMoved, CallsSensible, InCall, Full
<1>2. /\ Size(read, write') = Size(read, write) + 1
      /\ Size(read, write) < N - 1 /\ Size(read, write) \in Nat
      /\ Slot(read, Size(read, write) + 1) = write
    BY Zenon, <1>1, Grows, ContentsIs DEF RingInv, RingTypeOK
<1>3. Queue(data', read', write') =
        [i \in 1 .. Size(read, write) + 1 |->
           IF i = Size(read, write) + 1 THEN item[c] ELSE Queue(data, read, write)[i]]
    BY <1>1, <1>2 DEF Queue, Entry
<1>4. /\ Contents' = Queue(data', read', write') /\ Contents = Queue(data, read, write)
      /\ Contents \in Seq(Entries \union {NoEntry}) /\ Len(Contents) = Size(read, write)
    BY Zenon, ContentsQueue, ContentsQueueNext DEF RingInv
<1>5. Contents' = Append(Contents, item[c])
    BY <1>2, <1>3, <1>4
<1> QED
    BY Zenon, <1>1, <1>2, <1>4, <1>5 DEF Fifo!Enqueue, N

\* circular_queue_dequeue takes the first entry out when it stores the read position.
LEMMA DequeueStep ==
    ASSUME RingInv, NEW c \in Callers, store_position(c), op[c] # "enqueue", RingTypeOK'
    PROVE  Fifo!Dequeue
<1>1. /\ write' = write /\ out' = data[read] /\ data' = data
      /\ read' = NextPosition(read)
      /\ write # read
    BY Zenon DEF store_position, RingInv, RingTypeOK, LoadedCurrent, DataMoved, Empty
<1>2. /\ Size(read', write) = Size(read, write) - 1
      /\ Size(read, write) >= 1 /\ Size(read, write) \in Nat
      /\ Slot(read, 1) = read
      /\ \A i \in 1..Size(read', write) : Slot(read', i) = Slot(read, i + 1)
    BY <1>1, Shrinks, ContentsIs DEF RingInv, RingTypeOK
<1>3. Queue(data', read', write') =
        [i \in 1 .. Size(read, write) - 1 |-> Queue(data, read, write)[i + 1]]
    BY <1>1, <1>2 DEF Queue, Entry
<1>4. /\ Contents' = Queue(data', read', write') /\ Contents = Queue(data, read, write)
      /\ Contents \in Seq(Entries \union {NoEntry}) /\ Len(Contents) = Size(read, write)
      /\ Contents' \in Seq(Entries \union {NoEntry}) /\ Len(Contents') = Size(read', write')
    BY Zenon, ContentsQueue, ContentsQueueNext DEF RingInv
<1>5. Contents # <<>> /\ Head(Contents) = data[read]
    BY <1>2, <1>4 DEF Queue, Entry
<1>6. Contents' = Tail(Contents)
    <2>1. Tail(Contents) \in Seq(Entries \union {NoEntry}) /\ Len(Tail(Contents)) = Len(Contents) - 1
        BY <1>4, <1>5
    <2>2. \A i \in 1 .. Len(Contents) - 1 : Tail(Contents)[i] = Contents[i + 1]
        BY <1>4, <1>5
    <2>3. \A i \in 1 .. Len(Contents) - 1 : Contents'[i] = Contents[i + 1]
        BY Zenon, <1>2, <1>3, <1>4
    <2>4. Len(Contents') = Len(Contents) - 1
        BY Zenon, <1>1, <1>2, <1>4
    <2> QED
        BY <1>4, <2>1, <2>2, <2>3, <2>4, SameQueue
<1> QED
    BY Zenon, <1>1, <1>5, <1>6 DEF Fifo!Dequeue

\* Every step keeps the invariant, and is a step of the abstract queue or none.
LEMMA RingStep ==
    ASSUME DistinctIdentities, RingInv, [Next]_vars
    PROVE  RingInv' /\ [Fifo!Next]_<<Contents, out>>
<1>1. ASSUME RingInv', UNCHANGED <<read, write, data, out>> PROVE UNCHANGED <<Contents, out>>
    BY Zenon, <1>1 DEF Contents
<1>2. ASSUME NEW c \in Callers, store_position(c) PROVE RingInv' /\ Fifo!Next
    <2>1. RingInv'
        BY Zenon, <1>2, StoreStep
    <2> QED
        BY Zenon, <1>2, <2>1, EnqueueStep, DequeueStep DEF RingInv, Fifo!Next
<1>3. ASSUME NEW c \in Callers, QueueStep(c), ~store_position(c)
      PROVE  RingInv' /\ UNCHANGED <<Contents, out>>
    <2>1. RingInv'
        BY Zenon, <1>3, CallStep DEF QueueStep
    <2>2. CASE move_data(c)
        BY Zenon, <2>1, <2>2, MoveStep DEF RingInv
    <2>3. CASE ~move_data(c)
        <3>1. UNCHANGED <<read, write, data, out>>
            BY Zenon, <1>3, <2>3 DEF QueueStep, ttas_recover, ttas_enter, load_position, cq_unlock, queueVars
        <3> QED
            BY Zenon, <1>1, <2>1, <3>1
    <2> QED
        BY Zenon, <2>1, <2>2, <2>3
<1>4. CASE Next /\ \A c \in Callers : ~QueueStep(c)
    BY Zenon, <1>1, <1>4, UserStep
<1>5. CASE UNCHANGED vars
    <2>1. UNCHANGED <<queueVars, pc>>
        BY Zenon, <1>5 DEF vars
    <2>2. RingInv'
        BY Zenon, <2>1 DEF queueVars, RingInv, RingTypeOK, OwnsLock, Inside, LoadedCurrent, Full, Empty, NextPosition,
                    DataMoved, CallsSensible
    <2> QED
        BY Zenon, <1>1, <2>1, <2>2 DEF queueVars
<1>6. CASE \E c \in Callers : QueueStep(c)
    BY Zenon, <1>2, <1>3, <1>6
<1> QED
    BY Zenon, <1>4, <1>5, <1>6

\* ttas_recover and ttas_enter let callers into the ring one at a time, under
\* the id in its lock, however many they are and wherever machines die.
THEOREM RingExclusion ==
    ASSUME DistinctIdentities
    PROVE  Spec => []QueueExclusive
<1>1. Init => RingInv
    BY Zenon, RingInit
<1>2. RingInv /\ [Next]_vars => RingInv'
    BY Zenon, RingStep
<1>3. RingInv => QueueExclusive
    BY Zenon, RingExcludes
<1> QED
    BY <1>1, <1>2, <1>3, PTL DEF Spec

\* circular_queue_enqueue and circular_queue_dequeue "atomically" append and
\* remove an entry: for every size of the ring, number of machines and number of
\* crashes, the ring is a queue.
THEOREM RingIsQueue ==
    ASSUME DistinctIdentities
    PROVE  Spec => AtomicQueue
<1>1. Init => RingInv
    BY Zenon, RingInit
<1>2. RingInv /\ [Next]_vars => RingInv' /\ [Fifo!Next]_<<Contents, out>>
    BY Zenon, RingStep
<1>3. Init => Fifo!Init
    <2> SUFFICES ASSUME Init PROVE Contents = <<>> /\ out = NoEntry
        BY Zenon DEF Fifo!Init, Fifo!NoEntry, NoEntry
    <2>1. read = 0 /\ write = 0 /\ out = NoEntry /\ RingTypeOK
        BY Zenon, RingInit DEF Init, QueueInit, RingInv
    <2>2. Size(read, write) = 0
        BY <2>1 DEF Size
    <2> QED
        BY <2>1, <2>2, ContentsQueue
<1> QED
    BY <1>1, <1>2, <1>3, PTL DEF Spec, AtomicQueue, Fifo!Spec

\* The lock word is empty or has the id of a caller (ttas_enter).
LockTypeOK == lock \in {Identity[c] : c \in Callers} \union {UNLOCKED}

\* circular_queue_*: the positions stay inside the ring and the slots hold
\* entries, for every size of the ring.
THEOREM RingTypes ==
    ASSUME DistinctIdentities
    PROVE  Spec => []QueueTypeOK
<1>1. Init => RingInv /\ LockTypeOK
    BY Zenon, RingInit DEF Init, QueueInit, LockTypeOK
<1>2. RingInv /\ LockTypeOK /\ [Next]_vars => RingInv' /\ LockTypeOK'
    <2> SUFFICES ASSUME RingInv, LockTypeOK, [Next]_vars PROVE RingInv' /\ LockTypeOK'
        BY Zenon
    <2>1. lock' \in {lock, UNLOCKED} \/ \E c \in Callers : lock' = Identity[c]
        <3>1. ASSUME NEW c \in Callers, QueueStep(c)
              PROVE  lock' \in {lock, UNLOCKED} \/ \E d \in Callers : lock' = Identity[d]
            BY Zenon, <3>1 DEF QueueStep, ttas_recover, ttas_enter, load_position, move_data, store_position, cq_unlock,
                        queueVars
        <3>2. ASSUME Next, \A c \in Callers : ~QueueStep(c) PROVE lock' = lock
            BY Zenon, <3>2 DEF Next, WaitStep, do_vcxl_cond_wait, waiters_inc, vcxl_futex_q_lock, wait_setup, wait_queue,
                        woken, unqueue, Refused, WakeRemote, RingDoorbell, CrashWaker, WakeLocal, Interrupt,
                        waiters_pending, wake_proc, CrashWaiter, QueueForget, Call, queueVars
        <3>3. CASE UNCHANGED vars
            BY Zenon, <3>3 DEF vars, queueVars
        <3> QED
            BY Zenon, <3>1, <3>2, <3>3
    <2> QED
        BY Zenon, <2>1, RingStep DEF LockTypeOK
<1>3. RingInv /\ LockTypeOK => QueueTypeOK
    BY Zenon DEF RingInv, RingTypeOK, LockTypeOK, QueueTypeOK
<1> QED
    BY <1>1, <1>2, <1>3, PTL DEF Spec

-----------------------------------------------------------------------------
(* The list of sleepers *)

\* A set of numbers has a smallest one: the way to do induction here.
LEMMA MinNat ==
  ASSUME NEW T \in SUBSET Nat, T # {}
  PROVE  \E x \in T : \A y \in T : x <= y
<1> DEFINE R == {ss \in Nat \X Nat : ss[1] < ss[2]}
<1>1. IsWellFoundedOn(R, Nat)
  BY Zenon, NatLessThanWellFounded DEF OpToRel
<1>2. \E x \in T : \A y \in T : ~ (<<y, x>> \in R)
  <2> HIDE DEF R
  <2> QED BY Zenon, <1>1, WFMin
<1>3. \A x, y \in Nat : y < x => <<y, x>> \in R
  BY Zenon
<1> HIDE DEF R
<1>4. PICK x \in T : \A y \in T : ~ (<<y, x>> \in R)
  BY Zenon, <1>2
<1>5. \A y \in T : ~(y < x)
  BY Zenon, <1>3, <1>4
<1> QED BY <1>5

\* What the list is after position i, from what it was before.
Kept(s, S, g, i) ==
    IF i = 0 THEN <<>>
    ELSE IF s[i] \in S THEN g[i - 1] ELSE Append(g[i - 1], s[i])

\* g lists what is kept up to each of the first n positions.
Filters(s, S, g, n) == \A i \in 0..n : g[i] = Kept(s, S, g, i)

\* There is such a g.
Filterable(T, s, S, n) == \E g \in [0..n -> Seq(T)] : Filters(s, S, g, n)

\* It keeps what is not in S.
KeepsRest(T, s, S, g, n) == g[n] \in Seq(T) /\ Range(g[n]) = {s[j] : j \in 1..n} \ S

\* The recursion in Without is well defined on every prefix of a list.
LEMMA FilterExists ==
    ASSUME NEW T, NEW s \in Seq(T), NEW S, NEW n \in 0..Len(s)
    PROVE  Filterable(T, s, S, n)
<1> USE DEF Filterable, Filters
<1> DEFINE P(k) == \E g \in [0..k -> Seq(T)] : \A i \in 0..k : g[i] = Kept(s, S, g, i)
           Bad == {k \in 0..Len(s) : ~P(k)}
<1>1. SUFFICES ASSUME Bad # {} PROVE FALSE
    BY Zenon
<1>2. Bad \in SUBSET Nat
    OBVIOUS
<1>3. PICK k \in Bad : \A j \in Bad : k <= j
    BY Zenon, <1>1, <1>2, MinNat
<1>4. k # 0
    <2>1. P(0)
        <3> DEFINE g == [i \in 0..0 |-> <<>>]
        <3>1. g \in [0..0 -> Seq(T)] /\ \A i \in 0..0 : g[i] = Kept(s, S, g, i)
            BY DEF Kept
        <3> QED
            BY Zenon, <3>1
    <2> QED
        BY Zenon, <2>1
<1>5. k - 1 \in 0..Len(s) /\ k \in 1..Len(s) /\ P(k - 1)
    <2>1. Len(s) \in Nat /\ k \in 0..Len(s)
        OBVIOUS
    <2>2. k - 1 \in 0..Len(s) /\ k \in 1..Len(s) /\ ~(k <= k - 1)
        BY <1>4, <2>1
    <2>3. k - 1 \notin Bad
        BY Zenon, <1>3, <2>2
    <2> QED
        BY Zenon, <2>2, <2>3
<1>6. PICK g \in [0..(k - 1) -> Seq(T)] : \A i \in 0..(k - 1) : g[i] = Kept(s, S, g, i)
    BY Zenon, <1>5
<1> DEFINE x == Kept(s, S, g, k)
           h == [i \in 0..k |-> IF i = k THEN x ELSE g[i]]
<1>7. x \in Seq(T)
    BY <1>5, <1>6 DEF Kept
<1> HIDE DEF x
<1>8. h \in [0..k -> Seq(T)]
    BY <1>5, <1>6, <1>7
<1>9. ASSUME NEW i \in 0..k PROVE h[i] = Kept(s, S, h, i)
    <2>1. i # 0 => h[i - 1] = g[i - 1]
        BY <1>5
    <2>2. CASE i = k
        BY Zenon, <1>5, <2>1, <2>2 DEF Kept, x
    <2>3. CASE i # k
        <3>1. h[i] = g[i] /\ g[i] = Kept(s, S, g, i)
            BY <1>5, <1>6, <2>3
        <3> QED
            BY Zenon, <2>1, <3>1 DEF Kept
    <2> QED
        BY Zenon, <2>2, <2>3
<1>10. P(k)
    <2> HIDE DEF h
    <2> QED
        BY Zenon, <1>8, <1>9
<1> QED
    BY Zenon, <1>3, <1>10

\* vcxl_futex_queue adds one thread to those on the list.
LEMMA AppendRange ==
    ASSUME NEW T, NEW q \in Seq(T), NEW x \in T
    PROVE  Range(Append(q, x)) = Range(q) \union {x}
<1> DEFINE a == Append(q, x)
<1>1. /\ Len(q) \in Nat /\ DOMAIN q = 1..Len(q) /\ DOMAIN a = 1..(Len(q) + 1)
      /\ a[Len(q) + 1] = x /\ \A i \in 1..Len(q) : a[i] = q[i]
    OBVIOUS
<1> HIDE DEF a
<1>2. \A y : (\E i \in DOMAIN a : y = a[i]) <=> (\E i \in DOMAIN q : y = q[i]) \/ y = x
    BY <1>1
<1>3. {a[i] : i \in DOMAIN a} = {q[i] : i \in DOMAIN q} \union {x}
    BY Zenon, <1>2
<1> QED
    BY Zenon, <1>3 DEF Range, a

\* On every prefix the recursion in Without keeps what is not to be taken off.
LEMMA FilterRange ==
    ASSUME NEW T, NEW s \in Seq(T), NEW S, NEW g,
           Filters(s, S, g, Len(s)), NEW n \in 0..Len(s)
    PROVE  KeepsRest(T, s, S, g, n)
<1> USE DEF KeepsRest, Filters
<1> DEFINE P(k) == g[k] \in Seq(T) /\ Range(g[k]) = {s[j] : j \in 1..k} \ S
           Bad == {k \in 0..Len(s) : ~P(k)}
<1>1. SUFFICES ASSUME Bad # {} PROVE FALSE
    BY Zenon
<1>2. Bad \in SUBSET Nat
    OBVIOUS
<1>3. PICK k \in Bad : \A j \in Bad : k <= j
    BY Zenon, <1>1, <1>2, MinNat
<1>4. k # 0
    <2>1. g[0] = <<>>
        BY DEF Kept
    <2>2. Range(<<>>) = {} /\ {s[j] : j \in 1..0} = {}
        BY DEF Range
    <2>3. P(0)
        BY <2>1, <2>2
    <2> HIDE DEF P
    <2> QED
        BY Zenon, <2>3
<1>5. k - 1 \in 0..Len(s) /\ k \in 1..Len(s) /\ P(k - 1)
    <2>1. Len(s) \in Nat /\ k \in 0..Len(s)
        OBVIOUS
    <2>2. k - 1 \in 0..Len(s) /\ k \in 1..Len(s) /\ ~(k <= k - 1)
        BY <1>4, <2>1
    <2>3. k - 1 \notin Bad
        BY Zenon, <1>3, <2>2
    <2> QED
        BY Zenon, <2>2, <2>3
<1>6. {s[j] : j \in 1..k} = {s[j] : j \in 1..(k - 1)} \union {s[k]}
    <2>1. 1..k = (1..(k - 1)) \union {k}
        BY <1>5
    <2> HIDE DEF Bad, P
    <2> QED
        BY Zenon, <2>1
<1>7. g[k] = IF s[k] \in S THEN g[k - 1] ELSE Append(g[k - 1], s[k])
    BY <1>5 DEF Kept
<1>8. Range(Append(g[k - 1], s[k])) = Range(g[k - 1]) \union {s[k]}
    BY <1>5, AppendRange
<1>9. P(k)
    BY <1>5, <1>6, <1>7, <1>8
<1> QED
    BY Zenon, <1>3, <1>9

\* Taking threads off the list (vcxl_futex_unqueue, vcxl_futex_wake_mark) leaves
\* the others on it.
LEMMA WithoutIs ==
    ASSUME NEW T, NEW s \in Seq(T), NEW S
    PROVE  Without(s, S) \in Seq(T) /\ Range(Without(s, S)) = Range(s) \ S
<1> DEFINE f == CHOOSE f : f = [i \in 0..Len(s) |-> Kept(s, S, f, i)]
<1>0. Len(s) \in 0..Len(s)
    OBVIOUS
<1>1. \E g : g = [i \in 0..Len(s) |-> Kept(s, S, g, i)]
    <2>1. PICK g \in [0..Len(s) -> Seq(T)] : \A i \in 0..Len(s) : g[i] = Kept(s, S, g, i)
        <3>1. Filterable(T, s, S, Len(s))
            BY Zenon, <1>0, FilterExists
        <3> QED
            BY Zenon, <3>1 DEF Filterable, Filters
    <2>2. g = [i \in 0..Len(s) |-> Kept(s, S, g, i)]
        BY Zenon, <2>1
    <2> QED
        BY Zenon, <2>2
<1>2. f = [i \in 0..Len(s) |-> Kept(s, S, f, i)]
    BY Zenon, <1>1
<1>3. Without(s, S) = f[Len(s)]
    BY Zenon DEF Without, Kept
<1> HIDE DEF f
<1>4. Filters(s, S, f, Len(s))
    BY Zenon, <1>2 DEF Filters
<1>5. KeepsRest(T, s, S, f, Len(s))
    BY Zenon, <1>0, <1>4, FilterRange
<1>6. DOMAIN s = 1..Len(s)
    OBVIOUS
<1> QED
    BY Zenon, <1>3, <1>5, <1>6 DEF Range, KeepsRest

-----------------------------------------------------------------------------
(* The bucket *)

\* The threads of a machine are finitely many, and nobody is none of them.
ThreadsFinite == IsFiniteSet(Threads) /\ NoThread \notin Threads

WaitTypeOK ==
    /\ word \in [Entries -> Nat]
    /\ doorbell \in [Handlers -> Nat]
    /\ hb_lock \in Threads \union {NoThread}
    /\ chain \in Seq(Threads)
    /\ tpc \in [Threads -> {"user", "count", "lock", "load", "queue", "asleep", "woken"}]
    /\ key \in [Threads -> Entries \union {NoEntry}]
    /\ value \in [Threads -> Nat]
    /\ lost \in BOOLEAN
    /\ crashes \in Nat

\* Who the callers are.
LEMMA CallersAre ==
    /\ Remote \subseteq Callers /\ Local \subseteq Callers /\ Handlers \subseteq Callers
    /\ \A c \in Callers : c \in Remote \/ c \in Local \/ c \in Handlers
BY Zenon, FutexAssumption DEF FutexAssumption

\* A thread that waits, sleeps or returns (handle_vcxl_cond_wait) touches neither
\* the queue nor the word, and the list only to enter or to leave it.
LEMMA WaitFrame ==
    ASSUME NEW t, WaitStep(t)
    PROVE  /\ UNCHANGED <<read, write, data, item, pc>>
           /\ UNCHANGED <<word, doorbell, lost, crashes>>
           /\ chain' = chain \/ chain' = Append(chain, t) \/ chain' = Without(chain, {t})
<1>1. ASSUME NEW o, do_vcxl_cond_wait(t, o)
      PROVE  UNCHANGED <<read, write, data, item, pc, word, doorbell, lost, crashes, chain>>
    BY Zenon, <1>1 DEF do_vcxl_cond_wait, queueVars
<1>2. ASSUME waiters_inc(t) \/ vcxl_futex_q_lock(t)
      PROVE  UNCHANGED <<read, write, data, item, pc, word, doorbell, lost, crashes, chain>>
    BY Zenon, <1>2 DEF waiters_inc, vcxl_futex_q_lock, queueVars
<1>3. ASSUME wait_setup(t) \/ woken(t)
      PROVE  UNCHANGED <<read, write, data, item, pc, word, doorbell, lost, crashes, chain>>
    BY Zenon, <1>3 DEF wait_setup, woken, queueVars
<1>4. ASSUME wait_queue(t)
      PROVE  UNCHANGED <<read, write, data, item, pc, word, doorbell, lost, crashes>> /\ chain' = Append(chain, t)
    BY Zenon, <1>4 DEF wait_queue, queueVars
<1>5. ASSUME unqueue(t)
      PROVE  UNCHANGED <<read, write, data, item, pc, word, doorbell, lost, crashes>> /\ chain' = Without(chain, {t})
    BY Zenon, <1>5 DEF unqueue, queueVars
<1> QED
    BY Zenon, <1>1, <1>2, <1>3, <1>4, <1>5 DEF WaitStep

\* A thread that waits, sleeps or returns (handle_vcxl_cond_wait) keeps the list,
\* the count and the lock of the bucket true.
LEMMA BucketWait ==
    ASSUME ThreadsFinite, WaitTypeOK, BucketTrue, NEW t \in Threads, WaitStep(t)
    PROVE  WaitTypeOK' /\ BucketTrue'
<1> USE DEF WaitTypeOK
<1>0. /\ IsFiniteSet(Threads) /\ NoThread \notin Threads
      /\ IsFiniteSet(Counted) /\ Cardinality(Counted) \in Nat /\ waiters = Cardinality(Counted)
    BY Zenon, FS_Subset, FS_CardinalityType DEF ThreadsFinite, Counted, BucketTrue
<1>1. /\ IsFiniteSet(Counted) => Cardinality(Counted \union {t}) = IF t \in Counted THEN waiters ELSE waiters + 1
      /\ Cardinality(Counted \ {t}) = IF t \in Counted THEN waiters - 1 ELSE waiters
    BY Zenon, <1>0, FS_AddElement, FS_RemoveElement
<1>2. CASE \E o \in Entries : do_vcxl_cond_wait(t, o)
    <2>1. PICK o \in Entries : do_vcxl_cond_wait(t, o)
        BY Zenon, <1>2
    <2>2. WaitTypeOK'
        BY Zenon, <2>1 DEF do_vcxl_cond_wait, TGoto
    <2>3. Counted' = Counted /\ Sleepers' = Sleepers
        BY Zenon, <2>1 DEF do_vcxl_cond_wait, TGoto, Counted, Sleepers
    <2> QED
        BY Zenon, <2>1, <2>2, <2>3 DEF do_vcxl_cond_wait, TGoto, BucketTrue
<1>3. CASE waiters_inc(t)
    <2>1. WaitTypeOK'
        BY Zenon, <1>3 DEF waiters_inc, TGoto
    <2>2. Counted' = Counted \union {t} /\ t \notin Counted /\ Sleepers' = Sleepers
        BY Zenon, <1>3 DEF waiters_inc, TGoto, Counted, Sleepers
    <2>3. waiters' = Cardinality(Counted')
        BY Zenon, <1>0, <1>1, <1>3, <2>2 DEF waiters_inc
    <2> QED
        BY Zenon, <1>3, <2>1, <2>2, <2>3 DEF waiters_inc, TGoto, BucketTrue
<1>4. CASE vcxl_futex_q_lock(t)
    <2>1. WaitTypeOK'
        BY Zenon, <1>4 DEF vcxl_futex_q_lock, TGoto
    <2>2. Counted' = Counted /\ Sleepers' = Sleepers
        BY Zenon, <1>4 DEF vcxl_futex_q_lock, TGoto, Counted, Sleepers
    <2> QED
        BY Zenon, <1>0, <1>4, <2>1, <2>2 DEF vcxl_futex_q_lock, TGoto, BucketTrue
<1>5. CASE wait_setup(t) /\ word[key[t]] = value[t]
    <2>1. WaitTypeOK'
        BY Zenon, <1>5 DEF wait_setup, TGoto
    <2>2. Counted' = Counted /\ Sleepers' = Sleepers
        BY Zenon, <1>5 DEF wait_setup, TGoto, Counted, Sleepers
    <2> QED
        BY Zenon, <1>5, <2>1, <2>2 DEF wait_setup, TGoto, BucketTrue
<1>6. CASE wait_setup(t) /\ word[key[t]] # value[t]
    <2>1. WaitTypeOK'
        <3>1. /\ tpc' = [tpc EXCEPT ![t] = "user"] /\ key' = [key EXCEPT ![t] = NoEntry]
              /\ value' = [value EXCEPT ![t] = 0] /\ hb_lock' = NoThread
              /\ UNCHANGED <<word, doorbell, chain, lost, crashes>>
            BY Zenon, <1>6 DEF wait_setup, Return, TGoto
        <3> QED
            BY Zenon, <3>1
    <2>2. Counted' = Counted \ {t} /\ t \in Counted /\ Sleepers' = Sleepers
        BY Zenon, <1>6 DEF wait_setup, Return, TGoto, Counted, Sleepers
    <2>3. waiters' = Cardinality(Counted')
        BY Zenon, <1>0, <1>1, <1>6, <2>2 DEF wait_setup
    <2>4. \A u \in Threads \ {t} : tpc[u] \notin {"load", "queue"}
        BY Zenon, <1>6 DEF wait_setup, BucketTrue
    <2> QED
        BY ZenonT(30), <1>6, <2>1, <2>2, <2>3, <2>4 DEF wait_setup, Return, TGoto, BucketTrue
<1>7. CASE wait_queue(t)
    <2>1. WaitTypeOK'
        BY <1>7 DEF wait_queue, TGoto
    <2>2. Counted' = Counted /\ Sleepers' = Sleepers \union {t}
        BY Zenon, <1>7 DEF wait_queue, TGoto, Counted, Sleepers
    <2>3. Range(chain') = Range(chain) \union {t}
        BY <1>7, AppendRange DEF wait_queue
    <2>4. \A u \in Threads \ {t} : tpc[u] \notin {"load", "queue"}
        BY Zenon, <1>7 DEF wait_queue, BucketTrue
    <2> QED
        BY Zenon, <1>7, <2>1, <2>2, <2>3, <2>4 DEF wait_queue, TGoto, BucketTrue
<1>8. CASE woken(t)
    <2>1. WaitTypeOK'
        BY Zenon, <1>8 DEF woken, Return, TGoto
    <2>2. Counted' = Counted /\ Sleepers' = Sleepers
        BY Zenon, <1>8 DEF woken, Return, TGoto, Counted, Sleepers
    <2> QED
        BY Zenon, <1>8, <2>1, <2>2 DEF woken, Return, TGoto, BucketTrue
<1>9. CASE unqueue(t)
    <2>1. chain' \in Seq(Threads) /\ Range(chain') = Range(chain) \ {t}
        BY Zenon, <1>9, WithoutIs DEF unqueue
    <2>2. WaitTypeOK'
        <3>1. \E l \in {"user", "count"} : tpc' = [tpc EXCEPT ![t] = l]
            BY Zenon, <1>9 DEF unqueue, Return, TGoto
        <3>2. /\ key' = [key EXCEPT ![t] = NoEntry] \/ key' = key
              /\ value' = [value EXCEPT ![t] = 0] \/ value' = value
              /\ UNCHANGED <<word, doorbell, hb_lock, lost, crashes>>
            BY Zenon, <1>9 DEF unqueue, Return, TGoto
        <3> QED
            BY <2>1, <3>1, <3>2
    <2>3. Counted' = Counted \ {t} /\ t \in Counted /\ Sleepers' = Sleepers \ {t}
        BY Zenon, <1>9 DEF unqueue, Return, TGoto, Counted, Sleepers
    <2>4. waiters' = Cardinality(Counted')
        BY Zenon, <1>0, <1>1, <1>9, <2>3 DEF unqueue
    <2> QED
        BY Zenon, <1>9, <2>1, <2>2, <2>3, <2>4 DEF unqueue, Return, TGoto, BucketTrue
<1> QED
    BY ZenonT(30), <1>2, <1>3, <1>4, <1>5, <1>6, <1>7, <1>8, <1>9 DEF WaitStep, wait_setup

\* A scan takes sleepers on its offset, and an ALL scan every one of them (wake_proc).
LEMMA ToWakeIs ==
    ASSUME NEW c
    PROVE  /\ ToWake(c) \subseteq Range(chain)
           /\ \A t \in ToWake(c) : key[t] = item[c]
           /\ WakeType[c] = "ALL" => \A t \in Range(chain) : key[t] = item[c] => t \in ToWake(c)
BY Zenon DEF ToWake, Range

\* The sleepers that a scan wakes leave the list and the count together
\* (vcxl_futex_wake_mark).
LEMMA BucketScan ==
    ASSUME ThreadsFinite, WaitTypeOK, BucketTrue, NEW c \in Callers, wake_proc(c)
    PROVE  WaitTypeOK' /\ BucketTrue'
<1> DEFINE W == ToWake(c)
<1>1. W \subseteq Sleepers /\ Sleepers \subseteq Counted /\ Counted \subseteq Threads
    BY ZenonT(30), ToWakeIs DEF BucketTrue, Sleepers, Counted
<1>2. /\ chain' = Without(chain, W) /\ waiters' = waiters - Cardinality(W) /\ hb_lock = NoThread
      /\ tpc' = [t \in Threads |-> IF t \in W THEN "woken" ELSE tpc[t]]
      /\ key' = [t \in Threads |-> IF t \in W THEN NoEntry ELSE key[t]]
      /\ value' = [t \in Threads |-> IF t \in W THEN 0 ELSE value[t]]
      /\ UNCHANGED <<word, doorbell, hb_lock, lost, crashes>>
    BY Zenon DEF wake_proc
<1> HIDE DEF W
<1>3. chain' \in Seq(Threads) /\ Range(chain') = Range(chain) \ W
    BY Zenon, <1>2, WithoutIs DEF WaitTypeOK
<1>4. WaitTypeOK'
    BY Zenon, <1>2, <1>3 DEF WaitTypeOK
<1>5. Counted' = Counted \ W /\ Sleepers' = Sleepers \ W
    BY Zenon, <1>2 DEF Counted, Sleepers
<1>6. Cardinality(Counted \ W) = Cardinality(Counted) - Cardinality(W)
    <2>1. IsFiniteSet(Counted) /\ Counted \intersect W = W
        BY Zenon, <1>1, FS_Subset DEF ThreadsFinite
    <2> QED
        BY Zenon, <2>1, FS_Difference
<1> QED
    BY Zenon, <1>1, <1>2, <1>3, <1>4, <1>5, <1>6 DEF BucketTrue

\* Every step keeps the list, the count and the lock of the bucket true.
LEMMA BucketStep ==
    ASSUME ThreadsFinite, WaitTypeOK, BucketTrue, Next
    PROVE  WaitTypeOK' /\ BucketTrue'
<1>1. ASSUME UNCHANGED <<waiters, hb_lock, chain, tpc, key, value>>,
             word' \in [Entries -> Nat], doorbell' \in [Handlers -> Nat], lost' \in BOOLEAN, crashes' \in Nat
      PROVE  WaitTypeOK' /\ BucketTrue'
    BY Zenon, <1>1 DEF WaitTypeOK, BucketTrue, Counted, Sleepers
<1>2. ASSUME NEW c \in Callers, (QueueStep(c) /\ UNCHANGED futexVars) \/ Refused(c) \/ waiters_pending(c)
      PROVE  WaitTypeOK' /\ BucketTrue'
    BY Zenon, <1>1, <1>2 DEF Refused, waiters_pending, futexVars, WaitTypeOK
<1>3. ASSUME NEW c \in Callers, NEW o \in Entries, WakeRemote(c, o) \/ WakeLocal(c, o)
      PROVE  WaitTypeOK' /\ BucketTrue'
    <2>1. word' = [word EXCEPT ![o] = @ + 1] /\ UNCHANGED <<doorbell, waiters, hb_lock, chain, tpc, key, value, lost, crashes>>
        BY Zenon, <1>3 DEF WakeRemote, WakeLocal
    <2> QED
        BY <1>1, <2>1 DEF WaitTypeOK
<1>4. ASSUME NEW c \in Callers, RingDoorbell(c) PROVE WaitTypeOK' /\ BucketTrue'
    <2>1. doorbell' \in [Handlers -> Nat]
        <3>1. \A h \in Handlers : doorbell[h] \in Nat /\ doorbell[h] + 1 \in Nat
            BY DEF WaitTypeOK
        <3>2. /\ doorbell' = [h \in Handlers |-> doorbell'[h]]
              /\ \A h \in Handlers : doorbell'[h] \in {doorbell[h], 1, doorbell[h] + 1}
            BY Zenon, <1>4 DEF RingDoorbell
        <3> QED
            BY <3>1, <3>2
    <2> QED
        BY Zenon, <1>1, <1>4, <2>1 DEF RingDoorbell, WaitTypeOK
<1>5. ASSUME NEW h \in Handlers, Interrupt(h) PROVE WaitTypeOK' /\ BucketTrue'
    <2>1. doorbell' \in [Handlers -> Nat]
        BY <1>5 DEF Interrupt, WaitTypeOK
    <2> QED
        BY Zenon, <1>1, <1>5, <2>1 DEF Interrupt, WaitTypeOK
<1>6. ASSUME NEW c \in Callers, CrashWaker(c) PROVE WaitTypeOK' /\ BucketTrue'
    <2>1. crashes' \in Nat /\ lost' \in BOOLEAN
        BY <1>6 DEF CrashWaker, WaitTypeOK
    <2> QED
        BY Zenon, <1>1, <1>6, <2>1 DEF CrashWaker, WaitTypeOK
<1>7. CASE CrashWaiter
    <2>1. chain' = <<>> /\ waiters' = 0 /\ hb_lock' = NoThread /\ word' = word
        BY Zenon, <1>7 DEF CrashWaiter
    <2>2. /\ doorbell' = [h \in Handlers |-> 0] /\ tpc' = [t \in Threads |-> "user"]
          /\ key' = [t \in Threads |-> NoEntry] /\ value' = [t \in Threads |-> 0]
        BY Zenon, <1>7 DEF CrashWaiter
    <2>3. crashes' \in Nat /\ lost' \in BOOLEAN
        BY <1>7 DEF CrashWaiter, WaitTypeOK
    <2>4. WaitTypeOK'
        <3>1. chain' \in Seq(Threads)
            BY <2>1
        <3>2. /\ doorbell' \in [Handlers -> Nat] /\ key' \in [Threads -> Entries \union {NoEntry}]
              /\ tpc' \in [Threads -> {"user", "count", "lock", "load", "queue", "asleep", "woken"}]
              /\ value' \in [Threads -> Nat]
            BY Zenon, <2>2
        <3> QED
            BY Zenon, <2>1, <2>3, <3>1, <3>2 DEF WaitTypeOK
    <2>5. Counted' = {} /\ Sleepers' = {}
        BY Zenon, <2>2 DEF Counted, Sleepers
    <2>6. Range(chain') = {}
        BY <2>1 DEF Range
    <2> QED
        BY Zenon, <2>1, <2>2, <2>4, <2>5, <2>6, FS_EmptySet DEF BucketTrue
<1> QED
    BY Zenon, <1>2, <1>3, <1>4, <1>5, <1>6, <1>7, BucketWait, BucketScan, CallersAre DEF Next

\* At the start nobody sleeps and the bucket is empty.
LEMMA BucketInit ==
    ASSUME Init
    PROVE  WaitTypeOK /\ BucketTrue
<1> USE DEF Init, QueueInit
<1>1. WaitTypeOK
    <2>1. chain \in Seq(Threads)
        OBVIOUS
    <2>2. hb_lock \in Threads \union {NoThread} /\ lost \in BOOLEAN /\ crashes \in Nat
        BY Zenon
    <2>3. /\ word \in [Entries -> Nat] /\ doorbell \in [Handlers -> Nat]
          /\ tpc \in [Threads -> {"user", "count", "lock", "load", "queue", "asleep", "woken"}]
          /\ key \in [Threads -> Entries \union {NoEntry}] /\ value \in [Threads -> Nat]
        BY Zenon
    <2> QED
        BY Zenon, <2>1, <2>2, <2>3 DEF WaitTypeOK
<1>2. BucketTrue
    <2>1. Counted = {} /\ Range(<<>>) = {}
        BY DEF Counted, Range
    <2>2. Sleepers = {}
        BY Zenon DEF Sleepers
    <2> QED
        BY Zenon, <2>1, <2>2, FS_EmptySet DEF BucketTrue
<1> QED
    BY Zenon, <1>1, <1>2

\* vcxl_futex_hb_waiters_inc, vcxl_futex_queue, vcxl_futex_unqueue and
\* vcxl_futex_wake_mark: the list of the bucket is exactly the sleepers, its count
\* exactly the threads between their announcement and their return, and the lock is
\* held by whoever compares the word and goes to sleep, whatever the kinds of
\* wake-ups, with doorbells that merge and crashes anywhere.
THEOREM BucketIsTrue ==
    ASSUME ThreadsFinite
    PROVE  Spec => []BucketTrue
<1>1. Init => WaitTypeOK /\ BucketTrue
    BY Zenon, BucketInit
<1>2. WaitTypeOK /\ BucketTrue /\ [Next]_vars => (WaitTypeOK /\ BucketTrue)'
    <2>1. ASSUME WaitTypeOK, BucketTrue, UNCHANGED vars PROVE WaitTypeOK' /\ BucketTrue'
        BY Zenon, <2>1 DEF vars, futexVars, WaitTypeOK, BucketTrue, Counted, Sleepers
    <2> QED
        BY Zenon, <2>1, BucketStep
<1> QED
    BY <1>1, <1>2, PTL DEF Spec

\* When nobody is counted nobody is on the way to sleep (waiters_pending).
LEMMA NobodyCounted ==
    ASSUME ThreadsFinite, BucketTrue, waiters = 0
    PROVE  Counted = {}
<1>1. IsFiniteSet(Counted)
    BY Zenon, FS_Subset DEF ThreadsFinite, Counted
<1> QED
    BY <1>1, FS_EmptySet, Zenon DEF BucketTrue

-----------------------------------------------------------------------------
(***************************************************************************)
(* No sleeper misses the change of its word, for any number of threads,    *)
(* wakers and offsets, any size of the ring and crashes between wake-ups.  *)
(*                                                                         *)
(* A wake-up passes through five hands: the waker that has changed the     *)
(* word, the queue, the doorbell, the interrupt handler and the scan of    *)
(* the bucket.  The inductive invariant says that one of them has it as    *)
(* long as a thread that needs it sleeps, and that the interrupts that     *)
(* are still to come suffice to empty the queue.                           *)
(***************************************************************************)

\* What NoMissedWake needs of a configuration: the ids in the lock differ, there is
\* one kind of wake-up and a handler for it, every doorbell raises an interrupt, and
\* the wakers in the queue are on other machines.
EveryBellCounts ==
    /\ DistinctIdentities
    /\ \A c \in Callers : WakeType[c] = "ALL"
    /\ Coalesced = FALSE
    /\ Handlers # {}
    /\ Remote \cap (Local \union Handlers) = {}
    /\ IsFiniteSet(Remote)
    /\ ThreadsFinite

\* Wakers of other machines put entries in and handlers take them out.
Roles ==
    \A c \in Callers :
        /\ pc[c] \in InCall => (c \in Remote /\ op[c] = "enqueue") \/ (c \in Handlers /\ op[c] = "dequeue")
        /\ pc[c] = "scan" => c \in Handlers \union Local

\* The wakers whose entry is in the queue and whose doorbell has not rung yet.
Unrung == {c \in Remote : pc[c] \in {"unlock", "returned"}}

\* A handler that has taken an interrupt and no entry yet.
Taking(h) == pc[h] \in {"recover", "spin", "load", "data", "store"}

\* Every entry in the queue has an interrupt, for every handler.
BellsCover ==
    \A h \in Handlers :
        Size(read, write) <= doorbell[h] + (IF Taking(h) THEN 1 ELSE 0) + Cardinality(Unrung)

\* The offset is in the queue.
InQueue(o) == \E i \in 1..Size(read, write) : Entry(data, read, i) = o

\* A wake-up for the offset is on its way: not yet in the queue, in it, or taken
\* out of it (or begun on the sleepers' machine) and not yet carried out.
OnItsWay(o) ==
    \/ \E c \in Remote : item[c] = o /\ pc[c] \in InCall \ {"unlock"}
    \/ InQueue(o)
    \/ \E c \in Handlers \union Local : item[c] = o /\ pc[c] \in {"unlock", "returned", "scan"}

\* Whoever sleeps, or is about to, on a value that has changed is about to be woken.
WakeComing ==
    \A t \in Threads : tpc[t] \in {"queue", "asleep"} /\ word[key[t]] # value[t] => OnItsWay(key[t])

WakeInv == WaitTypeOK /\ BucketTrue /\ Roles /\ (~lost => BellsCover /\ WakeComing)

\* At the start nobody sleeps and nothing is in the queue.
LEMMA WakeInit ==
    ASSUME EveryBellCounts, Init
    PROVE  WakeInv
<1> USE DEF Init, QueueInit
<1>1. WaitTypeOK /\ BucketTrue
    BY Zenon, BucketInit
<1>3. Roles
    BY Zenon DEF Roles, InCall
<1>4. BellsCover
    <2>1. Size(read, write) = 0 /\ Unrung = {}
        BY CallersAre DEF Size, Unrung
    <2> QED
        BY <2>1, FS_EmptySet, CallersAre DEF BellsCover, Taking
<1>5. WakeComing
    BY Zenon DEF WakeComing
<1> QED
    BY Zenon, <1>1, <1>3, <1>4, <1>5 DEF WakeInv

\* Every step leaves callers in the roles they have.
LEMMA RolesStep ==
    ASSUME EveryBellCounts, RingInv, Roles, Next
    PROVE  Roles'
<1> USE CallersAre DEF Roles, RingInv, RingTypeOK, InCall
<1>1. ASSUME NEW t \in Threads, WaitStep(t) PROVE Roles'
    <2>1. UNCHANGED <<pc, op>>
        BY Zenon, <1>1 DEF WaitStep, do_vcxl_cond_wait, waiters_inc, vcxl_futex_q_lock, wait_setup, wait_queue,
                    woken, unqueue, queueVars
    <2> QED
        BY Zenon, <2>1
<1>2. ASSUME NEW c \in Callers, QueueStep(c) PROVE Roles'
    BY Zenon, <1>2 DEF QueueStep, ttas_recover, ttas_enter, load_position, move_data, store_position, cq_unlock,
                Goto, queueVars
<1>3. ASSUME NEW c \in Callers, Refused(c) PROVE Roles'
    BY Zenon, <1>3 DEF Refused, Call, Goto, queueVars
<1>4. ASSUME NEW c \in Remote, NEW o \in Entries, WakeRemote(c, o) PROVE Roles'
    BY Zenon, <1>4 DEF WakeRemote, Call, Goto
<1>5. ASSUME NEW c \in Remote, RingDoorbell(c) PROVE Roles'
    BY Zenon, <1>5 DEF RingDoorbell, Goto
<1>6. ASSUME NEW c \in Local, NEW o \in Entries, WakeLocal(c, o) PROVE Roles'
    BY Zenon, <1>6 DEF WakeLocal, Goto
<1>7. ASSUME NEW h \in Handlers, Interrupt(h) PROVE Roles'
    BY Zenon, <1>7 DEF Interrupt, Call, Goto
<1>8. ASSUME NEW c \in Handlers \union Local, waiters_pending(c) \/ wake_proc(c) PROVE Roles'
    BY Zenon, <1>8 DEF waiters_pending, wake_proc, Goto
<1>9. ASSUME NEW S, QueueForget(S) PROVE Roles'
    BY Zenon, <1>9 DEF QueueForget
<1> QED
    BY Zenon, <1>1, <1>2, <1>3, <1>4, <1>5, <1>6, <1>7, <1>8, <1>9 DEF Next, CrashWaker, CrashWaiter

-----------------------------------------------------------------------------
\* How many wakers are about to ring is a number, and rings count down.
LEMMA UnrungCounts ==
    ASSUME EveryBellCounts, NEW c
    PROVE  /\ Cardinality(Unrung) \in Nat /\ Cardinality(Unrung') \in Nat
           /\ Unrung' = Unrung \union {c} /\ c \notin Unrung => Cardinality(Unrung') = Cardinality(Unrung) + 1
           /\ Unrung' = Unrung \ {c} /\ c \in Unrung => Cardinality(Unrung') = Cardinality(Unrung) - 1
<1>1. IsFiniteSet(Remote) /\ Unrung \subseteq Remote /\ Unrung' \subseteq Remote
    BY Zenon DEF EveryBellCounts, Unrung
<1>2. IsFiniteSet(Unrung) /\ IsFiniteSet(Unrung')
    BY Zenon, <1>1, FS_Subset
<1> QED
    BY <1>2, FS_CardinalityType, FS_AddElement, FS_RemoveElement

\* circular_queue_enqueue and circular_queue_dequeue: an entry comes with a bell
\* to ring, and leaves with the interrupt that took it.
LEMMA BellsCall ==
    ASSUME EveryBellCounts, RingInv, WaitTypeOK, Roles, BellsCover, NEW c \in Callers, QueueStep(c),
           doorbell' = doorbell
    PROVE  BellsCover'
<1> USE CallersAre
<1>0. /\ Size(read, write) \in Nat
      /\ \A h \in Handlers : doorbell[h] \in Nat
      /\ c \in Remote => c \notin Handlers
      /\ pc \in [Callers -> InCall \union {"idle", "returned", "scan"}]
    BY Zenon, ContentsIs DEF RingInv, RingTypeOK, WaitTypeOK, EveryBellCounts
<1>1. ASSUME Size(read', write') = Size(read, write), Unrung' = Unrung,
             \A h \in Handlers : Taking(h)' <=> Taking(h)
      PROVE  BellsCover'
    BY Zenon, <1>1 DEF BellsCover
<1>2. ASSUME Size(read', write') = 0 PROVE BellsCover'
    BY <1>0, <1>2, UnrungCounts DEF BellsCover
<1>3. CASE ttas_recover(c) \/ ttas_enter(c) \/ move_data(c)
    <2>1. UNCHANGED <<read, write>>
        BY Zenon, <1>3 DEF ttas_recover, ttas_enter, move_data, queueVars
    <2>2. Unrung' = Unrung /\ \A h \in Handlers : Taking(h)' <=> Taking(h)
        BY Zenon, <1>0, <1>3 DEF ttas_recover, ttas_enter, move_data, Goto, Unrung, Taking
    <2> QED
        BY Zenon, <1>1, <2>1, <2>2
<1>4. CASE load_position(c)
    <2>1. read' = read /\ write' = write /\ Unrung' = Unrung
        BY Zenon, <1>0, <1>4 DEF load_position, Goto, Unrung
    <2>2. CASE c \in Handlers /\ Empty(read, write)
        <3>1. Size(read, write) = 0
            BY <2>2, <1>0 DEF Empty, Size, RingInv, RingTypeOK, Positions
        <3> QED
            BY Zenon, <1>2, <2>1, <3>1
    <2>3. CASE ~(c \in Handlers /\ Empty(read, write))
        <3>1. c \in Handlers => pc'[c] = "data"
            BY Zenon, <1>0, <1>4, <2>3 DEF load_position, Goto, Roles, InCall, EveryBellCounts
        <3>2. \A h \in Handlers : Taking(h)' <=> Taking(h)
            BY Zenon, <1>0, <1>4, <3>1 DEF load_position, Goto, Taking
        <3> QED
            BY Zenon, <1>1, <2>1, <3>2
    <2> QED
        BY Zenon, <2>2, <2>3
<1>5. CASE store_position(c) /\ c \in Remote
    <2>1. op[c] = "enqueue" /\ c \notin Handlers
        BY Zenon, <1>0, <1>5 DEF store_position, Roles, InCall
    <2>2. read' = read /\ write' = NextPosition(write) /\ NextPosition(write) # read
        BY Zenon, <1>5, <2>1 DEF store_position, RingInv, LoadedCurrent, Full
    <2>3. Size(read', write') = Size(read, write) + 1
        BY Zenon, <2>2, Grows DEF RingInv, RingTypeOK
    <2>4. Unrung' = Unrung \union {c} /\ c \notin Unrung /\ \A h \in Handlers : Taking(h)' <=> Taking(h)
        BY Zenon, <1>0, <1>5, <2>1 DEF store_position, Goto, Unrung, Taking
    <2>5. Cardinality(Unrung) \in Nat /\ Cardinality(Unrung') = Cardinality(Unrung) + 1
        BY Zenon, <2>4, UnrungCounts
    <2> QED
        BY <1>0, <2>3, <2>4, <2>5 DEF BellsCover
<1>6. CASE store_position(c) /\ c \notin Remote
    <2>1. op[c] = "dequeue" /\ c \in Handlers
        BY Zenon, <1>0, <1>6 DEF store_position, Roles, InCall
    <2>2. write' = write /\ read' = NextPosition(read) /\ write # read
        BY Zenon, <1>6, <2>1 DEF store_position, RingInv, LoadedCurrent, Empty
    <2>3. Size(read', write') = Size(read, write) - 1
        BY Zenon, <2>2, Shrinks DEF RingInv, RingTypeOK
    <2>4. Unrung' = Unrung /\ Taking(c) /\ \A h \in Handlers \ {c} : Taking(h)' <=> Taking(h)
        BY Zenon, <1>0, <1>6 DEF store_position, Goto, Unrung, Taking
    <2>5. Cardinality(Unrung) \in Nat
        BY Zenon, UnrungCounts
    <2> QED
        BY <1>0, <2>3, <2>4, <2>5 DEF BellsCover
<1>7. CASE cq_unlock(c)
    <2>1. UNCHANGED <<read, write>>
        BY Zenon, <1>7 DEF cq_unlock
    <2>2. Unrung' = Unrung /\ \A h \in Handlers : Taking(h)' <=> Taking(h)
        BY Zenon, <1>0, <1>7 DEF cq_unlock, Goto, Unrung, Taking
    <2> QED
        BY Zenon, <1>1, <2>1, <2>2
<1> QED
    BY Zenon, <1>3, <1>4, <1>5, <1>6, <1>7 DEF QueueStep

\* Every step that loses no wake-up leaves enough interrupts to empty the queue.
LEMMA BellsStep ==
    ASSUME EveryBellCounts, RingInv, WaitTypeOK, Roles, BellsCover, ~lost', Next
    PROVE  BellsCover'
<1> USE CallersAre
<1>0. /\ Size(read, write) \in Nat /\ Cardinality(Unrung) \in Nat
      /\ \A h \in Handlers : doorbell[h] \in Nat
      /\ \A c \in Remote : c \notin Handlers \union Local
      /\ pc \in [Callers -> InCall \union {"idle", "returned", "scan"}]
    BY Zenon, ContentsIs, UnrungCounts DEF RingInv, RingTypeOK, WaitTypeOK, EveryBellCounts
<1>1. ASSUME UNCHANGED <<read, write, doorbell>>, Unrung' = Unrung,
             \A h \in Handlers : Taking(h)' <=> Taking(h)
      PROVE  BellsCover'
    BY Zenon, <1>1 DEF BellsCover
<1>2. ASSUME NEW t \in Threads, WaitStep(t) PROVE BellsCover'
    <2>1. UNCHANGED <<read, write, doorbell, pc>>
        BY Zenon, <1>2, WaitFrame
    <2> QED
        BY Zenon, <1>1, <2>1 DEF Unrung, Taking
<1>3. ASSUME NEW c \in Callers, QueueStep(c), UNCHANGED futexVars PROVE BellsCover'
    BY Zenon, <1>3, BellsCall DEF futexVars
<1>4. ASSUME NEW c \in Callers, Refused(c) PROVE BellsCover'
    <2>1. UNCHANGED <<read, write, doorbell>>
        BY Zenon, <1>4 DEF Refused, Call, queueVars, futexVars
    <2>2. Unrung' = Unrung /\ \A h \in Handlers : Taking(h)' <=> Taking(h)
        BY Zenon, <1>0, <1>4 DEF Refused, Call, Goto, Unrung, Taking
    <2> QED
        BY Zenon, <1>1, <2>1, <2>2
<1>5. ASSUME NEW c \in Remote, NEW o \in Entries, WakeRemote(c, o) PROVE BellsCover'
    <2>1. UNCHANGED <<read, write, doorbell>>
        BY Zenon, <1>5 DEF WakeRemote, Call
    <2>2. Unrung' = Unrung /\ \A h \in Handlers : Taking(h)' <=> Taking(h)
        BY Zenon, <1>0, <1>5 DEF WakeRemote, Call, Goto, Unrung, Taking
    <2> QED
        BY Zenon, <1>1, <2>1, <2>2
<1>6. ASSUME NEW c \in Remote, RingDoorbell(c) PROVE BellsCover'
    <2>1. UNCHANGED <<read, write>> /\ \A h \in Handlers : doorbell'[h] = doorbell[h] + 1
        BY Zenon, <1>6 DEF RingDoorbell, EveryBellCounts
    <2>2. Unrung' = Unrung \ {c} /\ c \in Unrung /\ \A h \in Handlers : Taking(h)' <=> Taking(h)
        BY Zenon, <1>0, <1>6 DEF RingDoorbell, Goto, Unrung, Taking
    <2>3. Cardinality(Unrung') = Cardinality(Unrung) - 1
        BY Zenon, <2>2, UnrungCounts
    <2> QED
        BY <1>0, <2>1, <2>2, <2>3 DEF BellsCover
<1>7. ASSUME NEW c \in Remote, CrashWaker(c) PROVE BellsCover'
    <2>1. pc[c] = "idle" /\ UNCHANGED <<read, write, doorbell>>
        BY Zenon, <1>7 DEF CrashWaker, QueueForget
    <2>2. \A d \in Callers : pc'[d] = pc[d]
        BY Zenon, <1>7, <2>1 DEF CrashWaker, QueueForget
    <2> QED
        BY Zenon, <1>1, <2>1, <2>2 DEF Unrung, Taking
<1>8. ASSUME NEW c \in Local, NEW o \in Entries, WakeLocal(c, o) PROVE BellsCover'
    <2>1. UNCHANGED <<read, write, doorbell>>
        BY Zenon, <1>8 DEF WakeLocal
    <2>2. Unrung' = Unrung /\ \A h \in Handlers : Taking(h)' <=> Taking(h)
        BY Zenon, <1>0, <1>8 DEF WakeLocal, Goto, Unrung, Taking
    <2> QED
        BY Zenon, <1>1, <2>1, <2>2
<1>9. ASSUME NEW h \in Handlers, Interrupt(h) PROVE BellsCover'
    <2>1. /\ UNCHANGED <<read, write>> /\ doorbell'[h] = doorbell[h] - 1
          /\ \A k \in Handlers \ {h} : doorbell'[k] = doorbell[k]
        BY Zenon, <1>9 DEF Interrupt, Call, WaitTypeOK
    <2>2. /\ Unrung' = Unrung /\ ~Taking(h) /\ Taking(h)'
          /\ \A k \in Handlers \ {h} : Taking(k)' <=> Taking(k)
        BY Zenon, <1>0, <1>9 DEF Interrupt, Call, Goto, Unrung, Taking
    <2> QED
        BY <1>0, <2>1, <2>2 DEF BellsCover
<1>10. ASSUME NEW c \in Handlers \union Local, waiters_pending(c) \/ wake_proc(c) PROVE BellsCover'
    <2>1. UNCHANGED <<read, write, doorbell>>
        BY Zenon, <1>10 DEF waiters_pending, wake_proc, futexVars
    <2>2. Unrung' = Unrung /\ \A h \in Handlers : Taking(h)' <=> Taking(h)
        BY Zenon, <1>0, <1>10 DEF waiters_pending, wake_proc, Goto, Unrung, Taking
    <2> QED
        BY Zenon, <1>1, <2>1, <2>2
<1>11. CASE CrashWaiter
    <2>1. Contents = <<>> /\ UNCHANGED <<read, write>> /\ doorbell' = [h \in Handlers |-> 0]
        BY Zenon, <1>11 DEF CrashWaiter, QueueForget
    <2>2. Size(read', write') = 0
        BY Zenon, <2>1, ContentsQueue DEF RingInv
    <2>3. Cardinality(Unrung') \in Nat
        BY Zenon, UnrungCounts
    <2> QED
        BY <2>1, <2>2, <2>3 DEF BellsCover
<1> QED
    BY Zenon, <1>2, <1>3, <1>4, <1>5, <1>6, <1>7, <1>8, <1>9, <1>10, <1>11 DEF Next

-----------------------------------------------------------------------------
\* What is in the queue stays in it until a handler takes it out.
LEMMA QueueKeeps ==
    ASSUME RingInv, NEW o, InQueue(o), NEW c \in Callers, QueueStep(c)
    PROVE  InQueue(o)' \/ (store_position(c) /\ op[c] = "dequeue" /\ item[c] = o)
<1>0. PICK i \in 1..Size(read, write) : Entry(data, read, i) = o
    BY Zenon DEF InQueue
<1>1. /\ Size(read, write) \in Nat
      /\ \A j \in 1..Size(read, write) : Slot(read, j) \in Positions /\ Slot(read, j) # write
    BY Zenon, ContentsIs DEF RingInv, RingTypeOK
<1>2. CASE UNCHANGED <<read, write, data>>
    BY Zenon, <1>2 DEF InQueue, Entry
<1>3. CASE move_data(c)
    <2>1. read' = read /\ write' = write /\ w[c] = write
        BY Zenon, <1>3 DEF move_data, RingInv, LoadedCurrent
    <2>2. data'[Slot(read, i)] = data[Slot(read, i)]
        BY Zenon, <1>1, <1>3, <2>1 DEF move_data, RingInv, RingTypeOK
    <2> QED
        BY Zenon, <1>0, <2>1, <2>2 DEF InQueue, Entry
<1>4. CASE store_position(c) /\ op[c] = "enqueue"
    <2>1. read' = read /\ data' = data /\ write' = NextPosition(write) /\ NextPosition(write) # read
        BY Zenon, <1>4 DEF store_position, RingInv, LoadedCurrent, Full
    <2>2. Size(read', write') = Size(read, write) + 1
        BY Zenon, <2>1, Grows DEF RingInv, RingTypeOK
    <2>3. i \in 1..Size(read', write') /\ Entry(data', read', i) = o
        BY <1>0, <1>1, <2>1, <2>2 DEF Entry
    <2> QED
        BY Zenon, <2>3 DEF InQueue
<1>5. CASE store_position(c) /\ op[c] # "enqueue"
    <2>1. /\ write' = write /\ data' = data /\ read' = NextPosition(read) /\ write # read
          /\ item[c] = data[read] /\ op[c] = "dequeue"
        BY Zenon, <1>5 DEF store_position, RingInv, RingTypeOK, LoadedCurrent, DataMoved, Empty
    <2>2. /\ Size(read', write') = Size(read, write) - 1 /\ Slot(read, 1) = read
          /\ \A j \in 1..Size(read', write') : Slot(read', j) = Slot(read, j + 1)
        BY Zenon, <2>1, Shrinks DEF RingInv, RingTypeOK
    <2>3. CASE i = 1
        BY Zenon, <1>0, <1>5, <2>1, <2>2, <2>3 DEF Entry
    <2>4. CASE i # 1
        <3>1. i - 1 \in 1..Size(read', write') /\ (i - 1) + 1 = i
            BY <1>0, <1>1, <2>2, <2>4
        <3>2. Entry(data', read', i - 1) = o
            BY Zenon, <1>0, <2>1, <2>2, <3>1 DEF Entry
        <3> QED
            BY Zenon, <3>1, <3>2 DEF InQueue
    <2> QED
        BY Zenon, <2>3, <2>4
<1> QED
    BY Zenon, <1>2, <1>3, <1>4, <1>5 DEF QueueStep, ttas_recover, ttas_enter, load_position, cq_unlock, queueVars

\* A step inside a call passes a wake-up on: from the waker into the queue, or
\* from the queue to the handler.
LEMMA WayInCall ==
    ASSUME EveryBellCounts, RingInv, Roles, NEW o \in Entries, OnItsWay(o), NEW c \in Callers, QueueStep(c)
    PROVE  OnItsWay(o)'
<1> USE CallersAre
<1>0. /\ pc \in [Callers -> InCall \union {"idle", "returned", "scan"}]
      /\ item \in [Callers -> Entries \union {NoEntry}]
      /\ \A d \in Remote : d \notin Handlers \union Local
    BY Zenon DEF RingInv, RingTypeOK, EveryBellCounts
<1>1. \A d \in Callers \ {c} : pc'[d] = pc[d] /\ item'[d] = item[d]
    BY ZenonT(30), <1>0 DEF QueueStep, ttas_recover, ttas_enter, load_position, move_data, store_position, cq_unlock,
                Goto, queueVars
<1>2. CASE InQueue(o)
    <2>1. CASE store_position(c) /\ op[c] = "dequeue" /\ item[c] = o
        <3>1. c \in Handlers
            BY Zenon, <2>1 DEF store_position, Roles, InCall
        <3>2. pc'[c] = "unlock" /\ item'[c] = o
            BY Zenon, <1>0, <2>1 DEF store_position, Goto
        <3> QED
            BY Zenon, <3>1, <3>2 DEF OnItsWay
    <2> QED
        BY Zenon, <1>2, <2>1, QueueKeeps DEF OnItsWay
<1>3. CASE \E d \in Remote : item[d] = o /\ pc[d] \in InCall \ {"unlock"}
    <2>1. PICK d \in Remote : item[d] = o /\ pc[d] \in InCall \ {"unlock"}
        BY Zenon, <1>3
    <2>2. CASE d # c
        BY Zenon, <1>1, <2>1, <2>2 DEF OnItsWay
    <2>3. CASE d = c /\ ~store_position(c)
        <3>1. op[c] = "enqueue"
            BY Zenon, <1>0, <2>1, <2>3 DEF Roles
        <3>2. item'[c] = item[c]
            BY ZenonT(30), <2>3, <3>1 DEF QueueStep, ttas_recover, ttas_enter, load_position, move_data, cq_unlock, queueVars
        <3>3. pc'[c] \in InCall \ {"unlock"}
            BY ZenonT(30), <1>0, <2>1, <2>3 DEF QueueStep, ttas_recover, ttas_enter, load_position, move_data, cq_unlock,
                                    Goto, InCall
        <3> QED
            BY Zenon, <2>1, <2>3, <3>2, <3>3 DEF OnItsWay
    <2>4. CASE d = c /\ store_position(c)
        <3>1. op[c] = "enqueue"
            BY Zenon, <1>0, <2>1, <2>4 DEF Roles
        <3>2. /\ read' = read /\ data' = data /\ write' = NextPosition(write) /\ NextPosition(write) # read
              /\ data[write] = o
            BY Zenon, <2>1, <2>4, <3>1 DEF store_position, RingInv, LoadedCurrent, DataMoved, Full
        <3>3. /\ Size(read', write') = Size(read, write) + 1 /\ Size(read, write) \in Nat
              /\ Slot(read, Size(read, write) + 1) = write
            BY Zenon, <3>2, Grows, ContentsIs DEF RingInv, RingTypeOK
        <3>4. Size(read, write) + 1 \in 1..Size(read', write') /\ Entry(data', read', Size(read, write) + 1) = o
            BY <3>2, <3>3 DEF Entry
        <3> QED
            BY Zenon, <3>4 DEF InQueue, OnItsWay
    <2> QED
        BY Zenon, <2>2, <2>3, <2>4
<1>4. CASE \E d \in Handlers \union Local : item[d] = o /\ pc[d] \in {"unlock", "returned", "scan"}
    <2>1. PICK d \in Handlers \union Local : item[d] = o /\ pc[d] \in {"unlock", "returned", "scan"}
        BY Zenon, <1>4
    <2>2. CASE d # c
        BY Zenon, <1>1, <2>1, <2>2 DEF OnItsWay
    <2>3. CASE d = c
        <3>1. cq_unlock(c)
            BY Zenon, <2>1, <2>3 DEF QueueStep, ttas_recover, ttas_enter, load_position, move_data, store_position
        <3>2. pc'[c] = "returned" /\ item'[c] = o
            BY Zenon, <1>0, <2>1, <2>3, <3>1 DEF cq_unlock, Goto
        <3> QED
            BY Zenon, <2>1, <2>3, <3>2 DEF OnItsWay
    <2> QED
        BY Zenon, <2>2, <2>3
<1> QED
    BY Zenon, <1>2, <1>3, <1>4 DEF OnItsWay

\* A step of a caller outside the queue's calls takes no other wake-up away.
LEMMA WayElsewhere ==
    ASSUME NEW o, OnItsWay(o), NEW c, UNCHANGED <<read, write, data>>,
           \A d \in Callers \ {c} : pc'[d] = pc[d] /\ item'[d] = item[d],
           c \in Remote => pc[c] \notin InCall \ {"unlock"} \/ item[c] # o
                           \/ (pc'[c] \in InCall \ {"unlock"} /\ item'[c] = o),
           c \in Handlers \union Local => pc[c] \notin {"unlock", "returned", "scan"} \/ item[c] # o
                           \/ (pc'[c] \in {"unlock", "returned", "scan"} /\ item'[c] = o)
    PROVE  OnItsWay(o)'
<1>1. InQueue(o) => InQueue(o)'
    BY Zenon DEF InQueue, Entry
<1>2. ASSUME NEW d \in Remote, item[d] = o, pc[d] \in InCall \ {"unlock"}
      PROVE  item'[d] = o /\ pc'[d] \in InCall \ {"unlock"}
    BY Zenon, <1>2, CallersAre
<1>3. ASSUME NEW d \in Handlers \union Local, item[d] = o, pc[d] \in {"unlock", "returned", "scan"}
      PROVE  item'[d] = o /\ pc'[d] \in {"unlock", "returned", "scan"}
    BY Zenon, <1>3, CallersAre
<1> QED
    BY Zenon, <1>1, <1>2, <1>3 DEF OnItsWay

\* WakeComing after a step, thread by thread.
LEMMA ComingNext ==
    ASSUME \A t \in Threads : tpc'[t] \in {"queue", "asleep"} /\ word'[key'[t]] # value'[t]
                             => \E o \in Entries : o = key'[t] /\ OnItsWay(o)'
    PROVE  WakeComing'
BY DEF WakeComing, OnItsWay, InQueue, Entry

\* Threads that are in the middle of a wait see the same wake-ups coming.
LEMMA ComingWait ==
    ASSUME WaitTypeOK, BucketTrue, WakeComing, NEW t \in Threads, WaitStep(t)
    PROVE  WakeComing'
<1>1. UNCHANGED <<read, write, data, item, pc, word>>
    BY Zenon, WaitFrame
<1>2. \A o : OnItsWay(o)' <=> OnItsWay(o)
    BY Zenon, <1>1 DEF OnItsWay, InQueue, Entry
<1>3. ASSUME NEW u \in Threads, tpc'[u] \in {"queue", "asleep"}
      PROVE  /\ key'[u] = key[u] /\ value'[u] = value[u]
             /\ tpc[u] \in {"queue", "asleep"} \/ word[key[u]] = value[u]
    <2>1. CASE u # t
        BY Zenon, <1>3, <2>1 DEF WaitStep, do_vcxl_cond_wait, waiters_inc, vcxl_futex_q_lock, wait_setup, wait_queue,
                          woken, unqueue, Return, TGoto, WaitTypeOK
    <2>2. CASE u = t
        BY Zenon, <1>3, <2>2 DEF WaitStep, do_vcxl_cond_wait, waiters_inc, vcxl_futex_q_lock, wait_setup, wait_queue,
                          woken, unqueue, Return, TGoto, WaitTypeOK
    <2> QED
        BY Zenon, <2>1, <2>2
<1>4. ASSUME NEW u \in Threads, tpc'[u] \in {"queue", "asleep"}, word'[key'[u]] # value'[u]
      PROVE  \E o \in Entries : o = key'[u] /\ OnItsWay(o)'
    <2>1. key'[u] = key[u] /\ tpc[u] \in {"queue", "asleep"} /\ word[key[u]] # value[u]
        BY Zenon, <1>1, <1>3, <1>4
    <2>2. PICK o \in Entries : o = key[u] /\ OnItsWay(o)
        BY Zenon, <2>1 DEF BucketTrue, WakeComing
    <2> QED
        BY Zenon, <1>2, <2>1, <2>2
<1> QED
    BY Zenon, <1>4, ComingNext

\* A wake-up that begins (do_vcxl_wake) is on its way for those it is meant for.
LEMMA ComingWake ==
    ASSUME EveryBellCounts, RingInv, WaitTypeOK, BucketTrue, WakeComing, NEW c \in Callers, NEW o \in Entries,
           (c \in Remote /\ WakeRemote(c, o)) \/ (c \in Local /\ WakeLocal(c, o))
    PROVE  WakeComing'
<1>1. /\ pc[c] = "idle" /\ UNCHANGED <<read, write, data, tpc, key, value>>
      /\ word' = [word EXCEPT ![o] = @ + 1]
      /\ \A d \in Callers \ {c} : pc'[d] = pc[d] /\ item'[d] = item[d]
      /\ item'[c] = o
      /\ (c \in Remote /\ pc'[c] = "recover") \/ (c \in Local /\ pc'[c] = "returned")
    BY Zenon DEF WakeRemote, WakeLocal, Call, Goto, RingInv, RingTypeOK
<1>2. OnItsWay(o)'
    BY Zenon, <1>1 DEF OnItsWay, InCall
<1>3. ASSUME NEW k, OnItsWay(k) PROVE OnItsWay(k)'
    BY Zenon, <1>1, <1>3, WayElsewhere DEF InCall
<1>4. ASSUME NEW t \in Threads, tpc'[t] \in {"queue", "asleep"}, word'[key'[t]] # value'[t]
      PROVE  \E k \in Entries : k = key'[t] /\ OnItsWay(k)'
    <2>1. PICK k \in Entries : k = key[t] /\ k = key'[t]
        BY Zenon, <1>1, <1>4 DEF BucketTrue, WaitTypeOK
    <2>2. CASE k = o
        BY Zenon, <1>2, <2>1, <2>2
    <2>3. CASE k # o
        <3>1. word[k] # value[t]
            BY Zenon, <1>1, <1>4, <2>1, <2>3 DEF WaitTypeOK
        <3>2. OnItsWay(k)
            BY Zenon, <1>1, <1>4, <2>1, <3>1 DEF WakeComing
        <3> QED
            BY Zenon, <1>3, <2>1, <3>2
    <2> QED
        BY Zenon, <2>2, <2>3
<1> QED
    BY Zenon, <1>4, ComingNext

\* A scan (wake_proc) wakes every sleeper on its offset, and one that is left out
\* because nobody is counted has nobody to wake.
LEMMA ComingScan ==
    ASSUME EveryBellCounts, RingInv, WaitTypeOK, BucketTrue, WakeComing,
           NEW c \in Handlers \union Local, waiters_pending(c) \/ wake_proc(c)
    PROVE  WakeComing'
<1>0. c \in Callers /\ c \notin Remote
    BY Zenon, CallersAre DEF EveryBellCounts
<1>1. CASE waiters_pending(c) /\ waiters = 0
    <2>1. UNCHANGED <<tpc, key, value, word>>
        BY Zenon, <1>1 DEF waiters_pending, futexVars
    <2>2. Counted = {}
        BY Zenon, <1>1, NobodyCounted DEF EveryBellCounts
    <2> QED
        BY Zenon, <2>1, <2>2 DEF WakeComing, Counted
<1>2. CASE waiters_pending(c) /\ waiters # 0
    <2>1. UNCHANGED <<tpc, key, value, word>>
        BY Zenon, <1>2 DEF waiters_pending, futexVars
    <2>2. /\ pc'[c] = "scan" /\ item' = item /\ UNCHANGED <<read, write, data>>
          /\ \A d \in Callers \ {c} : pc'[d] = pc[d] /\ item'[d] = item[d]
        BY Zenon, <1>0, <1>2 DEF waiters_pending, Goto, RingInv, RingTypeOK
    <2>3. ASSUME NEW k, OnItsWay(k) PROVE OnItsWay(k)'
        BY ZenonT(30), <1>0, <2>2, <2>3, WayElsewhere
    <2>4. ASSUME NEW t \in Threads, tpc'[t] \in {"queue", "asleep"}, word'[key'[t]] # value'[t]
          PROVE  \E k \in Entries : k = key'[t] /\ OnItsWay(k)'
        <3>1. PICK k \in Entries : k = key[t] /\ k = key'[t]
            BY Zenon, <2>1, <2>4 DEF BucketTrue
        <3>2. OnItsWay(k)
            BY Zenon, <2>1, <2>4, <3>1 DEF WakeComing
        <3> QED
            BY Zenon, <2>3, <3>1, <3>2
    <2> QED
        BY Zenon, <2>4, ComingNext
<1>3. CASE wake_proc(c)
    <2>1. /\ tpc' = [t \in Threads |-> IF t \in ToWake(c) THEN "woken" ELSE tpc[t]]
          /\ key' = [t \in Threads |-> IF t \in ToWake(c) THEN NoEntry ELSE key[t]]
          /\ value' = [t \in Threads |-> IF t \in ToWake(c) THEN 0 ELSE value[t]]
          /\ hb_lock = NoThread /\ UNCHANGED <<word, read, write, data>>
        BY Zenon, <1>3 DEF wake_proc
    <2>2. \A d \in Callers \ {c} : pc'[d] = pc[d] /\ item'[d] = item[d]
        BY ZenonT(30), <1>0, <1>3 DEF wake_proc, Goto, RingInv, RingTypeOK
    <2>3. ASSUME NEW k, OnItsWay(k), k # item[c] PROVE OnItsWay(k)'
        BY ZenonT(30), <1>0, <2>1, <2>2, <2>3, WayElsewhere
    <2>4. ASSUME NEW t \in Threads, tpc'[t] \in {"queue", "asleep"}, word'[key'[t]] # value'[t]
          PROVE  \E k \in Entries : k = key'[t] /\ OnItsWay(k)'
        <3>1. t \notin ToWake(c) /\ tpc[t] \in {"queue", "asleep"}
            BY Zenon, <2>1, <2>4
        <3>2. PICK k \in Entries : k = key[t] /\ k = key'[t]
            BY Zenon, <2>1, <3>1 DEF BucketTrue
        <3>3. tpc[t] = "asleep"
            BY Zenon, <2>1, <3>1 DEF BucketTrue, EveryBellCounts, ThreadsFinite
        <3>4. t \in Range(chain)
            BY Zenon, <3>3 DEF BucketTrue, Sleepers
        <3>5. k # item[c]
            BY Zenon, <1>0, <2>1, <3>1, <3>2, <3>4, ToWakeIs DEF EveryBellCounts
        <3>6. OnItsWay(k)
            BY Zenon, <2>1, <2>4, <3>1, <3>2 DEF WakeComing
        <3> QED
            BY Zenon, <2>3, <3>2, <3>5, <3>6
    <2> QED
        BY Zenon, <2>4, ComingNext
<1> QED
    BY Zenon, <1>1, <1>2, <1>3

\* Every step that loses no wake-up keeps one coming for each thread that needs it.
LEMMA ComingStep ==
    ASSUME EveryBellCounts, RingInv, WaitTypeOK, BucketTrue, Roles, WakeComing, ~lost', Next
    PROVE  WakeComing'
<1>0. \A c \in Remote : c \notin Handlers \union Local
    BY Zenon DEF EveryBellCounts
<1>1. ASSUME UNCHANGED <<tpc, key, value, word>>, \A o \in Entries : OnItsWay(o) => OnItsWay(o)'
      PROVE  WakeComing'
    <2>1. ASSUME NEW t \in Threads, tpc'[t] \in {"queue", "asleep"}, word'[key'[t]] # value'[t]
          PROVE  \E o \in Entries : o = key'[t] /\ OnItsWay(o)'
        <3>1. PICK o \in Entries : o = key[t] /\ o = key'[t]
            BY Zenon, <1>1, <2>1 DEF BucketTrue
        <3>2. OnItsWay(o)
            BY Zenon, <1>1, <2>1, <3>1 DEF WakeComing
        <3> QED
            BY Zenon, <1>1, <3>1, <3>2
    <2> QED
        BY Zenon, <2>1, ComingNext
<1>2. ASSUME NEW c \in Callers, QueueStep(c), UNCHANGED futexVars PROVE WakeComing'
    BY Zenon, <1>1, <1>2, WayInCall DEF futexVars
<1>3. ASSUME NEW c \in Callers, Refused(c) PROVE WakeComing'
    <2>1. /\ UNCHANGED <<read, write, data, tpc, key, value, word>>
          /\ \A d \in Callers \ {c} : pc'[d] = pc[d] /\ item'[d] = item[d]
          /\ pc[c] = "failed"
          /\ c \notin Handlers => pc'[c] = "recover" /\ item'[c] = item[c]
        BY Zenon, <1>3 DEF Refused, Call, Goto, queueVars, futexVars, RingInv, RingTypeOK
    <2>2. ASSUME NEW o \in Entries, OnItsWay(o) PROVE OnItsWay(o)'
        BY Zenon, <1>0, <2>1, <2>2, WayElsewhere DEF InCall
    <2> QED
        BY Zenon, <1>1, <2>1, <2>2
<1>4. ASSUME NEW c \in Remote, RingDoorbell(c) PROVE WakeComing'
    <2>1. /\ UNCHANGED <<read, write, data, tpc, key, value, word>> /\ pc[c] = "returned"
          /\ \A d \in Callers \ {c} : pc'[d] = pc[d] /\ item'[d] = item[d]
        BY Zenon, <1>4, CallersAre DEF RingDoorbell, Goto, RingInv, RingTypeOK
    <2>2. ASSUME NEW o \in Entries, OnItsWay(o) PROVE OnItsWay(o)'
        BY Zenon, <1>0, <2>1, <2>2, WayElsewhere DEF InCall
    <2> QED
        BY Zenon, <1>1, <2>1, <2>2
<1>5. ASSUME NEW c \in Remote, CrashWaker(c) PROVE WakeComing'
    <2>1. /\ UNCHANGED <<read, write, data, tpc, key, value, word>> /\ pc[c] = "idle"
          /\ \A d \in Callers \ {c} : pc'[d] = pc[d] /\ item'[d] = item[d]
        BY Zenon, <1>5 DEF CrashWaker, QueueForget
    <2>2. ASSUME NEW o \in Entries, OnItsWay(o) PROVE OnItsWay(o)'
        BY Zenon, <1>0, <2>1, <2>2, WayElsewhere DEF InCall
    <2> QED
        BY Zenon, <1>1, <2>1, <2>2
<1>6. ASSUME NEW h \in Handlers, Interrupt(h) PROVE WakeComing'
    <2>1. /\ UNCHANGED <<read, write, data, tpc, key, value, word>> /\ pc[h] = "idle"
          /\ \A d \in Callers \ {h} : pc'[d] = pc[d] /\ item'[d] = item[d]
        BY Zenon, <1>6, CallersAre DEF Interrupt, Call, Goto, RingInv, RingTypeOK
    <2>2. ASSUME NEW o \in Entries, OnItsWay(o) PROVE OnItsWay(o)'
        BY Zenon, <1>0, <2>1, <2>2, WayElsewhere DEF InCall
    <2> QED
        BY Zenon, <1>1, <2>1, <2>2
<1>7. CASE CrashWaiter
    BY Zenon, <1>7 DEF CrashWaiter, WakeComing
<1>8. ASSUME NEW t \in Threads, WaitStep(t) PROVE WakeComing'
    BY Zenon, <1>8, ComingWait
<1>9. ASSUME NEW c \in Remote, NEW o \in Entries, WakeRemote(c, o) PROVE WakeComing'
    BY Zenon, <1>9, ComingWake, CallersAre
<1>10. ASSUME NEW c \in Local, NEW o \in Entries, WakeLocal(c, o) PROVE WakeComing'
    BY Zenon, <1>10, ComingWake, CallersAre
<1>11. ASSUME NEW c \in Handlers \union Local, waiters_pending(c) \/ wake_proc(c) PROVE WakeComing'
    BY Zenon, <1>11, ComingScan
<1> QED
    BY <1>2, <1>3, <1>4, <1>5, <1>6, <1>7, <1>8, <1>9, <1>10, <1>11, Zenon DEF Next

\* Every step keeps the whole invariant.
LEMMA WakeStep ==
    ASSUME EveryBellCounts, RingInv, WakeInv, [Next]_vars
    PROVE  WakeInv'
<1>1. CASE UNCHANGED vars
    <2>1. WaitTypeOK' /\ BucketTrue'
        BY Zenon, <1>1 DEF vars, futexVars, WakeInv, WaitTypeOK, BucketTrue, Counted, Sleepers
    <2>2. Roles'
        BY Zenon, <1>1 DEF vars, queueVars, WakeInv, Roles
    <2>3. BellsCover => BellsCover'
        BY Zenon, <1>1 DEF vars, queueVars, futexVars, BellsCover, Unrung, Taking
    <2>4. WakeComing => WakeComing'
        BY <1>1 DEF vars, queueVars, futexVars, WakeComing, OnItsWay, InQueue, Entry
    <2>5. lost' = lost
        BY Zenon, <1>1 DEF vars, futexVars
    <2> QED
        BY Zenon, <2>1, <2>2, <2>3, <2>4, <2>5 DEF WakeInv
<1>2. CASE Next
    <2>1. WaitTypeOK' /\ BucketTrue' /\ Roles'
        BY Zenon, <1>2, BucketStep, RolesStep DEF WakeInv, EveryBellCounts
    <2>2. lost => lost'
        BY Zenon, <1>2, WaitFrame DEF Next, Refused, WakeRemote, RingDoorbell, CrashWaker, WakeLocal, Interrupt,
                    waiters_pending, wake_proc, CrashWaiter, futexVars
    <2>3. ~lost' => BellsCover' /\ WakeComing'
        BY Zenon, <1>2, <2>2, BellsStep, ComingStep DEF WakeInv
    <2> QED
        BY Zenon, <2>1, <2>3 DEF WakeInv
<1> QED
    BY Zenon, <1>1, <1>2

\* When nothing rings and nobody calls, the queue is empty and no wake-up is on
\* its way, so that nobody needs one.
LEMMA QuietIsAwake == EveryBellCounts /\ RingInv /\ WakeInv => NoMissedWake
<1> SUFFICES ASSUME EveryBellCounts, RingInv, WakeInv, Quiet, ~lost,
                    NEW t \in Threads, tpc[t] = "asleep", word[key[t]] # value[t]
             PROVE  FALSE
    BY Zenon DEF NoMissedWake
<1>1. PICK h \in Handlers : TRUE
    BY Zenon DEF EveryBellCounts
<1>2. Unrung = {} /\ ~Taking(h) /\ doorbell[h] = 0
    BY Zenon, CallersAre DEF Quiet, Unrung, Taking
<1>3. Size(read, write) \in Nat /\ Size(read, write) <= 0
    <2>1. Size(read, write) <= doorbell[h] + (IF Taking(h) THEN 1 ELSE 0) + Cardinality(Unrung)
        BY Zenon DEF WakeInv, BellsCover
    <2>2. Size(read, write) \in Nat
        BY Zenon, ContentsIs DEF RingInv, RingTypeOK
    <2> QED
        BY <1>2, <2>1, <2>2, FS_EmptySet
<1>4. ~OnItsWay(key[t])
    BY <1>3, CallersAre DEF OnItsWay, InQueue, Quiet, InCall
<1> QED
    BY ZenonT(30), <1>4 DEF WakeInv, WakeComing

\* cxl_futex.h: "a waiter either observes the changed user space value before
\* blocking or is woken by a concurrent waker".  For any number of threads, wakers,
\* handlers and offsets and any size of the ring.
THEOREM EverySleeperWoken ==
    ASSUME EveryBellCounts
    PROVE  Spec => []NoMissedWake
<1>1. Init => RingInv /\ WakeInv
    BY Zenon, RingInit, WakeInit
<1>2. RingInv /\ WakeInv /\ [Next]_vars => (RingInv /\ WakeInv)'
    BY Zenon, RingStep, WakeStep DEF EveryBellCounts
<1>3. RingInv /\ WakeInv => NoMissedWake
    BY Zenon, QuietIsAwake
<1> QED
    BY <1>1, <1>2, <1>3, PTL DEF Spec
=============================================================================
