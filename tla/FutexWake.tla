----------------------------- MODULE FutexWake -----------------------------
(***************************************************************************)
(* Sleeping on a word of shared memory until another machine changes it    *)
(* (driver/src/cxl_futex_waitwake.c).  The threads of one machine wait; a  *)
(* waker changes the word and asks for a wake-up.  A waker on the same     *)
(* machine scans the sleepers itself; one on another machine puts the      *)
(* offset into the machine's circular queue and rings its doorbell, and    *)
(* the interrupt handler takes one offset out and scans.                   *)
(*                                                                         *)
(* All offsets fall into one hash bucket: its lock, its count of waiters   *)
(* and its list of sleepers.  The bucket's lock is held over several steps *)
(* only by a thread that is about to sleep; a scan under it is one step.   *)
(***************************************************************************)
EXTENDS CircularQueue, FiniteSets, Functions

CONSTANTS
  Remote,       \* wakers: CPUs of other machines
  Local,        \* wakers: CPUs of the machine where the threads wait
  Handlers,     \* the interrupt handlers of that machine
  WakeType,     \* WakeType[c]: "ALL" or "NEXT", of a waker or a handler
  Threads,      \* the threads that wait
  Coalesced,    \* may two doorbells before an interrupt become one?
  MaxChanges,   \* bound: how often words change
  MaxCrashes    \* bound: how many machine crashes happen

ASSUME FutexAssumption ==
  /\ Callers = Remote \cup Local \cup Handlers
  /\ \A c \in Callers : WakeType[c] \in {"ALL", "NEXT"}
  /\ Coalesced \in BOOLEAN
  /\ Threads # {}

VARIABLES
  word,       \* the words, in shared memory
  doorbell,   \* doorbell[h]: interrupts that wait for handler h
  waiters,    \* the bucket's count
  hb_lock,    \* the thread that holds the bucket's lock, or NoThread
  chain,      \* the sleepers, first come first
  tpc,        \* what each thread does next
  key,        \* the offset it waits on
  value,      \* the value it wants to sleep on
  lost,       \* history: a machine died in the middle of a wake-up
  crashes     \* how many crashes there were

futexVars == <<word, doorbell, waiters, hb_lock, chain, tpc, key, value, lost, crashes>>

vars == <<queueVars, pc, futexVars>>

NoThread == "none"

\* cxl_proc_hashbucket: one bucket for all offsets.
Init ==
  /\ QueueInit
  /\ word = [o \in Entries |-> 0]
  /\ doorbell = [h \in Handlers |-> 0]
  /\ waiters = 0
  /\ hb_lock = NoThread
  /\ chain = <<>>
  /\ tpc = [t \in Threads |-> "user"]
  /\ key = [t \in Threads |-> NoEntry]
  /\ value = [t \in Threads |-> 0]
  /\ lost = FALSE
  /\ crashes = 0

\* The list s without the members of S, in the same order.
Without(s, S) ==
  LET f[i \in 0 .. Len(s)] ==
        IF i = 0 THEN <<>>
        ELSE IF s[i] \in S THEN f[i - 1] ELSE Append(f[i - 1], s[i])
  IN f[Len(s)]

TGoto(t, label) == tpc' = [tpc EXCEPT ![t] = label]

\* The thread is back in user space.
Return(t) ==
  /\ TGoto(t, "user")
  /\ key' = [key EXCEPT ![t] = NoEntry]
  /\ value' = [value EXCEPT ![t] = 0]

-----------------------------------------------------------------------------
(* handle_vcxl_cond_wait *)

\* A thread reads a word and asks to sleep as long as it does not change.
\* handle_vcxl_cond_wait computes the word's address with a local ivpci_dev that it
\* never sets from its parameter.  Here the pointer holds the caller's device.  With
\* another value the call fails at the length test, which changes nothing, or works
\* on memory that is no part of this model.
do_vcxl_cond_wait(t, o) ==
  /\ tpc[t] = "user"
  /\ key' = [key EXCEPT ![t] = o]
  /\ value' = [value EXCEPT ![t] = word[o]]
  /\ TGoto(t, "count")
  /\ UNCHANGED <<queueVars, pc, word, doorbell, waiters, hb_lock, chain, lost, crashes>>

\* Mutant: the thread is counted only once it sleeps.
waiters_inc_late(t) ==
  /\ tpc[t] = "count"
  /\ waiters' = waiters
  /\ TGoto(t, "lock")
  /\ UNCHANGED <<queueVars, pc, word, doorbell, hb_lock, chain, key, value, lost, crashes>>

\* vcxl_futex_q_lock counts the thread before it takes the lock.
waiters_inc(t) ==
  /\ tpc[t] = "count"
  /\ waiters' = waiters + 1
  /\ TGoto(t, "lock")
  /\ UNCHANGED <<queueVars, pc, word, doorbell, hb_lock, chain, key, value, lost, crashes>>

vcxl_futex_q_lock(t) ==
  /\ tpc[t] = "lock"
  /\ hb_lock = NoThread
  /\ hb_lock' = t
  /\ TGoto(t, "load")
  /\ UNCHANGED <<queueVars, pc, word, doorbell, waiters, chain, key, value, lost, crashes>>

\* vcxl_futex_wait_setup reads the word under the lock: the wait goes on only
\* if it still has the value.
wait_setup(t) ==
  /\ tpc[t] = "load"
  /\ IF word[key[t]] = value[t]
     THEN TGoto(t, "queue") /\ UNCHANGED <<waiters, hb_lock, key, value>>
     ELSE Return(t) /\ waiters' = waiters - 1 /\ hb_lock' = NoThread
  /\ UNCHANGED <<queueVars, pc, word, doorbell, chain, lost, crashes>>

\* vcxl_futex_wait_queue: on the list, unlock, sleep.  The count in waiter_arr that
\* is raised just before is for user space: the driver never reads it, and it is
\* left out.
wait_queue(t) ==
  /\ tpc[t] = "queue"
  /\ chain' = Append(chain, t)
  /\ hb_lock' = NoThread
  /\ TGoto(t, "asleep")
  /\ UNCHANGED <<queueVars, pc, word, doorbell, waiters, key, value, lost, crashes>>

\* Mutant: the thread lowers the count although the waker has done so.
woken_counted(t) ==
  /\ tpc[t] = "woken"
  /\ Return(t)
  /\ waiters' = waiters - 1
  /\ UNCHANGED <<queueVars, pc, word, doorbell, hb_lock, chain, lost, crashes>>

\* A waker took the thread off the list: vcxl_futex_unqueue finds no lock_ptr
\* and the call returns.
woken(t) ==
  /\ tpc[t] = "woken"
  /\ Return(t)
  /\ UNCHANGED <<queueVars, pc, word, doorbell, waiters, hb_lock, chain, lost, crashes>>

\* Something else ends the sleep, and vcxl_futex_unqueue takes the thread off
\* the list.  After a timeout the call returns; after a signal it starts over.
unqueue(t) ==
  /\ tpc[t] = "asleep"
  /\ hb_lock = NoThread
  /\ chain' = Without(chain, {t})
  /\ waiters' = waiters - 1
  /\ Return(t) \/ (TGoto(t, "count") /\ UNCHANGED <<key, value>>)
  /\ UNCHANGED <<queueVars, pc, word, doorbell, hb_lock, lost, crashes>>

WaitStep(t) ==
  \/ \E o \in Entries : do_vcxl_cond_wait(t, o)
  \/ waiters_inc(t) \/ vcxl_futex_q_lock(t) \/ wait_setup(t) \/ wait_queue(t)
  \/ woken(t) \/ unqueue(t)

-----------------------------------------------------------------------------
(* do_vcxl_wake *)

\* How often the words have changed so far.
Changes == Cardinality({oi \in Entries \X (1 .. MaxChanges) : oi[2] <= word[oi[1]]})

\* The waker changes the word and calls do_vcxl_wake for the sleepers' machine.
WakeRemote(c, o) ==
  /\ pc[c] = "idle"
  /\ Changes < MaxChanges
  /\ word' = [word EXCEPT ![o] = @ + 1]
  /\ Call(c, "enqueue", o)
  /\ UNCHANGED <<doorbell, waiters, hb_lock, chain, tpc, key, value, lost, crashes>>

WakeLocal(c, o) ==
  /\ pc[c] = "idle"
  /\ Changes < MaxChanges
  /\ word' = [word EXCEPT ![o] = @ + 1]
  /\ item' = [item EXCEPT ![c] = o]
  /\ Goto(c, "returned")
  /\ UNCHANGED <<read, write, data, lock, op, r, w, out>>
  /\ UNCHANGED <<doorbell, waiters, hb_lock, chain, tpc, key, value, lost, crashes>>

\* The doorbell of the handler for this kind of wake-up.
RingDoorbell(c) ==
  /\ pc[c] = "returned"
  /\ doorbell' = [h \in Handlers |->
       IF WakeType[h] # WakeType[c] THEN doorbell[h]
       ELSE IF Coalesced /\ doorbell[h] = 1 THEN 1 ELSE doorbell[h] + 1]
  /\ item' = [item EXCEPT ![c] = NoEntry]
  /\ Goto(c, "idle")
  /\ UNCHANGED <<read, write, data, lock, op, r, w, out>>
  /\ UNCHANGED <<word, waiters, hb_lock, chain, tpc, key, value, lost, crashes>>

-----------------------------------------------------------------------------
(* vcxl_futex_wake, in the interrupt handler *)

Interrupt(h) ==
  /\ pc[h] = "idle"
  /\ doorbell[h] > 0
  /\ doorbell' = [doorbell EXCEPT ![h] = @ - 1]
  /\ Call(h, "dequeue", NoEntry)
  /\ UNCHANGED <<word, waiters, hb_lock, chain, tpc, key, value, lost, crashes>>

\* The call returned -1: a waker tries until the queue has room, a handler finds
\* nothing to do.
Refused(c) ==
  /\ pc[c] = "failed"
  /\ IF c \in Handlers
     THEN Goto(c, "idle") /\ UNCHANGED queueVars
     ELSE Call(c, "enqueue", item[c])
  /\ UNCHANGED futexVars

\* wake_proc, first part: nothing to do if nobody is counted.
waiters_pending(c) ==
  /\ pc[c] = "returned"
  /\ Goto(c, IF waiters = 0 THEN "idle" ELSE "scan")
  /\ item' = IF waiters = 0 THEN [item EXCEPT ![c] = NoEntry] ELSE item
  /\ UNCHANGED <<read, write, data, lock, op, r, w, out, futexVars>>

\* The sleepers a scan takes off the list: those on the offset, or the first.
ToWake(c) ==
  LET on == {i \in DOMAIN chain : key[chain[i]] = item[c]}
      first == {i \in on : \A j \in on : i <= j}
  IN {chain[i] : i \in IF WakeType[c] = "NEXT" THEN first ELSE on}

\* wake_proc, second part: vcxl_futex_wake_mark takes them off the list and
\* clears their lock_ptr.
wake_proc(c) ==
  /\ pc[c] = "scan"
  /\ hb_lock = NoThread
  /\ chain' = Without(chain, ToWake(c))
  /\ waiters' = waiters - Cardinality(ToWake(c))
  /\ tpc' = [t \in Threads |-> IF t \in ToWake(c) THEN "woken" ELSE tpc[t]]
  /\ key' = [t \in Threads |-> IF t \in ToWake(c) THEN NoEntry ELSE key[t]]
  /\ value' = [t \in Threads |-> IF t \in ToWake(c) THEN 0 ELSE value[t]]
  /\ item' = [item EXCEPT ![c] = NoEntry]
  /\ Goto(c, "idle")
  /\ UNCHANGED <<read, write, data, lock, op, r, w, out>>
  /\ UNCHANGED <<word, doorbell, hb_lock, lost, crashes>>

-----------------------------------------------------------------------------
(* Crashes *)

\* A waker's machine dies and is soon back.
CrashWaker(c) ==
  /\ crashes < MaxCrashes
  /\ crashes' = crashes + 1
  /\ lost' = (lost \/ pc[c] # "idle")
  /\ QueueForget({c})
  /\ UNCHANGED <<word, doorbell, waiters, hb_lock, chain, tpc, key, value>>

\* The sleepers' machine dies and is soon back; its threads start anew.  What is
\* in the queue stays there, while the interrupts are gone.
CrashWaiter ==
  /\ crashes < MaxCrashes
  /\ crashes' = crashes + 1
  /\ lost' = (lost \/ Contents # <<>> \/ \E c \in Callers : pc[c] # "idle")
  /\ QueueForget(Local \cup Handlers)
  /\ doorbell' = [h \in Handlers |-> 0]
  /\ waiters' = 0
  /\ hb_lock' = NoThread
  /\ chain' = <<>>
  /\ tpc' = [t \in Threads |-> "user"]
  /\ key' = [t \in Threads |-> NoEntry]
  /\ value' = [t \in Threads |-> 0]
  /\ UNCHANGED word

Next ==
  \/ \E t \in Threads : WaitStep(t)
  \/ \E c \in Callers : (QueueStep(c) /\ UNCHANGED futexVars) \/ Refused(c)
  \/ \E c \in Remote : \/ \E o \in Entries : WakeRemote(c, o)
                       \/ RingDoorbell(c) \/ CrashWaker(c)
  \/ \E c \in Local, o \in Entries : WakeLocal(c, o)
  \/ \E h \in Handlers : Interrupt(h)
  \/ \E c \in Handlers \cup Local : waiters_pending(c) \/ wake_proc(c)
  \/ CrashWaiter

Spec == Init /\ [][Next]_vars

-----------------------------------------------------------------------------
(* Properties *)

\* No wake-up is under way.
Quiet ==
  /\ \A c \in Callers : pc[c] = "idle"
  /\ \A h \in Handlers : doorbell[h] = 0

\* cxl_futex.h:17: "a waiter either observes the changed user space value before
\* blocking or is woken by a concurrent waker".  When every wake-up has been
\* handled, nobody sleeps on a value that its word no longer has.
NoMissedWake ==
  Quiet /\ ~lost =>
    \A t \in Threads : tpc[t] = "asleep" => word[key[t]] = value[t]

\* The threads that sleep, and those that the bucket counts.
Sleepers == {t \in Threads : tpc[t] = "asleep"}
Counted == {t \in Threads : tpc[t] \in {"lock", "load", "queue", "asleep"}}

\* The bucket says what the threads do, whoever counts, queues, times out, is
\* interrupted, wakes or dies at the same time.  The list is exactly the threads that
\* sleep.  The count is exactly the threads from vcxl_futex_hb_waiters_inc until the
\* waker or vcxl_futex_unqueue, never both, takes them off: a count that is too low
\* lets a waker leave without a scan.  And whoever compares the word and goes to sleep
\* holds the bucket's lock.
BucketTrue ==
  /\ \A t \in Threads : tpc[t] \in {"load", "queue"} => hb_lock = t
  /\ \A t \in Threads : tpc[t] \notin {"user", "woken"} => key[t] \in Entries
  /\ Range(chain) = Sleepers
  /\ waiters = Cardinality(Counted)
=============================================================================
