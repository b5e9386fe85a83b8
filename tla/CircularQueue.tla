--------------------------- MODULE CircularQueue ---------------------------
(***************************************************************************)
(* A ring of entries in shared memory, through which a machine hears from  *)
(* the others (driver/src/circular_queue.c).  It is guarded by a           *)
(* test-and-test-and-set lock that is taken without a generation, and a    *)
(* caller says under which machine id it takes the lock.  Nobody recovers  *)
(* that lock for a dead machine: the CPU that died inside must come back   *)
(* and find its own id in the lock.                                        *)
(*                                                                         *)
(* A caller is a CPU.  Interrupts are off while it is inside, so it makes  *)
(* one call at a time.  The module has the two calls; the actions that     *)
(* start one and use its result belong to the modules that extend it.      *)
(***************************************************************************)
EXTENDS Integers, Sequences

CONSTANTS
  Callers,
  Identity,      \* Identity[c]: the process id under which c takes the lock
  CQUEUE_SIZE,
  Entries

UNLOCKED == "unlocked"

ASSUME QueueAssumption ==
  /\ CQUEUE_SIZE \in Nat \ {0}
  /\ DOMAIN Identity = Callers
  /\ \A c \in Callers : Identity[c] # UNLOCKED

NoEntry == "none"

VARIABLES
  read, write,   \* the positions, in shared memory
  data,          \* the ring, in shared memory
  lock,          \* the process id in the lock word, or UNLOCKED
  pc,            \* what each caller does next
  op,            \* "enqueue" or "dequeue"
  item,          \* the entry a caller brings or has got
  r, w,          \* the positions a caller has loaded
  out            \* history: the last entry that was taken out

queueVars == <<read, write, data, lock, op, item, r, w, out>>

Positions == 0 .. CQUEUE_SIZE - 1

\* init_circular_queue
QueueInit ==
  /\ read = 0
  /\ write = 0
  /\ data = [i \in Positions |-> NoEntry]
  /\ lock = UNLOCKED
  /\ pc = [c \in Callers |-> "idle"]
  /\ op = [c \in Callers |-> "enqueue"]
  /\ item = [c \in Callers |-> NoEntry]
  /\ r = [c \in Callers |-> 0]
  /\ w = [c \in Callers |-> 0]
  /\ out = NoEntry

Goto(c, label) == pc' = [pc EXCEPT ![c] = label]

\* Mutant: the position runs past the end of the ring.
NextPositionUnwrapped(p) == p + 1

NextPosition(p) == (p + 1) % CQUEUE_SIZE

-----------------------------------------------------------------------------
(* circular_queue_enqueue and circular_queue_dequeue *)

\* The call itself; e is the entry to put in.
Call(c, o, e) ==
  /\ op' = [op EXCEPT ![c] = o]
  /\ item' = [item EXCEPT ![c] = e]
  /\ Goto(c, "recover")
  /\ UNCHANGED <<read, write, data, lock, r, w, out>>

\* Mutant: a lock that looks taken is taken to be this caller's.
recover_any(c) ==
  /\ pc[c] = "recover"
  /\ Goto(c, IF lock # UNLOCKED THEN "load" ELSE "spin")
  /\ UNCHANGED queueVars

\* ttas_recover: a caller whose id is in the lock is inside already.
ttas_recover(c) ==
  /\ pc[c] = "recover"
  /\ Goto(c, IF lock = Identity[c] THEN "load" ELSE "spin")
  /\ UNCHANGED queueVars

\* ttas_enter: the spinning ends with a compare-and-swap that succeeds.
ttas_enter(c) ==
  /\ pc[c] = "spin"
  /\ lock = UNLOCKED
  /\ lock' = Identity[c]
  /\ Goto(c, "load")
  /\ UNCHANGED <<read, write, data, op, item, r, w, out>>

\* Mutant: the end of the ring is forgotten.
FullUnwrapped(rd, wr) == wr + 1 = rd

Full(rd, wr) == NextPosition(wr) = rd

Empty(rd, wr) == wr = rd

\* circular_queue_load_position, and the test for a full or an empty queue.
load_position(c) ==
  /\ pc[c] = "load"
  /\ r' = [r EXCEPT ![c] = read]
  /\ w' = [w EXCEPT ![c] = write]
  /\ LET refused == IF op[c] = "enqueue" THEN Full(read, write) ELSE Empty(read, write)
     IN Goto(c, IF refused THEN "refused" ELSE "data")
  /\ UNCHANGED <<read, write, data, lock, op, item, out>>

\* The entry goes into the ring, or out of it.
move_data(c) ==
  /\ pc[c] = "data"
  /\ IF op[c] = "enqueue"
     THEN data' = [data EXCEPT ![w[c]] = item[c]] /\ UNCHANGED item
     ELSE item' = [item EXCEPT ![c] = data[r[c]]] /\ UNCHANGED data
  /\ Goto(c, "store")
  /\ UNCHANGED <<read, write, lock, op, r, w, out>>

\* circular_queue_store_position
store_position(c) ==
  /\ pc[c] = "store"
  /\ IF op[c] = "enqueue"
     THEN write' = NextPosition(w[c]) /\ UNCHANGED <<read, out>>
     ELSE read' = NextPosition(r[c]) /\ out' = item[c] /\ UNCHANGED write
  /\ Goto(c, "unlock")
  /\ UNCHANGED <<data, lock, op, item, r, w>>

\* The lock is released, whoever holds it; the call returns 0 or -1.
cq_unlock(c) ==
  /\ pc[c] \in {"unlock", "refused"}
  /\ lock' = UNLOCKED
  /\ Goto(c, IF pc[c] = "unlock" THEN "returned" ELSE "failed")
  /\ r' = [r EXCEPT ![c] = 0]
  /\ w' = [w EXCEPT ![c] = 0]
  /\ UNCHANGED <<read, write, data, op, item, out>>

QueueStep(c) ==
  \/ ttas_recover(c) \/ ttas_enter(c) \/ load_position(c)
  \/ move_data(c) \/ store_position(c) \/ cq_unlock(c)

\* The machine of the callers in S dies: they forget what they were doing.
QueueForget(S) ==
  /\ pc' = [c \in Callers |-> IF c \in S THEN "idle" ELSE pc[c]]
  /\ op' = [c \in Callers |-> IF c \in S THEN "enqueue" ELSE op[c]]
  /\ item' = [c \in Callers |-> IF c \in S THEN NoEntry ELSE item[c]]
  /\ r' = [c \in Callers |-> IF c \in S THEN 0 ELSE r[c]]
  /\ w' = [c \in Callers |-> IF c \in S THEN 0 ELSE w[c]]
  /\ UNCHANGED <<read, write, data, lock, out>>

-----------------------------------------------------------------------------
(* Properties *)

QueueTypeOK ==
  /\ read \in Positions
  /\ write \in Positions
  /\ data \in [Positions -> Entries \cup {NoEntry}]
  /\ lock \in {Identity[c] : c \in Callers} \cup {UNLOCKED}

Inside(c) == pc[c] \in {"load", "data", "store", "unlock", "refused"}

\* ttas_recover and ttas_enter: callers are inside one at a time, and under the
\* id in the lock.
QueueExclusive ==
  \A c \in Callers : Inside(c) =>
    /\ lock = Identity[c]
    /\ \A d \in Callers \ {c} : ~Inside(d)

\* The entries from the read to the write position.
Contents ==
  [i \in 1 .. ((write - read + CQUEUE_SIZE) % CQUEUE_SIZE) |->
     data[(read + i - 1) % CQUEUE_SIZE]]

Fifo == INSTANCE FifoQueue
          WITH Capacity <- CQUEUE_SIZE - 1, queue <- Contents, out <- out

\* circular_queue_enqueue ("atomically appends a new entry") and
\* circular_queue_dequeue ("atomically removes one entry"): whatever the callers
\* do and wherever one dies, the ring behaves as a queue.
AtomicQueue == Fifo!Spec
=============================================================================
