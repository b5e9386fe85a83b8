# Lupin in TLA+

Lupin lets the machines of a CXL pod share memory and survive the failure of any
one of them: the operating system of a machine may die at any instruction while
the shared memory, and what was stored in it, stays. This directory models the
parts of the repository that have to get that right, checks them with TLC, and
proves the central ones with TLAPS for every size.

    tlc -workers 2 -config TtasLock_safety.cfg MCTtasLock    # a run
    tlapm TtasLockProofs.tla                                  # the proofs of a module

`PROJECT.json` lists the runs, the lines each definition models, the hazards, the
findings and the theorems.

## 1. The system

| Part | State | Operations | Hard behaviours |
|---|---|---|---|
| recoverable lock (`src/common/tatas`) | one 64-bit word in shared memory: bit, owner, generation | lock, unlock, re-entry test, takeover by a helper, takeover at boot | the owner dies inside; helpers and the rebooted owner race; a word from an earlier life |
| failure detector (`cxl_cgroup.c`) | heartbeats and generations (shared); snapshots and beliefs (private) | one ioctl: beat, look at all, time out, announce, recover on behalf of the dead; the panic hook | slow machines, quick reboots, several detectors at once |
| redo log (`log.c`, `buddy_alloc.c`) | `redolog[]` in shared memory | record, commit, execute, scan and replay | death at any store; the log is never truncated |
| allocator (`buddy_alloc.c`, `obj_header.c`, `list_queue.c`) | header pools, two lists (shared), `cur_obj_recs` (private) | allocate, free, find, recovery at boot | list surgery by log entries; pools running out; private pointers going stale |
| buddy library (`src/buddy`) | statuses of the positions, in a bitset (shared) | malloc, realloc, free, ranges, walk, resize, the searches; mark, release and the repair of the ancestors | the repair is executed again after a crash in its middle; sizes that are no power of two; resizing moves the bits it reads |
| process groups (`cxl_cgroup.c`) | table of groups and members, its lock (shared) | create, delete, join, leave, process exit, removal of the dead at boot | death between two stores; only the owner recovers this lock |
| message queue (`circular_queue.c`) | ring, positions, lock (shared) | enqueue, dequeue | death inside; full and empty; whose id is in the lock |
| futex (`cxl_futex_waitwake.c`) | words and queue (shared), buckets of sleepers (private) | wait, wake locally, wake remotely, interrupt, timeout, signal | the missed wake-up; one interrupt for one entry |
| locks of the benchmark (`lupin_lock_benchmark`, `src/common/jj_ab_spin`, `min_array`) | a lock word, a tree or a queue of nodes, one register set for each thread | lock, unlock, abort, recovery section, unqueueing | stale compare-and-swaps, threads that die inside, leave the queue or get an abort signal |
| ivshmem server and client (`ivshmem-host`) | peers by listening socket; each client's list of the others | connect, greet, hang up, notify, quit | clients that die between two messages; events fetched in batches |
| driver (`cxl_ivpci.c`) | device slots, what the kernel has given each device | load, probe, remove, open, mmap, fault, release, unload | every call into the kernel may fail; processes that open a file that is being set up |
| doorbell (`ivshmem_driver.c`, `bench_vm.rs`) | pending interrupts, `event_toggle` | write, interrupt, read | merged interrupts; events left over from a killed process |

How they interact. The server of a host connects the virtual machines to the
shared memory and to each other's interrupts; the driver maps the memory in each
guest. An allocator operation takes the lock, searches the buddy tree, records
what it will change in the redo log, commits, executes the log and unlocks. When a
machine dies inside, either another machine's detector times out on it, or the
machine reboots; whoever is first takes the lock over and replays the log before
anybody else gets in. The detector also raises the generation of the dead machine,
which makes words and group members of an earlier life recognisable. Groups tell
processes of each other's failure. The queues carry wake-ups between machines: an
entry in shared memory, then a doorbell that raises an interrupt. The benchmark
compares the recoverable locks with others on one machine and on shared memory.

Memory. Stores of one CPU reach the shared memory in program order and survive
the machine. This is what `BYTE_GRANULAR` says, which every build file of the
repository defines; the write-backs and the persistent compare-and-swap of the other
variant are compiled nowhere. Memory between CPUs is sequentially consistent: the
code uses locked instructions and full barriers where it matters.

## 2. Modules

    RecoverableLock <== TtasLock <- TtasLockProofs
          ^                 FalseSuspicion = FALSE is what FailureDetector shows
          | INSTANCE                               FailureDetector, CxlCgroup <- MachinesProofs
       RedoLog ==> AtomicStore      <- RedoLogProofs
          ^  EXTENDS Replay
          | implemented by
       CxlAlloc                     BuddyTree <- BuddyProofs                 BuddyArena

    FutexWake EXTENDS CircularQueue ==> FifoQueue      <- FutexWakeProofs

    LockBench <- JJLock, JJPortLock, RmcsLock, TasLocks <- BenchLocksProofs
              <- QSpinLock <- QSpinProofs
              <- OsqLock

    IvpciDriver <- IvpciProofs            IvshmemServer            Doorbell

`==>` reads "implements"; each is checked as a PROPERTY. `<-` is EXTENDS.

The modules `MC...` instantiate these for TLC. A run checks several behaviours at
once: `MCAllocator`, `MCMachines` and `MCDevice` have a
variable `part`, and `MCLockBench` a variable `algo`, chosen in the initial state and
never changed. `MCBenchDevice` has the behaviours of `MCLockBench` and of `MCDevice`,
the parts of the other one at rest. A property of such a module says of each part what the part's
module says, and the variables of the other parts are constant. `MCAllocator` extends
`RedoLog` and `BuddyTree`, `MCMachines` extends `FailureDetector` and `CxlCgroup`, and `MCDevice` extends `IvpciDriver`:
the properties of these that have theorems are checked as the theorems state them. The other parts are
instances, sized in the MC module.

**TtasLock.** One action per access to the lock word. `meta_lock` reads the generation,
`ttas_recover_with_gen` tests for re-entry, `ttas_enter_read` and `ttas_enter_cas` are the
two halves of test-and-test-and-set, `ttas_exit` writes `UNLOCKED` without looking,
`detect_os_failure` (the timeout, the generation, the message) and `recover_meta` (the boot) lead to
`ttas_lock_recover_read` and `ttas_lock_recover_cas`, so that everything may happen between a helper's decision, its look at the word and its
attempt to replace it. One thing may not: the dead machine does not boot while a helper is between timeout and look (`HelpUnderWay`). A
boot takes seconds and the helper a message to user space, but nothing in the code enforces it: with such a boot the helper finds the new life's
word, and `Recoverable`, which does not look at generations, takes it for the dead one's.
A CPU runs one call at a time because the code disables preemption from lock to
unlock. `needsReplay` is history: somebody died inside and nobody replayed since.

**RecoverableLock** is what the callers need: at most one inside, and after a death
inside, a recoverer before the next user.

**RedoLog.** One action per store: `set_log_entry`, `erase_next`, `set_commit_type`,
`set_commit_checksum`, `execute_log` (an entry at a time, of which a crash leaves any
part), `recover_with_redolog` (scan and replay). Entries are partial assignments to
locations. The checksum is perfect: a sum is the prefix it was computed from; a
half-written slot is `Torn`. **Replay** has what execution means, and **AtomicStore** is the
promise: operations happen at once or not at all, and stay. `Fresh` leaves out
operations for which an old commit record fits a part of the new log and
executing that part would change something; the allocator's plans never do
(`ImplementsRedoLog` checks it, with `Fresh` in the step).

**CxlAlloc.** Each operation is planned as the entries the code records
(`record_list_queue_append`, `record_list_queue_remove`, `record_obj_hdr_alloc`,
`record_obj_hdr_free`, `alloc_and_log_lockheld`), and the plans go through the same log,
by way of the refinement `ImplementsRedoLog`. Blocks all have one size here. Pointers
are kept as the offsets the code computes: an offset computed from a null pointer
lands on `Offset0` or `Offset8`, where the code would write into a queue's header.

**BuddyTree** has the stores of the two calls that log entries repeat. Positions,
depths, local offsets and statuses as in the C code. `find_free` descends as the code
does, by the statuses. Where the memory is smaller than the tree, formatting masks the positions behind its end, one after another from the
largest (`Virtual`, of which `todo` are left: the loop of `buddy_toggle_virtual_slots`), before anything is allocated. `mark` and `release` write the position, and
`update_parent_chain` repairs one ancestor at a step, returning early where the code
does. **BuddyArena** has the whole interface of the library, a call at a step, on the
bitset itself: a position of local offset n owns n bits, and `buddy_resize` moves them with
`bitset_shift_left` and `bitset_shift_right`.

**FailureDetector.** `Heartbeat` begins a call of the ioctl, then one step for each
machine: `SeeHeartbeat`, `Miss` or `Timeout`. A heartbeat is only ever compared with the
last one seen, so `moved` says which are new. `hook_panic` raises the machine's own generation.

**CxlCgroup.** A complete operation is one step, since it runs under the table's lock.
An operation is the table it leaves when it is done (`done`) and the tables that a prefix of its stores
leaves (`cut`); `CrashInOperation` and `CrashInRecovery` choose one of the latter and leave the lock.
`recover_groups` is the half of `recover_cxlcg_meta` that removes the dead from the table; the other one is in FailureDetector. Processes end
in either way that `hook_do_exit` tells apart: `ExitNonZero` reports to `notify_proc_failure`, `ExitQuietly` (code 0 or a signal) to nobody, member or not. `Address` gives the processes their
task addresses, which several may share, and `LocalId` their ids, of any size. What the processes must abide by is the constant `Rules` (section 6).

**CircularQueue** has the accesses of enqueue and dequeue, **FifoQueue** is the promise, and
**FutexWake** composes the queue with the sleepers of a machine: `waiters_inc`,
`vcxl_futex_q_lock`, `wait_setup`, `wait_queue` are a thread on its way to sleep, `woken` and
`unqueue` its two ways back; `WakeLocal` or `WakeRemote`, `RingDoorbell`, `Interrupt`,
`waiters_pending`, `wake_proc` are a wake-up. All offsets fall into one bucket, all
sleepers have the same priority. `waiter_arr`, a counter for user space that the
driver raises and never reads, is left out. `handle_vcxl_cond_wait` checks the offset against and computes the address from a local `ivpci_dev` that it never sets
(`cxl_futex_waitwake.c:404`, used from 420 on), where it means its parameter: this is undefined, and what it does depends on what the
register or the stack happens to hold. The model has the one outcome in which the call works, that it is the parameter; the others (an error, a fault, a
foreign word) are not modelled, and `NoMissedWake` says nothing of a build in which they occur.

**LockBench** is the loop of the benchmark programs: each thread takes the lock `LOCK_NUM`
times; `inside` is the set of owners, and a thread that dies inside stays in it.
The lock modules extend it with one step per access to shared memory:

- **JJLock**: the Jayanti-Joshi recoverable abortable lock on its min array. Requests are
  leaves of a tree whose inner nodes are refreshed, twice each, by a compare-and-swap;
  `promote` gives the lock to the request at the root. **JJPortLock** is the variant whose
  requests are the bits of one word. Threads may die anywhere and call again, and an
  abort signal may strike while they wait.
- **QSpinLock**: the queued spinlock with its pending bit and four nodes for each thread;
  **OsqLock**: the queue that a spinning thread may leave; **RmcsLock**: the recoverable MCS
  lock, whose cleanup the code does not have; **TasLocks**: test-and-set on a byte, and
  with the owner's id in the word.

**IvshmemServer** has the server's event loop (`poll_events`: events fetched in batches in the
order in which edge-triggered epoll reports them), its handlers cut at each send
because the receiver may be gone, and the clients that read messages and
notifiers. A message carries what it says and the notifier that goes with it;
byte formats are left out. Sockets hold every message: that `sendmsg` on a non-blocking socket fails when the client has not read for long and its buffer is
full, which ends the server as a closed socket does (`cmsg.rs:62`), is not modelled. **IvpciDriver** cuts the load of the module, a probe and a removal
where a process can see the difference; every kernel call that the code tests may
fail, in the way that the call has. `devm_memremap_pages`, `device_create` and `class_create` fail by an error pointer, which the code, testing for NULL,
takes for success: the probe goes on without the mapping or the file (`Unnoticed`), and the load without the class (`NoClass`). **Doorbell** is the protocol of `event_toggle` between a guest
that echoes and one that measures round trips.

## 3. Runs

| Run | What it shows | Bounds |
|---|---|---|
| `lock` | with a detector that is right: mutual exclusion, a holder still owns the word it will overwrite, no word of an earlier life is taken for one's own, replay before use, refinement of RecoverableLock; a survivor takes over the lock of a machine that does not come back; an abandoned lock is always recovered if machines reboot | 2 machines of 2 CPUs that all work and detect, 2 crashes, generations up to 4 |
| `allocator` | five parts. *redo*: an operation happens completely or not at all, a crash never undoes or repeats one, a committed one is executed in the end. *alloc*: list, bitmaps, counts and buddy marks agree, no block is handed out twice while one pool of headers is enough, no assertion of the code fails, refinement of RedoLog. *anyfree*: bitmaps and counts agree although frees at the ends of the list damage it. *buddy*: unless a crash struck among the ancestors, statuses summarise their subtrees, blocks are disjoint, a request fails only if nothing fits and freeing finds the block; leaves stay exact after a crash and replay anywhere. *arena*: after every call the bits are those of the blocks in use, and what the queries answer is so | redo: plans of 1 to 3 entries over 2 locations that overwrite one another, log of 4, 2 crashes; alloc: 3 objects, one pool of 4 headers, 2 machines, 1 crash; anyfree: 2 objects, 1 machine, frees anywhere, 2 crashes; buddy: 7 of 8 blocks, 1 crash; arena: 2 to 8 blocks, requests of 1, 2, 3 and 6 |
| `machines` | two parts. *groups*: slots are whole, of their machine's present life, and each process is in a group once; members run, ended without notice, or shared an address; a failing member is announced under its own name unless its address or its id misleads the code; rebooting machines do not lock each other out. *detector*: exactly the dead are announced, by the third call; only a panic touches a running machine's generation | groups: 2 machines, 3 processes, of which two share an address and one has an id too large, 2 groups of 2, 2 crashes; detector: 2 machines, 3 crashes and reboots, panics |
| `futex` | the ring is a queue with a crash anywhere; no sleeper misses a change; the list and the count of a bucket are those of its sleepers at every step | 2 threads, 2 words in one bucket, one remote waker, one CPU that handles interrupts and wakes locally, ring of 3, 3 changes, 1 crash |
| `bench_device` | `MCLockBench`: every lock of the benchmark excludes, a crashed owner keeps a recoverable one, no request of JJLock is lost in its tree, and all threads get through, but for the case of `bench_jjfinish`. `MCDevice`: *hosts*, *vectors*: when everything has arrived, all clients know exactly each other, and every notification is handled; *driver*: a device is the driver's completely, but for what the kernel refused unnoticed, or not at all; *pingpong*: a round trip ends whatever earlier runs left | JJLock: 2 threads, 2 passages, or 1 with a fault; JJPortLock: 3 threads, 1 passage, 1 fault; OsqLock: 3 threads, 1 passage, 2 waiters leave; the others: 3 threads, 2 passages; 3 connections to 2 sockets, or 2 with 2 vectors; 3 devices (with interrupts, without, with a position too large) for 2 slots, 2 processes; 3 starts of 1 + 2 round trips |
| `alloc_freefirst` | **violation** of `NoBug` | 2 objects, no crash |
| `buddy_alloccrash` | **violation** of `MarkOnlyFree` | 4 blocks, 1 crash |
| `machines_killed` | **violation** of `FailuresRemoved` | part groups, one process is killed by a signal |
| `futex_samecpu` | **violation** of `AtomicQueue` | 2 remote wakers |
| `bench_jjfinish` | **violation** of `TestFinishes` | JJLock, 2 threads, 1 passage, no fault |
| `device_offset` | **violation** of `PeersAgree` | part hosts, `vm_offset = TRUE` |
| `device_bugon` | **violation** of `NoBugOnStrikes` | part driver |

Why the bounds are enough. The lock's races are between one owner, one helper and one
rebooted owner: two machines with two CPUs have all of them, with a CPU to
spin beside each; the proof covers the rest. In the log, three lengths of plans leave
stale commit records before, at and behind a new one; again there is a proof. A list of three has a first, a
middle and a last. Seven of eight blocks need virtual slots of one size and leave a
tree of four levels; an arena of up to eight grows and shrinks across a level. What a detector concludes
concerns one other machine; the theorems cover any number. A group of two slots has a hole before a member. A ring of
three holds two entries, wraps and gets full with three changes. The queued locks
treat the first waiter, the second and the later ones differently, and three
threads have an owner and two waiters; JJLock's tree has an inner node that both of its
leaves refresh, and its races are between a refresh and the two leaves below. Three
connections to two sockets have one that follows another on its socket while a third
watches. Two slots for three devices are reused by a device of another kind.
Other instances were tried too: `futex` passes with two remote wakers and a
separate local one (5.5 million states), the detector with three machines of which one dies
and reboots (2.2 million states), and the part *buddy* with 5 of 8 blocks, where
virtual slots of two sizes mask the end.

Deadlock is checked in `lock`, `allocator`, `alloc_freefirst` and `buddy_alloccrash`. The other systems may come to rest:
processes, changes, passages and connections are bounded and programs end.

Symmetry is used in `futex` (wakers, threads and words are
interchangeable, and only safety is checked).

## 4. Fairness

Weak fairness only; no claim needs a thread to win a race that it may lose for ever.

The specification of `bench_device` states no fairness: each of its liveness properties begins with the fairness of the part that it is about (`LocksFair`,
`ServerFair`, `DoorbellFair`).

- `TtasLock`: a CPU inside a call goes on (`LockStep`): preemption is off and
  the code does not block there. The detection ioctl is called in a loop on
  every machine, on some CPU (`detect_os_failure` for each pair of
  machines). `AbandonedLockRecovered` adds that somebody reboots a dead machine, which is
  an assumption on the operator of the pod. No claim is made that a given CPU gets the lock
  (test-and-test-and-set does not promise it).
- `RedoLog`: the CPU inside goes on, and somebody recovers a lock left by a dead machine,
  which is what `SurvivorsHelp` and `AbandonedLockRecovered` show of the lock.
- `LockBench`: every thread takes steps (they are pinned to CPUs of their own), and a
  crashed one is started again, as the recovery code does. A spin is a step that waits for its condition.
- `IvshmemServer`: the server is a loop around epoll_wait and a client one around select; both
  go on. Nobody has to connect, leave or notify.
- `Doorbell`: an interrupt that is pending is delivered and the two programs go on; nobody has to
  start or kill them.

## 5. What is proved

Every theorem holds for all values of the constants that satisfy the assumption given.

| Module | Theorem | Statement | Assumes |
|---|---|---|---|
| `TtasLockProofs` | `TypeCorrect` | `Spec => []TypeOK` | at least one machine and one CPU, `Workers \subseteq Procs` |
| | `LockInvariant` | `LockInv` holds always | the same, an accurate detector and boots slower than a helper's look at the word (`FalseSuspicion = FALSE`) |
| | `Exclusion` | `MutualExclusion` | as above |
| | `RecoveryFirst` | `ReplayBeforeUse` | as above |
| | `OwnLifeOnly` | `NoStaleReentry` | as above |
| | `Refinement` | `Spec` implements `RecoverableLock` | as above |
| `RedoLogProofs` | `LogIsAtomic` | `Spec` implements `AtomicStore` | `PlansFit`: plans fit into the log |
| | `NothingMissing` | `QuiescentView` | as above |
| `MachinesProofs` | `DetectorAccurate` | `Accurate` | `Timely`: calls in step to within one, no reboot before the death was noticed |
| | `GenerationsKept` | `OwnGenerationCurrent` | as above |
| | `DeathsNoticed` | `NoticedInTime` | none on speeds or reboots (`Sizes`: the constants are numbers) |
| `FutexWakeProofs` | `RingExclusion` | `QueueExclusive` | distinct identities of the callers |
| | `RingIsQueue` | the ring implements `FifoQueue` | as above |
| | `RingTypes` | `QueueTypeOK` | as above |
| | `BucketIsTrue` | `BucketTrue`: list, count and lock of the bucket | `ThreadsFinite`: finitely many threads |
| | `EverySleeperWoken` | `NoMissedWake` | `EveryBellCounts`: distinct identities, ALL wake-ups, a doorbell raises an interrupt each time, wakers in the queue are on other machines |
| `MachinesProofs` | `ShownSlotsWhole` | `SlotsWhole` | `Orderly`: the rules of section 6, distinct ids of a machine's processes; nothing on addresses, the size of ids and how processes end |
| | `MembersOnce` | `NoDuplicateMember` | as above |
| | `ShownMembersAlive` | `MembersAlive` | as above |
| | `BootsGoOn` | `BootsNotStuck` | as above |
| | `FailuresAnnounced` | `NewsAreFailures` | as above |
| | `GroupTypes` | `GroupTypeOK` | as above |
| `BenchLocksProofs` | `RmcsExclusion` | `Exclusion` of RmcsLock | |
| | `TasExclusion` | `Exclusion` of TasLocks | `recoverable \in BOOLEAN` |
| | `JJExclusion` | `Exclusion` of JJLock | |
| | `PortExclusion` | `Exclusion` of JJPortLock | |
| `QSpinProofs` | `QspinExclusion` | `Exclusion` of QSpinLock | |
| `BuddyProofs` | `AncestorsAreConsistent` | `TreeConsistent` | `OrderFits`: the order is at least 1, and the memory fills more than half of the tree (what `buddy_tree_order_for_memory` chooses) |
| | `BlocksNeverOverlap` | `BlocksDisjoint` | as above |
| | `SearchesAreExact` | `SearchesExact` | as above |
| | `SmallestBlocksExact` | `LeavesExact` | as above |
| | `BuddyTypes` | `BuddyTypeOK` | as above |
| `IvpciProofs` | `DevicesStayWhole` | `DevicesWhole` | `DriverAssumption`: the number of slots is a number; `null` is neither a device nor a slot |

The locks of the benchmark assume `BenchAssumption`: threads, passages and faults are natural numbers.

The assumptions fit together. `FalseSuspicion = FALSE` is what `DetectorAccurate` gives, and
`RedoLog` takes its lock steps from `RecoverableLock`, which `Refinement` shows the lock to implement.
That the detector is timely, and that a boot outlasts a helper's look at the word, is a matter of the machines' clocks and stays an assumption.

**The lock.** Mutual exclusion alone is not inductive: a recoverer decides from a word
it read earlier, and that word must still mean the same when its compare-and-swap
succeeds. The idea is a *stale* word: one whose machine is down, or which is older than
every word a running CPU of its machine can write. Generations only grow (lemma
`GenerationsGrow`) and words are signed with the current one (`WordsAreFresh`), so a stale word
is stale for ever (`StaleForever`) and nobody writes it again: if the compare-and-swap finds it,
the lock has been abandoned all the time. `LockInv` says that a taken lock is either held by
the CPU that signed it (`HolderOwnsWord`) or stale (`AbandonedIsStale`), that what a recoverer is
about to replace is free or stale (`ReplacesStale`), that a machine boots with one CPU
(`BootsAlone`), and that a replay is due only under a taken lock (`ReplayUnderLock`).
Lemma `IdentifiersInvert` shows that machine and CPU can be read back from a process id.

**The redo log.** The mapping is the difficulty: the abstract memory is neither `mem` nor the log but what
replaying the log would make of `mem` (`View`), and it has to stay put during all stores but
the checksum's. `LogInv` says for each label of the writer what log, position and memory have in
common: while recording (`EntryOK`, `EraseOK`) the entries before the position are
the plan's, the next slot is erased, so that nothing old is found behind them, and old commit
records that would fit are harmless (`FreshFrom`); between the two stores of the commit record
(`CommitOK`) the scan finds nothing; after it, exactly the plan (`LastFinds`); while executing (`ExecOK`) the
locations of the first entries are written, and executing again from the start gives the same memory
because a location's last writer wins (`ApplyForgets`, `ExecutedAll`). Then each store is a stutter, the checksum is the
abstract commit, and a crash or a recovery changes neither.

**The detector.** A false alarm needs two calls of one machine without a beat of the other. `SpeedBound` and
`MissesBounded` relate the misses that a machine has counted to how far it is ahead of the other (`lead`), which `Timely`
bounds; `SeesItself` and `NoCallWhenDown` keep a machine's own entry and dead machines out of it.
That deaths are noticed needs no timing: `Noticing` says what the calls that have looked at a machine since its last beat
(`Looked`) have left behind. After one the beat is consumed, after two a miss is counted, after three the machine is not believed alive.

**The ring.** The callers share a lock without a generation, hence distinct identities. `OwnsLock` is exclusion;
`LoadedCurrent` says that positions loaded under the lock are still the shared ones, and
`DataMoved` that the entry is in place before the position is stored. A store of `write` or `read` is then an
abstract enqueue or dequeue (`Grows`, `Shrinks`, by arithmetic modulo the size), everything else a stutter.

**The wake-up.** A change of a word passes through five hands before its sleepers run: the waker, the queue, the doorbell, the handler,
the scan. `WakeInv` has two parts that only together survive every step. `WakeComing`: whoever sleeps, or holds the
bucket's lock to go to sleep, on a value that has changed has a wake-up on its way (`OnItsWay`): a waker that has not stored the position yet, an
entry of the queue, or a handler or local waker that has not scanned yet. `BellsCover`: the queue never holds more entries than interrupts that are
pending, being taken or about to be rung (`Unrung`, `Taking`). Under both lies `BucketTrue`: the list is exactly the sleepers, the count
exactly those between `waiters_inc` and their return, so that a scan that skips the bucket because nobody is counted (`waiters_pending`)
has nobody to wake; it needs no assumption on wake-ups and doorbells, and is a theorem of its own. When all is quiet the queue is empty and nobody needs a wake-up. A crash that loses a wake-up sets `lost`
and ends the claim. What removing threads from the list leaves (`WithoutIs`) is proved by looking at the shortest
prefix for which it would be wrong (`MinNat`, from the library's `WFMin`).

**The process groups.** `SlotsWhole` and the others speak of slots of existing groups; a crash may leave the rest of the table in any
state that a later operation then meets. `GroupInv` says it of every slot: `HeldWhole` (a slot in use for a machine belongs to an existing group and has
address and id of one of its processes), `HeldOnce` (no process has two slots anywhere), `HeldAlive` (those of a running machine are of its present life and run, ended without notice, or shared an address), `LeftForNobody` (a slot that a
cut leave left in use for OS id 0 has no address or that of a process that has ended; `notify_proc_failure` may find it first when the address is used again, which makes the two processes
namesakes and is what the exemption in `MembersAlive` is for), `RunningKnown` and `HostsKnown`.
All operations but a join only take away: `Shrinks` says that a slot which holds a process after the step is the one before, and lemma
`ShrinksKeeps` that this keeps the invariant, whether the operation is done or cut after any store. A join adds one process to a free slot (`Joined`, `JoinedKeeps`), with `in_use`
stored last, so that a cut one adds nothing.

**The RMCS lock.** The queue exists in no variable: it is spread over the swapped tail and the links still
to be written. `RmcsInv` says that there is a sequence of threads q[h] .. q[e-1] of which the first
may enter, each one's `next` is its successor or not yet written, only the first can have been told to
go, and the tail is the last. A swap appends, a hand-over drops the first.

**The test-and-set locks.** With the owner in the word (`OwnerInv`), being inside and naming the owner go
together, and a thread that died inside is still named; with the bare byte (`ByteInv`) the
invariant must say that two threads cannot both be between taking and giving back.

**The JJ locks.** The tree, the tokens and the bits play no part in exclusion, and the proofs do not constrain them: whatever
a promotion has read, it replaces only a word that names nobody, and the one store that is not a compare-and-swap is made in
exit by a thread that the word names. `JJInv` and `PortInv` therefore say that whoever is inside, or in exit before
that store, is the thread named. The stale requests of `bench_jjfinish` thus cost liveness and never exclusion.

**The queued spinlock.** There are three ways in: the free word, the pending bit, and the queue. `QspinInv` writes the queue out, as for RMCS, as threads
q[h] .. q[e-1] in the order in which they exchanged the tail (`QTheQueue`); a predecessor's link may be missing until its successor has stored it, and the tail is
0 exactly when the queue is empty. Only the first can be past its wait, so one thread at most claims the word, and it does so when neither owner nor pending
bit is set (`QWord`). The pending bit is taken on a word without a tail, and its holder waits for the owner only; a queue that forms meanwhile waits for both. A thread that fails to
take the bit because others queued up drops back into the queue. `QNodes` says that a thread uses the first of its four nodes, which is clean when it goes into the queue.

**The buddy tree.** Consistency between entries says nothing while an entry is repairing, and a search is only as good as the statuses it follows. `BuddyInv` has three
parts. `Shape` says where on the way up an entry is. `Sound`, as long as no machine died among the ancestors, says that
every status except the one to be repaired next is the one its children imply (`Exact`), and that the positions held, about to be taken and still to be masked do
not overlap. `LeafInv` is what a crash cannot damage: the smallest blocks tell whether they are held. That the repair may return at the first ancestor that has its status is lemma
`RepairDone`: an ancestor that does not change leaves the ones above consistent. For the searches there is an induction along a path, taken as the
smallest counterexample (`Smallest`, from the library's `WFMin`): the descent never enters a branch without room (`PathHasRoom`), so that an allocation ends at a free position
whenever there is one; and going up from the smallest block at an address finds the position that was allocated there (`AddressFindsMark`). `pow2` is a recursive function, and that it is what its definition says (`Pow2Def`) is proved the same way.

**The driver.** `DevicesWhole` speaks of devices that no probe or removal is working on. `DriverInv` adds that the running one has its slot and its device to itself,
that a device with driver data is bound, so that only one without is probed, and that the slots in use are never more than `g_ivpci_count`: although
`vcxl_ivpci_remove` never lowers the count, a probe that passes the test against `g_max_devices` finds a free slot. The error labels are compared
with the steps that were done: whichever step fails, falling through from its label undoes exactly the ones before (`FallsThrough`). What the kernel refused by an error pointer is missing
from the device and nowhere else: `mem_start` says whether the mapping is (`MemStart`), and the labels give back only what was taken.

## 6. Findings, and where the properties stop

The seven violation runs, each quoted in `PROJECT.json`:

- `alloc_freefirst`: freeing the first of several objects records an entry with a null
  destination, and `execute_log` stops at `BUG_ON(dst2 == NULL)`. Hence `FreeWhere` in part *alloc*.
- `buddy_alloccrash`: the repair of the ancestors returns at the first one that has its value.
  Executed again after a crash in its middle, it stops below the ancestors that are still
  wrong, and a later search hands out a block that is in use.
- `machines_killed`: a failing member is to be removed from its group, and to fail is to end with a code other than 0 or abnormally. `hook_do_exit` looks at `exit_code >> 8`,
  which is 0 after a signal: a killed process stays a member, and nobody is told. Hence the exemption of quiet exits in `MembersAlive`.
- `futex_samecpu`: `do_vcxl_wake` takes the queue's lock under the id of the machine it wakes. Two wakers
  on CPUs with the same number take each other's lock for their own.
- `bench_jjfinish`: a compare-and-swap in the min array finds a value that has come back and puts a withdrawn request at
  the root. The lock then goes to a thread that does not want it; if that was its last passage, the others wait for ever.
- `device_offset`: with `--vm-offset` the server tells a new client the others' ids without the offset.
- `device_bugon`: the device file exists before the slot names the device; a process that opens it in between hits `BUG_ON`.

Other limits, each reproduced by changing the constants or the properties of a run:

| Run and change | What TLC then finds |
|---|---|
| `allocator`, part *alloc*, `FreeWhere = {"last"}` | `MetadataConsistent` (`ListComplete`): after the last object is freed the next one is not reachable from the head |
| part *alloc*, `Ids = {1, 2}`, 3 blocks, `NUM_OBJ_SLOTS = 1`, `REDOLOG_ENTRIES = 10`, no crash | `MetadataConsistent` (`BlocksDisjoint`): an allocation that needs a new pool of headers gets the pool's block as its object, since the search does not see what is only recorded |
| part *alloc*, `Ids = {1, 2}`, 1 block, `NUM_OBJ_SLOTS = 1` | `NoBug`: a machine that recovers while all pools are full follows a null `cur_obj_recs` |
| part *redo*, invariant `MalformedOnlyMidCommit` | violated: `buddy_alloc.c:460` explains a malformed checksum by lost stores; an old commit record behind a shorter new log gives one with every store kept, and the machine does not come up |
| part *buddy*: the exemption | consistency of the tree, disjointness of its blocks (`BlocksDisjoint`) and the searches are claimed only while no crash struck between two ancestors (`damaged`); `buddy_alloccrash` shows overlapping blocks after one. Leaves stay exact always |
| part *arena*, `ShrinkUsed = TRUE` | `ArenaExact`: halving an arena that is in use clears bits of blocks that stay (`bitset.c:104`). The allocator never resizes its arena |
| part *arena*: the ranges asked for | `buddy_is_free` never looks at the last position of its range (`buddy_alloc.h:1245`), so its answers are compared only for ranges that end before the last block |
| `lock`, `FalseSuspicion = TRUE` | `MutualExclusion`: a machine wrongly believed dead loses the lock while inside |
| `lock`, `recover_meta` without `HelpUnderWay` | `MutualExclusion`: a machine boots after the helper's timeout and takes the lock before the helper reads the word; the helper finds a word of the machine it helps and takes it over. `ReplayBeforeUse` is lost too |
| `machines`, `MaxSkew = 2` or `QuickReboot = TRUE`, without `Timely` | `Accurate` and `OwnGenerationCurrent`: a slow machine, or one back too soon, is announced dead while it runs, and its generation raised |
| `machines`, property `NamesTheInstance`, `Panics = FALSE` | violated: every detector raises the generation, so a second death is announced under one the dead machine never had |
| `futex`, `Coalesced = TRUE` | `NoMissedWake`: doorbells are eventfds (`event_notifier.rs:36`), so two may raise one interrupt, which takes one entry out; the other thread sleeps on, and every later interrupt serves an older request. `proc_death.c:177` empties its queue instead |
| `machines`, part *groups*, a rule less, without `Orderly` | see below |

The rules of `CxlCgroup` are needed for `MembersAlive`, and only for that: without *created* or *oneGroup* `notify_proc_failure` misses a member (it skips groups
that do not exist, and stops at the first group it finds the process in); without *emptyFirst* a crash inside a deletion
tears the slot of a live member, whose next join gets it a second one, and its failure empties only the torn one. Nothing keeps programs
to these rules. How a process ends, the address the kernel gives it and the size of its id are not restricted: the two properties about them name the cases in which the
code is wrong (`ExitQuietly`, an address that another process has or had, an id the message has no room for), all of which occur in the run.

Seen while modelling and left to the reader, as no property depends on them: the ioctl drops the
result of `do_join_cxlcg` (`cxl_ivpci.c:539`); NEXT and ALL wake-ups share a queue
(`cxl_futex_waitwake.c:733`); the server panics when a socket is reused before its hang-up is handled
(`server.rs:240`); `g_ivpci_count` is never lowered (`cxl_ivpci.c:814`) and `nvectors` stays in a slot that is
given back (`cxl_ivpci.c:232`); a module load that fails leaves the PCI driver registered (`cxl_ivpci.c:1027`);
the flush of the buddy tree takes bit numbers for bytes (`buddy_alloc.h:1604`, where this build flushes nothing).

## 7. Only model-checked

- Liveness, which TLAPS does not do: `SurvivorsHelp`, `AbandonedLockRecovered`, `CommittedIsExecuted`, `PassagesEnd`, `NotificationsHandled` and
  `RoundTripsEnd`.
- `BuddyArena`: the whole interface of the buddy library on its bitset (`ArenaExact`). Its calls are loops over bits, written as recursion, and what they
  compute for every size is induction over data. The tree itself and its searches are proved, in `BuddyProofs`.
- `CxlAlloc`: lists, pools and null pointers (`MetadataConsistent`, `NoBug`), and the refinement of `RedoLog` (`ImplementsRedoLog`). The refinement needs that no old commit record
  fits a part of a new plan (`Fresh`), which depends on all plans recorded before.
- `Exclusion` of `OsqLock`, where waiters leave the queue from the middle and two neighbours may leave at once, and `JJRequestVisible`, that no request of `JJLock` is
  lost in its tree.
- `IvshmemServer` (`PeersAgree` folds over the messages a client has not read, again induction over data) and `Doorbell`.

## 8. Not modelled

- What a file of a device without its mapping does with the error pointer in `mem_start`: `IvpciDriver` has the mapping missing, and what follows a pointer into it is a fault.
- A full socket buffer in the ivshmem server, and the unset `ivpci_dev` of `handle_vcxl_cond_wait` (section 2).
- Embedded arenas, the fragmentation metric and debug printing of the buddy library.
- The persistent compare-and-swap: every build defines `BYTE_GRANULAR`, for which it is a plain one. Stores that are lost or
  reordered in a crash are therefore not modelled either.
- The multi-producer queue, the robust list, the death notices of `proc_death.c`, the leader election,
  `drain_circular_queue`, trylock and lock transfer: nothing in the driver calls them. Every call of the hash index is commented out.
- NEXT wake-ups have an action in FutexWake (`WakeType`) but no run of their own: they leave sleepers on a
  changed word by design, and share one queue with ALL wake-ups. Sleepers have one priority, for which the priority list is a queue.
- Probe and removal of the demonstration driver (they repeat those of the CXL driver) and the host's timing loop.
- ioctl copying, ftrace hooks, netlink, the user-space wrappers, VM tooling: I/O without a protocol.
- Hash collisions between group names and collisions of checksums; `secret_str` is never compared.
