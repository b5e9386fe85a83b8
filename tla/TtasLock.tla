------------------------------ MODULE TtasLock ------------------------------
(***************************************************************************)
(* The test-and-test-and-set lock that guards the allocator's shared       *)
(* metadata (src/common/tatas), as the driver uses it: every CPU of every  *)
(* machine takes it with the generation of its machine (meta_lock), a      *)
(* machine that reboots recovers it (recover_meta), and a machine whose    *)
(* failure detector gives up on another one recovers it on behalf of the   *)
(* dead machine (do_os_failure_detection).                                 *)
(*                                                                         *)
(* One action per access to the shared word.  A CPU runs one call at a     *)
(* time: the code disables preemption from the call of the lock to the     *)
(* return of the unlock.  Crash stops every CPU of a machine between any   *)
(* two accesses; the shared memory survives.                               *)
(***************************************************************************)
EXTENDS Integers

CONSTANTS
  NrMachines,       \* total_machines; machine ids start from 1
  NrCpus,           \* nr_cpu_ids, the same on every machine
  Workers,          \* the CPUs that run allocator operations
  FalseSuspicion,   \* may a detector time out on a machine that is up, or a
                    \* machine be back before a helper has read the lock word?
  MaxCrashes,       \* bound: how many machine crashes happen
  MaxGen            \* bound: generations stay below it

ASSUME SizeAssumption == NrMachines \in Nat \ {0} /\ NrCpus \in Nat \ {0}

ASSUME SuspicionAssumption == FalseSuspicion \in BOOLEAN

Machines == 1..NrMachines

\* get_process_identifier: the id of CPU `cpu' (0, 1, ...) of a machine.
ProcessIdentifier(machine_id, cpu) == NrCpus * (machine_id - 1) + cpu

\* The inverse the recovery code computes from the owner in the lock word.
MachineOf(process_id) == process_id \div NrCpus + 1

Procs == 0 .. (NrMachines * NrCpus - 1)

ASSUME WorkersAssumption == Workers \subseteq Procs

\* The 64-bit word: lock bit, owner and generation of the owner's machine.
\* UNLOCKED is the word 0, so it decodes to owner 0 as well.
LockWord == [b : {0, 1}, owner : Procs, gen : Nat]

UNLOCKED == [b |-> 0, owner |-> 0, gen |-> 0]

\* Mutant: the generation is left out of the word.
composeWithoutGen(process_id, gen_id) ==
  [b |-> 1, owner |-> process_id, gen |-> 0]

compose(process_id, gen_id) ==
  [b |-> 1, owner |-> process_id, gen |-> gen_id]

VARIABLES
  csst,         \* the lock word in shared memory
  gens,         \* os_generation_ids, in shared memory
  os_live,      \* os_live[h]: the machines that h's detector believes alive
  status,       \* "up", "down" or "booting" (inside recover_meta)
  pc,           \* what each CPU does next
  call,         \* why it wants the lock: "op", "help" or "boot"
  old,          \* old_machine_id: whose lock it recovers, 0 if nobody's
  val,          \* the word the CPU wants to install
  exp,          \* the word ttas_lock_recover_kern has read
  needsReplay,  \* history: a CPU died inside and nobody replayed the log since
  crashes       \* how many crashes there were

vars == <<csst, gens, os_live, status, pc, call, old, val, exp, needsReplay, crashes>>

CpusOf(m) == {p \in Procs : MachineOf(p) = m}

Init ==
  /\ csst = UNLOCKED
  /\ gens = [m \in Machines |-> 0]
  /\ os_live = [m \in Machines |-> Machines]
  /\ status = [m \in Machines |-> "up"]
  /\ pc = [p \in Procs |-> "idle"]
  /\ call = [p \in Procs |-> "op"]
  /\ old = [p \in Procs |-> 0]
  /\ val = [p \in Procs |-> UNLOCKED]
  /\ exp = [p \in Procs |-> UNLOCKED]
  /\ needsReplay = FALSE
  /\ crashes = 0

Goto(p, label) == pc' = [pc EXCEPT ![p] = label]

\* The CPUs in S forget the locals of the call they were in.
Forget(S) ==
  /\ call' = [p \in Procs |-> IF p \in S THEN "op" ELSE call[p]]
  /\ old' = [p \in Procs |-> IF p \in S THEN 0 ELSE old[p]]
  /\ val' = [p \in Procs |-> IF p \in S THEN UNLOCKED ELSE val[p]]
  /\ exp' = [p \in Procs |-> IF p \in S THEN UNLOCKED ELSE exp[p]]

-----------------------------------------------------------------------------
(* meta_lock / meta_unlock around an allocator operation *)

\* meta_lock reads the machine's generation before it calls the lock.  It is
\* called by an operation, or by recover_meta when it could not recover the lock.
meta_lock(p) ==
  /\ \/ /\ pc[p] = "idle"
        /\ p \in Workers
        /\ status[MachineOf(p)] = "up"
        /\ call' = [call EXCEPT ![p] = "op"]
     \/ /\ pc[p] = "failed"
        /\ UNCHANGED call
  /\ val' = [val EXCEPT ![p] = compose(p, gens[MachineOf(p)])]
  /\ Goto(p, "recover")
  /\ UNCHANGED <<csst, gens, os_live, status, old, exp, needsReplay, crashes>>

\* ttas_recover_with_gen: a CPU whose own word is in the lock is inside already.
ttas_recover_with_gen(p) ==
  /\ pc[p] = "recover"
  /\ Goto(p, IF csst = val[p] THEN "cs" ELSE "spin")
  /\ UNCHANGED <<csst, gens, os_live, status, call, old, val, exp, needsReplay, crashes>>

\* The inner loop of ttas_enter_with_gen ends when it reads UNLOCKED.
ttas_enter_read(p) ==
  /\ pc[p] = "spin"
  /\ csst = UNLOCKED
  /\ Goto(p, "cas")
  /\ UNCHANGED <<csst, gens, os_live, status, call, old, val, exp, needsReplay, crashes>>

ttas_enter_cas(p) ==
  /\ pc[p] = "cas"
  /\ \/ /\ csst = UNLOCKED
        /\ csst' = val[p]
        /\ Goto(p, "cs")
     \/ /\ csst # UNLOCKED
        /\ Goto(p, "spin")
        /\ UNCHANGED csst
  /\ UNCHANGED <<gens, os_live, status, call, old, val, exp, needsReplay, crashes>>

\* meta_unlock or done_ttas_lock_recover: the word is overwritten whatever it
\* is.  A recoverer has replayed the log by then, and a machine that leaves
\* recover_meta is up.
ttas_exit(p) ==
  /\ pc[p] = "cs"
  /\ csst' = UNLOCKED
  /\ Goto(p, "idle")
  /\ needsReplay' = (needsReplay /\ call[p] = "op")
  /\ status' = [status EXCEPT ![MachineOf(p)] = "up"]
  /\ Forget({p})
  /\ UNCHANGED <<gens, os_live, crashes>>

-----------------------------------------------------------------------------
(* ttas_lock_recover_kern *)

\* Mutant: the lock of another CPU of the dead machine is not taken over.
RecoverableBySameCpu(p, word, old_machine_id) ==
  \/ word.owner = p
  \/ word = UNLOCKED

\* The word is worth taking: this CPU's own, nobody's, or the old machine's.
\* The generation in the word is not looked at.
Recoverable(p, word, old_machine_id) ==
  \/ word.owner = p
  \/ word = UNLOCKED
  \/ MachineOf(word.owner) = old_machine_id

\* The detector of p's machine times out on m.  It adds one to m's generation,
\* announces the failure, and calls meta_lock_recover on m's behalf.  It does so
\* once per failure, while it believes m alive.
detect_os_failure(p, m) ==
  /\ pc[p] = "idle"
  /\ status[MachineOf(p)] = "up"
  /\ m # MachineOf(p)
  /\ m \in os_live[MachineOf(p)]
  /\ FalseSuspicion \/ status[m] = "down"
  /\ gens[m] < MaxGen
  /\ gens' = [gens EXCEPT ![m] = @ + 1]
  /\ os_live' = [os_live EXCEPT ![MachineOf(p)] = @ \ {m}]
  /\ call' = [call EXCEPT ![p] = "help"]
  /\ old' = [old EXCEPT ![p] = m]
  /\ Goto(p, "rread")
  /\ UNCHANGED <<csst, status, val, exp, needsReplay, crashes>>

\* A detector that sees m's heartbeat move believes it alive again.
see_heartbeat(h, m) ==
  /\ status[h] = "up"
  /\ status[m] = "up"
  /\ m \notin os_live[h]
  /\ os_live' = [os_live EXCEPT ![h] = @ \cup {m}]
  /\ UNCHANGED <<csst, gens, status, pc, call, old, val, exp, needsReplay, crashes>>

\* Mutant: a rebooted machine keeps its generation and takes the lock at once.
recover_meta_same_gen(p) ==
  LET m == MachineOf(p) IN
  /\ status[m] = "down"
  /\ status' = [status EXCEPT ![m] = "booting"]
  /\ os_live' = [os_live EXCEPT ![m] = Machines]
  /\ call' = [call EXCEPT ![p] = "boot"]
  /\ val' = [val EXCEPT ![p] = compose(p, gens[m])]
  /\ pc' = [q \in Procs |-> IF q = p THEN "recover"
                            ELSE IF MachineOf(q) = m THEN "idle" ELSE pc[q]]
  /\ UNCHANGED <<csst, gens, old, exp, needsReplay, crashes>>

\* A CPU has given up on m and has not yet read the word it recovers for m.
HelpUnderWay(m) == \E q \in Procs : pc[q] = "rread" /\ call[q] = "help" /\ old[q] = m

\* recover_meta on a rebooted machine, run by one of its CPUs: a new
\* generation, then the lock is recovered from the machine's earlier life.  A boot
\* takes longer than a helper needs from its timeout to the read of the word.
recover_meta(p) ==
  LET m == MachineOf(p) IN
  /\ status[m] = "down"
  /\ FalseSuspicion \/ ~HelpUnderWay(m)
  /\ gens[m] < MaxGen
  /\ status' = [status EXCEPT ![m] = "booting"]
  /\ gens' = [gens EXCEPT ![m] = @ + 1]
  /\ os_live' = [os_live EXCEPT ![m] = Machines]
  /\ call' = [call EXCEPT ![p] = "boot"]
  /\ old' = [old EXCEPT ![p] = m]
  /\ pc' = [q \in Procs |-> IF q = p THEN "rread"
                            ELSE IF MachineOf(q) = m THEN "idle" ELSE pc[q]]
  /\ UNCHANGED <<csst, val, exp, needsReplay, crashes>>

\* meta_lock_recover reads the CPU's own generation and then the word.  When the
\* word belongs to another machine, a helper does nothing more, and recover_meta
\* falls back on the ordinary lock.
ttas_lock_recover_read(p) ==
  /\ pc[p] = "rread"
  /\ \/ /\ Recoverable(p, csst, old[p])
        /\ val' = [val EXCEPT ![p] = compose(p, gens[MachineOf(p)])]
        /\ exp' = [exp EXCEPT ![p] = csst]
        /\ Goto(p, "rcas")
        /\ UNCHANGED <<call, old>>
     \/ /\ ~Recoverable(p, csst, old[p])
        /\ call[p] = "boot"
        /\ Goto(p, "failed")
        /\ UNCHANGED <<call, old, val, exp>>
     \/ /\ ~Recoverable(p, csst, old[p])
        /\ call[p] = "help"
        /\ Goto(p, "idle")
        /\ Forget({p})
  /\ UNCHANGED <<csst, gens, os_live, status, needsReplay, crashes>>

\* Mutant: the recoverer frees the lock first and replays the log afterwards.
recover_by_freeing(p) ==
  /\ pc[p] = "rcas"
  /\ csst' = IF csst = exp[p] THEN UNLOCKED ELSE csst
  /\ Goto(p, IF csst = exp[p] THEN "cs" ELSE IF call[p] = "boot" THEN "failed" ELSE "idle")
  /\ UNCHANGED <<gens, os_live, status, call, old, val, exp, needsReplay, crashes>>

\* Mutant: the recoverer writes its word without comparing.
recover_by_writing(p) ==
  /\ pc[p] = "rcas"
  /\ csst' = val[p]
  /\ Goto(p, "cs")
  /\ UNCHANGED <<gens, os_live, status, call, old, val, exp, needsReplay, crashes>>

\* The CAS from the word that was read.  TRANSFERED: the CPU is inside, to
\* replay the log.  FAILED: a helper does nothing more, a booting machine
\* queues up behind whoever was faster.
ttas_lock_recover_cas(p) ==
  /\ pc[p] = "rcas"
  /\ \/ /\ csst = exp[p]
        /\ csst' = val[p]
        /\ Goto(p, "cs")
        /\ UNCHANGED <<call, old, val, exp>>
     \/ /\ csst # exp[p]
        /\ call[p] = "boot"
        /\ Goto(p, "failed")
        /\ UNCHANGED <<csst, call, old, val, exp>>
     \/ /\ csst # exp[p]
        /\ call[p] = "help"
        /\ Goto(p, "idle")
        /\ Forget({p})
        /\ UNCHANGED csst
  /\ UNCHANGED <<gens, os_live, status, needsReplay, crashes>>

-----------------------------------------------------------------------------
\* A machine stops: its CPUs execute nothing more, its DRAM is lost.
Crash(m) ==
  /\ status[m] # "down"
  /\ crashes < MaxCrashes
  /\ status' = [status EXCEPT ![m] = "down"]
  /\ pc' = [p \in Procs |-> IF MachineOf(p) = m THEN "off" ELSE pc[p]]
  /\ needsReplay' = (needsReplay \/ \E p \in CpusOf(m) : pc[p] = "cs")
  /\ Forget(CpusOf(m))
  /\ crashes' = crashes + 1
  /\ UNCHANGED <<csst, gens, os_live>>

LockStep(p) ==
  \/ ttas_recover_with_gen(p)
  \/ ttas_enter_read(p)
  \/ ttas_enter_cas(p)
  \/ ttas_exit(p)
  \/ ttas_lock_recover_read(p)
  \/ ttas_lock_recover_cas(p)

Next ==
  \/ \E p \in Procs : meta_lock(p) \/ LockStep(p) \/ recover_meta(p)
  \/ \E p \in Procs, m \in Machines : detect_os_failure(p, m)
  \/ \E h, m \in Machines : see_heartbeat(h, m)
  \/ \E m \in Machines : Crash(m)

Spec == Init /\ [][Next]_vars

-----------------------------------------------------------------------------
Labels == {"off", "idle", "failed", "recover", "spin", "cas", "cs", "rread", "rcas"}

TypeOK ==
  /\ csst \in LockWord
  /\ gens \in [Machines -> Nat]
  /\ os_live \in [Machines -> SUBSET Machines]
  /\ status \in [Machines -> {"up", "down", "booting"}]
  /\ pc \in [Procs -> Labels]
  /\ call \in [Procs -> {"op", "help", "boot"}]
  /\ old \in [Procs -> Machines \cup {0}]
  /\ val \in [Procs -> LockWord]
  /\ exp \in [Procs -> LockWord]
  /\ needsReplay \in BOOLEAN
  /\ crashes \in Nat

\* No two CPUs of the pod are between the lock and the unlock, whatever
\* crashes, reboots and helpers do to the word in between: the buddy tree and
\* the redo log have one writer (the callees marked __must_hold(meta_lock)).
MutualExclusion ==
  \A p, q \in Procs : pc[p] = "cs" /\ pc[q] = "cs" => p = q

\* ttas_exit overwrites the word without reading it.  That releases nobody
\* else's lock because a CPU that is inside still finds its own word there.
HolderOwnsWord ==
  \A p \in Procs : pc[p] = "cs" => csst = val[p] /\ csst # UNLOCKED

\* ttas_recover_with_gen never mistakes a word left by an earlier life of the
\* machine for its own: a rebooted CPU never walks in past the recovery.
NoStaleReentry ==
  \A p \in Procs : pc[p] = "recover" => csst # val[p]

\* After a CPU died inside, no operation gets in before the log is replayed.
ReplayBeforeUse ==
  needsReplay => \A p \in Procs : pc[p] = "cs" => call[p] # "op"

-----------------------------------------------------------------------------
(* The invariant behind the properties above, for a detector that is right *)

\* The CPUs of a machine are off exactly while the machine is down.
OffMeansDown ==
  \A p \in Procs : pc[p] = "off" <=> status[MachineOf(p)] = "down"

\* A CPU inside a call of the lock, with the word it wants to install.
Active(p) == pc[p] \notin {"off", "idle", "failed", "rread"}

\* That word is signed by the CPU, with a generation its machine has had.
WordsSigned ==
  \A p \in Procs : Active(p) =>
    /\ val[p].b = 1 /\ val[p].owner = p
    /\ val[p].gen <= gens[MachineOf(p)]

\* recover_meta is done by one CPU while the others of the machine wait, a CPU
\* recovers the lock of its own machine that boots or of one that is still down,
\* and it does not do so for an operation.
BootsAlone ==
  /\ \A p, q \in Procs :
       /\ MachineOf(p) = MachineOf(q) /\ status[MachineOf(p)] = "booting"
       /\ pc[p] # "idle" /\ pc[q] # "idle"
       => p = q
  /\ \A p \in Procs :
       /\ pc[p] = "rread" =>
            \/ old[p] = MachineOf(p) /\ status[MachineOf(p)] = "booting"
            \/ old[p] \in Machines /\ status[old[p]] = "down" /\ call[p] = "help"
       /\ pc[p] \in {"failed", "rread", "rcas"} => call[p] # "op"

\* A word from an earlier life of its machine: nobody who runs now wrote it,
\* and nobody will write it again.
Stale(word) ==
  LET m == MachineOf(word.owner) IN
  /\ word.gen <= gens[m]
  /\ status[m] # "down" =>
       /\ word.gen < gens[m]
       /\ \A p \in CpusOf(m) : Active(p) => word.gen < val[p].gen

\* A taken lock whose owner is not inside is stale ...
AbandonedIsStale ==
  /\ csst.b = 1 \/ csst = UNLOCKED
  /\ csst.b = 1 /\ pc[csst.owner] # "cs" => Stale(csst)

\* ... and what a recoverer is about to replace is free or stale.
ReplacesStale ==
  \A p \in Procs : pc[p] = "rcas" => exp[p] = UNLOCKED \/ Stale(exp[p])

\* While a replay is due the lock is not free.
ReplayUnderLock == needsReplay => csst.b = 1

LockInv ==
  /\ TypeOK
  /\ OffMeansDown
  /\ WordsSigned
  /\ BootsAlone
  /\ HolderOwnsWord
  /\ AbandonedIsStale
  /\ ReplacesStale
  /\ ReplayUnderLock
  /\ ReplayBeforeUse

-----------------------------------------------------------------------------
Abstract == INSTANCE RecoverableLock WITH
  users <- {p \in Procs : pc[p] = "cs" /\ call[p] = "op"},
  recoverers <- {p \in Procs : pc[p] = "cs" /\ call[p] # "op"}

\* The words, generations and helpers implement the lock the allocator needs.
ImplementsRecoverableLock == Abstract!Spec

-----------------------------------------------------------------------------
(* Liveness *)

\* The lock is taken and whoever took it is gone.
Abandoned == csst.b = 1 /\ \A p \in Procs : pc[p] # "cs"

AbandonedBy(m) == Abandoned /\ MachineOf(csst.owner) = m

\* Running code takes its steps; the detection ioctl is called again and again
\* on some CPU of every machine that is up.
Fairness ==
  /\ \A p \in Procs : WF_vars(LockStep(p)) /\ WF_vars(pc[p] = "failed" /\ meta_lock(p))
  /\ \A h, m \in Machines : WF_vars(\E p \in CpusOf(h) : detect_os_failure(p, m))

FairSpec == Spec /\ Fairness

\* Somebody reboots a machine that is down.
Reboots == \A m \in Machines : WF_vars(\E p \in CpusOf(m) : recover_meta(p))

\* A lock taken to the grave is taken over by a survivor without waiting for
\* the dead machine to reboot, if the survivor's detector believed the machine
\* alive (do_os_failure_detection helps only then) and the survivor survives,
\* unless all its CPUs come to spin on the lock and leave none for detection.
SurvivorsHelp ==
  \A h, m \in Machines :
    (AbandonedBy(m) /\ status[m] = "down" /\ status[h] = "up" /\ m \in os_live[h])
      ~> \/ ~AbandonedBy(m) \/ status[m] # "down" \/ status[h] # "up"
         \/ \A p \in CpusOf(h) : pc[p] # "idle"

\* If dead machines reboot, an abandoned lock is always taken over in the end,
\* even when every CPU of the survivors spins on it and no detector can run.
AbandonedLockRecovered == Reboots => (Abandoned ~> ~Abandoned)
=============================================================================
