------------------------------ MODULE RedoLog ------------------------------
(***************************************************************************)
(* The redo log through which the driver changes the allocator's metadata  *)
(* (driver/src/log.c, recover_with_redolog in driver/src/buddy_alloc.c).   *)
(* An operation writes its entries to the log in shared memory, then the   *)
(* commit record, then executes the entries in place.  A machine may die   *)
(* between any two stores; then some machine takes the lock over, scans    *)
(* the log for a commit record whose checksum fits, and executes it again. *)
(* The log is never truncated: what an operation does not overwrite stays. *)
(*                                                                         *)
(* The lock is RecoverableLock, which the real lock implements (TtasLock), *)
(* so the locals below belong to the one CPU that is inside.               *)
(***************************************************************************)
EXTENDS Replay

CONSTANTS
  Machines,
  Val,                  \* what a location may hold
  Plans,                \* the operations: sequences of entries
  REDOLOG_ENTRIES,      \* the size of the log
  MaxCrashes            \* bound: how many machines die inside

\* Every plan leaves room for its commit record, as the BUG_ONs of the set_*
\* functions demand, and it assigns values to locations.
PlansFit ==
  /\ REDOLOG_ENTRIES \in Nat \ {0}
  /\ \A p \in Plans :
       /\ p \in Seq(UNION {[S -> Val] : S \in SUBSET Loc})
       /\ Len(p) \in 1 .. (REDOLOG_ENTRIES - 1)

VARIABLES
  users, recoverers, needsReplay,   \* the lock
  mem,          \* the shared metadata outside the log
  log,          \* redolog[], from 1
  plan,         \* the entries the CPU inside records and executes
  pos,          \* redolog_pos, or the index of the loop of execute_log
  pc,           \* what the CPU inside does next; "out" when nobody is inside
  crashes

lockVars == <<users, recoverers, needsReplay>>

vars == <<users, recoverers, needsReplay, mem, log, plan, pos, pc, crashes>>

Lock == INSTANCE RecoverableLock WITH Procs <- Machines

Slots == 1..REDOLOG_ENTRIES

\* A slot of the log.  A torn slot has the type of one entry and fields of
\* another.  util_checksum_compute is taken to be perfect: the checksum of a
\* prefix of the log is the prefix; NoSum is in a record not yet summed.
EMPTY_LOG_ENTRY == [tp |-> "EMPTY", e |-> <<>>, check_sum |-> <<>>]
Torn == [tp |-> "TORN", e |-> <<>>, check_sum |-> <<>>]
OpEntry(e) == [tp |-> "OP", e |-> e, check_sum |-> <<>>]
NoSum == <<>>
CommitRecord(sum) == [tp |-> "COMMIT", e |-> <<>>, check_sum |-> sum]

Prefix(n) == SubSeq(log, 1, n)

\* The entries a checksum stands for.
EntriesOf(sum) == [i \in 1..Len(sum) |-> sum[i].e]

Init ==
  /\ Lock!Init
  /\ mem \in [Loc -> Val]
  /\ log = [i \in Slots |-> EMPTY_LOG_ENTRY]
  /\ plan = <<>>
  /\ pos = 1
  /\ pc = "out"
  /\ crashes = 0

-----------------------------------------------------------------------------
(* Scanning the log *)

Commits == {i \in Slots : log[i].tp = "COMMIT"}

FirstCommit == CHOOSE i \in Commits : \A j \in Commits : i <= j

\* Mutant: any commit record will do, its checksum is not compared.
ScanUnchecked ==
  IF Commits = {} THEN "none" ELSE "valid"

\* The loop of recover_with_redolog stops at the first commit record.
Scan ==
  IF Commits = {} THEN "none"
  ELSE IF log[FirstCommit].check_sum = Prefix(FirstCommit - 1) THEN "valid"
  ELSE "malformed"

\* The entries a recovery would execute now, and the metadata it would leave.
Logged == IF Scan = "valid" THEN EntriesOf(Prefix(FirstCommit - 1)) ELSE <<>>

View == Apply(Logged, mem)

-----------------------------------------------------------------------------
(* An operation: record, commit, execute *)

\* The lock is taken and the operation decides, from the metadata it reads
\* under the lock, which entries to record.
Begin(m, p) ==
  /\ Lock!Enter(m)
  /\ pc' = "entry"
  /\ plan' = p
  /\ pos' = 1
  /\ UNCHANGED <<mem, log, crashes>>

\* One of the set_*_log_entry functions writes its entry ...
set_log_entry ==
  /\ pc = "entry"
  /\ log' = [log EXCEPT ![pos] = OpEntry(plan[pos])]
  /\ pos' = pos + 1
  /\ pc' = "erase"
  /\ UNCHANGED <<lockVars, mem, plan, crashes>>

\* ... and erases the one behind it.
erase_next ==
  /\ pc \in {"erase", "eraselast"}
  /\ log' = IF pos \in Slots THEN [log EXCEPT ![pos] = EMPTY_LOG_ENTRY] ELSE log
  /\ \/ /\ pc = "erase"
        /\ pc' = IF pos <= Len(plan) THEN "entry" ELSE "commit"
        /\ UNCHANGED pos
     \/ /\ pc = "eraselast"
        /\ pc' = "exec"
        /\ pos' = 1
  /\ UNCHANGED <<lockVars, mem, plan, crashes>>

\* set_commit_log_entry writes the type of the record ...
set_commit_type ==
  /\ pc = "commit"
  /\ log' = [log EXCEPT ![pos] = CommitRecord(NoSum)]
  /\ pc' = "checksum"
  /\ UNCHANGED <<lockVars, mem, plan, pos, crashes>>

\* ... and then the checksum of everything before it.
set_commit_checksum ==
  /\ pc = "checksum"
  /\ log' = [log EXCEPT ![pos] = CommitRecord(Prefix(pos - 1))]
  /\ pos' = pos + 1
  /\ pc' = "eraselast"
  /\ UNCHANGED <<lockVars, mem, plan, crashes>>

\* Mutant: the loop of execute_log does not go on to the next entry.
execute_first_entry ==
  /\ pc = "exec"
  /\ pos <= Len(plan)
  /\ DOMAIN plan[pos] \subseteq DOMAIN mem
  /\ mem' = Assign(plan[pos], mem)
  /\ UNCHANGED <<lockVars, log, plan, pos, pc, crashes>>

\* One turn of the loop of execute_log.
execute_log ==
  /\ pc = "exec"
  /\ pos <= Len(plan)
  /\ DOMAIN plan[pos] \subseteq DOMAIN mem
  /\ mem' = Assign(plan[pos], mem)
  /\ pos' = pos + 1
  /\ UNCHANGED <<lockVars, log, plan, pc, crashes>>

\* Mutant: the lock is given up before the entries are executed.
unlock_early(m) ==
  /\ pc \in {"exec", "failed"}
  /\ IF m \in users THEN Lock!Leave(m) ELSE Lock!LeaveRecovered(m)
  /\ pc' = "out"
  /\ plan' = <<>>
  /\ pos' = 1
  /\ UNCHANGED <<mem, log, crashes>>

\* Mutant: the error return of a recovery forgets the lock.
return_without_unlock(m) ==
  /\ \/ pc = "exec" /\ pos > Len(plan)
     \/ pc = "failed"
  /\ IF pc = "failed" THEN m \in recoverers /\ UNCHANGED lockVars
     ELSE IF m \in users THEN Lock!Leave(m) ELSE Lock!LeaveRecovered(m)
  /\ pc' = "out"
  /\ plan' = <<>>
  /\ pos' = 1
  /\ UNCHANGED <<mem, log, crashes>>

\* meta_unlock, when the loop is over or the log was of no use.
Unlock(m) ==
  /\ \/ pc = "exec" /\ pos > Len(plan)
     \/ pc = "failed"
  /\ IF m \in users THEN Lock!Leave(m) ELSE Lock!LeaveRecovered(m)
  /\ pc' = "out"
  /\ plan' = <<>>
  /\ pos' = 1
  /\ UNCHANGED <<mem, log, crashes>>

-----------------------------------------------------------------------------
(* Crash and recovery *)

\* The machine inside dies.  It leaves a torn slot if it was writing an entry,
\* and some of the stores of the entry it was executing.
Crash(m) ==
  /\ crashes < MaxCrashes
  /\ Lock!Die(m)
  /\ \/ /\ pc = "entry"
        /\ log' \in {log, [log EXCEPT ![pos] = Torn]}
     \/ /\ pc # "entry"
        /\ UNCHANGED log
  /\ \/ /\ pc = "exec" /\ pos <= Len(plan)
        /\ \E done \in SUBSET (DOMAIN plan[pos] \cap DOMAIN mem) :
             mem' = Assign([l \in done |-> plan[pos][l]], mem)
     \/ /\ ~(pc = "exec" /\ pos <= Len(plan))
        /\ UNCHANGED mem
  /\ pc' = "out"
  /\ plan' = <<>>
  /\ pos' = 1
  /\ crashes' = crashes + 1

\* recover_with_redolog, by a helper or by a machine that boots.  It does
\* nothing without a commit record, and gives up (ELOG_ERR) on a bad checksum.
recover_with_redolog(m) ==
  /\ Lock!EnterToRecover(m)
  /\ plan' = Logged
  /\ pos' = 1
  /\ pc' = IF Scan = "malformed" THEN "failed" ELSE "exec"
  /\ UNCHANGED <<mem, log, crashes>>

Step(m) ==
  \/ set_log_entry
  \/ erase_next
  \/ set_commit_type
  \/ set_commit_checksum
  \/ execute_log
  \/ Unlock(m)
  \/ Crash(m)
  \/ recover_with_redolog(m)

\* While an operation records, the log is its entries followed by what was
\* there before.  An old commit record may by accident fit that again.  It must
\* not, unless executing the entries again would change nothing, or they are
\* those of the whole operation: then it is committed early.
Neutral(sum) == Apply(EntriesOf(sum), mem) = mem

Overlay(p, n) == [i \in Slots |-> IF i <= n THEN OpEntry(p[i]) ELSE log[i]]

Fresh(p) ==
  \A i \in Commits, n \in 1..Len(p) :
    LET sum == log[i].check_sum IN
    n < i /\ SubSeq(Overlay(p, n), 1, i - 1) = sum
      => Neutral(sum) \/ EntriesOf(sum) = p

Next ==
  \E m \in Machines :
    \/ \E p \in Plans : Fresh(p) /\ Begin(m, p)
    \/ Step(m)

Spec == Init /\ [][Next]_vars

-----------------------------------------------------------------------------
Labels == {"out", "entry", "erase", "commit", "checksum", "eraselast", "exec", "failed"}

Recording == pc \in {"entry", "erase", "commit", "checksum"}

\* One CPU is inside exactly while the locals are in use, and a recoverer
\* never records.
TypeOK ==
  /\ mem \in [Loc -> Val]
  /\ DOMAIN log = Slots
  /\ pc \in Labels
  /\ pos \in 1..(REDOLOG_ENTRIES + 1)
  /\ crashes \in Nat
  /\ (pc = "out") = Lock!Empty
  /\ pc \in Labels \ {"out", "exec", "failed"} => recoverers = {}

\* Whoever finds the lock free and no recovery due reads metadata to which no
\* logged entry is missing: executing the log that is still there, as a machine
\* that boots does (recover_meta), changes nothing.
QuiescentView == pc = "out" /\ ~needsReplay => View = mem

Abstract == INSTANCE AtomicStore WITH
  store <- IF Recording THEN mem ELSE View,
  pending <- IF Recording THEN plan ELSE <<>>

\* Whatever store a machine dies at, a recovery finds the operation done
\* completely or not at all, and operations that are over stay done.
AtomicOperations == Abstract!Spec

\* What the comment in recover_with_redolog says: with every store kept, the
\* checksum is malformed only in a commit record that is not complete.
MalformedOnlyMidCommit ==
  pc = "failed" => log[FirstCommit].check_sum = NoSum

\* Running code goes on, and somebody recovers the lock of a dead machine.
Runs == set_log_entry \/ erase_next \/ set_commit_type \/ set_commit_checksum \/ execute_log
Leaves == \E m \in Machines : Unlock(m)
Recovers == needsReplay /\ \E m \in Machines : recover_with_redolog(m)

FairSpec == Spec /\ WF_vars(Runs) /\ WF_vars(Leaves) /\ WF_vars(Recovers)

\* An operation that is committed reaches the metadata, if need be by the
\* hands of another machine.
CommittedIsExecuted == View # mem ~> View = mem
=============================================================================
