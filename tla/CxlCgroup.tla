----------------------------- MODULE CxlCgroup -----------------------------
(***************************************************************************)
(* The table of process groups in shared memory (driver/src/cxl_cgroup.c): *)
(* processes create and delete groups, join and leave them, and are taken  *)
(* out of them when they fail; a machine that reboots takes out the        *)
(* processes of its earlier life.                                          *)
(*                                                                         *)
(* Every operation runs under meta_lock, so a complete one is one step.    *)
(* A machine that dies inside one has done the first few of its stores and *)
(* leaves the lock behind.  Unlike the allocator's lock, this one is       *)
(* recovered by nobody but the dead machine's next life.                   *)
(*                                                                         *)
(* secret_str is stored and never compared: a group is its hash bucket.    *)
(*                                                                         *)
(* A process is told from others by its id (osii and local_proc_id) where  *)
(* it joins and leaves, and by the address of its task_struct where it     *)
(* exits.  The kernel gives an address to one process after another, and   *)
(* two machines may give one to two processes at a time.                   *)
(***************************************************************************)
EXTENDS Integers

CONSTANTS
  NrHosts,             \* total_machines; machine ids start from 1
  MAX_GROUP_NUM,
  MAX_PROC_PER_GROUP,
  Tasks,               \* Tasks[m]: the processes of machine m, over its lives
  Address,             \* Address[t]: the address of the task_struct of t
  LocalId,             \* LocalId[t]: the local_proc_id that t uses
  ProcIds,             \* how many ids the message has room for, 2^16
  Rules,               \* what the processes abide by, see AllRules
  MaxDeaths            \* bound: how many machine deaths happen

\* created:    a process joins a group only while the group exists
\* oneGroup:   a process is in one group at a time
\* emptyFirst: a group is deleted only when no process is in it
AllRules == {"created", "oneGroup", "emptyFirst"}

Hosts == 1..NrHosts

NULL == "NULL"

\* What the constants are.
GroupsFit ==
  /\ NrHosts \in Nat \ {0}
  /\ MAX_GROUP_NUM \in Nat \ {0}
  /\ MAX_PROC_PER_GROUP \in Nat \ {0}
  /\ ProcIds \in Nat \ {0}
  /\ Rules \subseteq AllRules
  /\ DOMAIN Tasks = Hosts
  /\ \A m \in Hosts : \A t \in Tasks[m] : LocalId[t] \in Nat /\ Address[t] # NULL
  /\ \A m, n \in Hosts : Tasks[m] \cap Tasks[n] # {} => m = n

\* All abide by the rules, and no two processes of a machine use one id.
\* Nothing is assumed of the addresses, the size of the ids and the exits.
Orderly ==
  /\ GroupsFit
  /\ Rules = AllRules
  /\ \A m \in Hosts : \A s, t \in Tasks[m] : LocalId[s] = LocalId[t] => s = t

\* The buckets that hash_func can name, and the slots of a bucket.
Groups == 0 .. MAX_GROUP_NUM - 1

Slots == 1 .. MAX_PROC_PER_GROUP

\* Mutant: the id of the next machine.
OsiiOfNext(os_id, gen_id) == [os_id |-> os_id + 1, gen_id |-> gen_id]

\* The identifier of an OS instance packs an OS id and a generation; 0 is nobody's.
Osii(os_id, gen_id) == [os_id |-> os_id, gen_id |-> gen_id]

NoProc == [osii |-> Osii(0, 0), local_proc_id |-> 0, tsk |-> NULL, in_use |-> FALSE]

VARIABLES
  entries,    \* the table, in shared memory
  owner,      \* the machine that died with the lock, 0 if there is none
  my_osii,    \* the OS instance each machine is, from os_generation_ids
  state,      \* "up", "down" or "booting" (inside recover_cxlcg_meta)
  live,       \* the processes that run on each machine
  past,       \* history: the processes that were ever started,
  failed,     \* ... those that ended with an exit code other than 0,
  quiet,      \* ... and those that ended with code 0 or by a signal
  news,       \* the process failures announced by the last step
  deaths      \* how many crashes there were

exits == <<failed, quiet>>

groupVars == <<entries, owner, my_osii, state, live, past, exits, news, deaths>>

\* init_cxlcg_meta clears the table.
GroupInit ==
  /\ entries = [g \in Groups |-> [in_use |-> FALSE, procs |-> [i \in Slots |-> NoProc]]]
  /\ owner = 0
  /\ my_osii = [m \in Hosts |-> Osii(m, 0)]
  /\ state = [m \in Hosts |-> "up"]
  /\ live = [m \in Hosts |-> {}]
  /\ past = {}
  /\ failed = {}
  /\ quiet = {}
  /\ news = {}
  /\ deaths = 0

-----------------------------------------------------------------------------
(* Stores.  An operation is the table it leaves when it is done, and the     *)
(* tables it leaves when a crash cuts it short.                              *)

Operation(done, cut) == [done |-> done, cut |-> cut]

Nothing == Operation(entries, {entries})

\* The table with p in slot i of group g.
Put(g, i, p) == [entries EXCEPT ![g].procs[i] = p]

\* A slot p after the first f of the four stores that make it q.
Stored(p, q, f) ==
  [osii          |-> IF f >= 1 THEN q.osii ELSE p.osii,
   local_proc_id |-> IF f >= 2 THEN q.local_proc_id ELSE p.local_proc_id,
   tsk           |-> IF f >= 3 THEN q.tsk ELSE p.tsk,
   in_use        |-> IF f >= 4 THEN q.in_use ELSE p.in_use]

SetSlot(g, i, q) ==
  Operation(Put(g, i, q), {Put(g, i, Stored(entries[g].procs[i], q, f)) : f \in 0..4})

\* The table when f[x] of the four stores that clear a slot x are done.
Cleared(f) ==
  [g \in Groups |-> [in_use |-> entries[g].in_use,
                     procs |-> [i \in Slots |-> Stored(entries[g].procs[i], NoProc, f[<<g, i>>])]]]

Before(x, y) == x[1] < y[1] \/ (x[1] = y[1] /\ x[2] < y[2])

\* The stores done to each slot when the loop over the slots in S, in the order
\* of the table, has done n stores to slot x.
Progress(S, x, n) ==
  [y \in Groups \X Slots |->
     IF y \notin S THEN 0 ELSE IF Before(y, x) THEN 4 ELSE IF y = x THEN n ELSE 0]

ClearAll(S) ==
  Operation(Cleared([y \in Groups \X Slots |-> IF y \in S THEN 4 ELSE 0]),
            {entries} \cup {Cleared(Progress(S, x, n)) : x \in S, n \in 0..4})

\* What do_join_cxlcg and do_leave_cxlcg compare.
IsProc(p, osii, id) == p.in_use /\ p.osii = osii /\ p.local_proc_id = id

-----------------------------------------------------------------------------
(* The operations, as the stores they make *)

do_create_cxlcg(g) ==
  LET created == [entries EXCEPT ![g].in_use = TRUE]
  IN IF entries[g].in_use THEN Nothing ELSE Operation(created, {entries, created})

\* memset over the entry: the slots, then in_use.
do_delete_cxlcg(g) ==
  LET empty == ClearAll({g} \X Slots)
      deleted == [empty.done EXCEPT ![g].in_use = FALSE]
  IN Operation(deleted, empty.cut \cup {deleted})

\* A member of a group: what do_join_cxlcg makes of the process t.
Member(m, t) ==
  [osii |-> my_osii[m], local_proc_id |-> LocalId[t], tsk |-> Address[t], in_use |-> TRUE]

First(slots) == CHOOSE i \in slots : \A j \in slots : i <= j

FreeSlots(g) == {i \in Slots : ~entries[g].procs[i].in_use}

\* Mutant: any free slot will do, whoever is in the group already.
join_again(g, m, t) ==
  IF FreeSlots(g) = {} THEN Nothing ELSE SetSlot(g, First(FreeSlots(g)), Member(m, t))

\* The first free slot, unless the process is a member or the group is full.
\* Whether the group exists is not asked.
do_join_cxlcg(g, m, t) ==
  IF \/ \E j \in Slots : IsProc(entries[g].procs[j], my_osii[m], LocalId[t])
     \/ FreeSlots(g) = {}
  THEN Nothing
  ELSE SetSlot(g, First(FreeSlots(g)), Member(m, t))

\* The caller says which OS instance it belongs to.
do_leave_cxlcg(g, osii, t) ==
  LET mine == {i \in Slots : IsProc(entries[g].procs[i], osii, LocalId[t])}
  IN IF mine = {} THEN Nothing ELSE SetSlot(g, First(mine), NoProc)

\* Where notify_proc_failure finds a task: the first slot, in the order of the
\* table, of a group in use that holds its address.  Neither the machine nor the
\* id is compared.
Found(t) ==
  {x \in Groups \X Slots :
     LET p == entries[x[1]].procs[x[2]]
     IN entries[x[1]].in_use /\ p.in_use /\ p.tsk = Address[t]}

FirstFound(t) == CHOOSE x \in Found(t) : \A y \in Found(t) : x = y \/ Before(x, y)

\* Mutant: the address is cleared before the slot is given up.
notify_address_first(t) ==
  IF Found(t) = {} THEN Nothing
  ELSE LET x == FirstFound(t)
           p == entries[x[1]].procs[x[2]]
           nobody == Put(x[1], x[2], [p EXCEPT !.tsk = NULL])
           free == Put(x[1], x[2], [p EXCEPT !.tsk = NULL, !.in_use = FALSE])
       IN Operation(free, {entries, nobody, free})

notify_proc_failure(t) ==
  IF Found(t) = {} THEN Nothing
  ELSE LET x == FirstFound(t)
           p == entries[x[1]].procs[x[2]]
           hidden == Put(x[1], x[2], [p EXCEPT !.in_use = FALSE])
           free == Put(x[1], x[2], [p EXCEPT !.in_use = FALSE, !.tsk = NULL])
       IN Operation(free, {entries, hidden, free})

\* Mutant: the message names the slot.
MessageOfSlot(t) ==
  LET p == entries[FirstFound(t)[1]].procs[FirstFound(t)[2]]
  IN [os_id |-> p.osii.os_id, proc_id |-> FirstFound(t)[2] - 1, gen_id |-> p.osii.gen_id]

\* The message: SET_PROC_ID adds the whole id, so what does not fit the field
\* is added to the OS id above it.
Message(t) ==
  LET p == entries[FirstFound(t)[1]].procs[FirstFound(t)[2]]
  IN [os_id |-> p.osii.os_id + p.local_proc_id \div ProcIds,
      proc_id |-> p.local_proc_id % ProcIds,
      gen_id |-> p.osii.gen_id]

\* Mutant: the loop over the slots stops at the first one that is not in use.
remove_leading(m) ==
  ClearAll({x \in Groups \X Slots :
              /\ entries[x[1]].in_use
              /\ \A j \in 1..x[2] : entries[x[1]].procs[j].in_use
              /\ entries[x[1]].procs[x[2]].osii.os_id = m})

\* The second half of recover_cxlcg_meta.
remove_dead(m) ==
  ClearAll({x \in Groups \X Slots :
              /\ entries[x[1]].in_use
              /\ entries[x[1]].procs[x[2]].in_use
              /\ entries[x[1]].procs[x[2]].osii.os_id = m})

-----------------------------------------------------------------------------
(* Actions *)

\* Mutant: a machine that boots does not look whose lock it is.
recover_only_free(m) == owner = 0

\* recoverable_lock_recover, else recoverable_lock: the lock is free or was left
\* by this machine's earlier life.
recoverable_lock_recover(m) == owner \in {0, m}

\* A complete operation of a process: lock, stores, unlock.
Run(m, operation) ==
  /\ state[m] = "up"
  /\ owner = 0
  /\ entries' = operation.done
  /\ UNCHANGED <<owner, my_osii, state, deaths>>

Quietly(m, operation) == Run(m, operation) /\ news' = {} /\ UNCHANGED <<live, past, exits>>

\* Is process t in one of the groups gs?
InGroup(m, t, gs) ==
  \E g \in gs, i \in Slots :
    LET p == entries[g].procs[i]
    IN p.in_use /\ p.osii.os_id = m /\ p.local_proc_id = LocalId[t]

MayJoin(m, t, g) ==
  /\ t \in live[m]
  /\ "created" \in Rules => entries[g].in_use
  /\ "oneGroup" \in Rules => ~InGroup(m, t, Groups \ {g})

MayDelete(m, g) ==
  /\ live[m] # {}
  /\ "emptyFirst" \in Rules =>
       \A i \in Slots : entries[g].procs[i].in_use => entries[g].procs[i].osii.os_id = 0

\* The kernel starts a process, at an address that no running one has.
Fork(m, t) ==
  /\ state[m] = "up"
  /\ t \notin past
  /\ \A s \in live[m] : Address[s] # Address[t]
  /\ live' = [live EXCEPT ![m] = @ \cup {t}]
  /\ past' = past \cup {t}
  /\ news' = {}
  /\ UNCHANGED <<entries, owner, my_osii, state, exits, deaths>>

Create(m, g) == live[m] # {} /\ Quietly(m, do_create_cxlcg(g))

Delete(m, g) == MayDelete(m, g) /\ Quietly(m, do_delete_cxlcg(g))

Join(m, g, t) == MayJoin(m, t, g) /\ Quietly(m, do_join_cxlcg(g, m, t))

Leave(m, g, osii, t) == t \in live[m] /\ Quietly(m, do_leave_cxlcg(g, osii, t))

\* hook_do_exit: the group leader exits with a code that is not 0.
ExitNonZero(m, t) ==
  /\ t \in live[m]
  /\ Run(m, notify_proc_failure(t))
  /\ news' = IF Found(t) = {} THEN {} ELSE {Message(t)}
  /\ live' = [live EXCEPT ![m] = @ \ {t}]
  /\ failed' = failed \cup {t}
  /\ UNCHANGED <<past, quiet>>

\* hook_do_exit: exit_code >> 8 is 0 for code 0 and for a fatal signal, and the
\* process is gone with nobody told, whether it is in a group or not.
ExitQuietly(m, t) ==
  /\ state[m] = "up"
  /\ t \in live[m]
  /\ live' = [live EXCEPT ![m] = @ \ {t}]
  /\ quiet' = quiet \cup {t}
  /\ news' = {}
  /\ UNCHANGED <<entries, owner, my_osii, state, past, failed, deaths>>

\* The first half of recover_cxlcg_meta: a new generation.
Boot(m) ==
  /\ state[m] = "down"
  /\ state' = [state EXCEPT ![m] = "booting"]
  /\ my_osii' = [my_osii EXCEPT ![m].gen_id = @ + 1]
  /\ news' = {}
  /\ UNCHANGED <<entries, owner, live, past, exits, deaths>>

recover_groups(m) ==
  /\ state[m] = "booting"
  /\ recoverable_lock_recover(m)
  /\ entries' = remove_dead(m).done
  /\ owner' = 0
  /\ state' = [state EXCEPT ![m] = "up"]
  /\ news' = {}
  /\ UNCHANGED <<my_osii, live, past, exits, deaths>>

Die(m) ==
  /\ deaths < MaxDeaths
  /\ state' = [state EXCEPT ![m] = "down"]
  /\ live' = [live EXCEPT ![m] = {}]
  /\ news' = {}
  /\ deaths' = deaths + 1
  /\ UNCHANGED <<my_osii, past, exits>>

\* Outside of any operation on the table.
CrashOutside(m) ==
  /\ state[m] # "down"
  /\ Die(m)
  /\ UNCHANGED <<entries, owner>>

\* Inside one: the lock stays locked.
CrashInside(m, operation) ==
  /\ Die(m)
  /\ entries' \in operation.cut
  /\ owner' = m

\* The operations a CPU of machine m may be in.
Calls(m) ==
  {do_create_cxlcg(g) : g \in Groups} \cup
  {do_delete_cxlcg(g) : g \in {h \in Groups : MayDelete(m, h)}} \cup
  {do_join_cxlcg(x[1], m, x[2]) :
     x \in {y \in Groups \X live[m] : MayJoin(m, y[2], y[1])}} \cup
  {do_leave_cxlcg(x[1], my_osii[m], x[2]) : x \in Groups \X live[m]} \cup
  {notify_proc_failure(t) : t \in live[m]}

CrashInOperation(m) ==
  /\ state[m] = "up"
  /\ owner = 0
  /\ live[m] # {}
  /\ \E operation \in Calls(m) : CrashInside(m, operation)

CrashInRecovery(m) ==
  /\ state[m] = "booting"
  /\ recoverable_lock_recover(m)
  /\ CrashInside(m, remove_dead(m))

GroupNext ==
  \E m \in Hosts :
    \/ \E t \in Tasks[m] :
         \/ Fork(m, t) \/ ExitNonZero(m, t) \/ ExitQuietly(m, t)
         \/ \E g \in Groups :
              \/ Join(m, g, t)
              \/ \E gen \in 0..my_osii[m].gen_id : Leave(m, g, Osii(m, gen), t)
    \/ \E g \in Groups : Create(m, g) \/ Delete(m, g)
    \/ Boot(m) \/ recover_groups(m)
    \/ CrashOutside(m) \/ CrashInOperation(m) \/ CrashInRecovery(m)

GroupSpec == GroupInit /\ [][GroupNext]_groupVars

-----------------------------------------------------------------------------
(* Properties *)

AllTasks == UNION {Tasks[m] : m \in Hosts}

Instances == [os_id : Hosts \cup {0}, gen_id : Nat]

Addresses == {Address[t] : t \in AllTasks}

Procs == [osii : Instances, local_proc_id : Nat, tsk : Addresses \cup {NULL}, in_use : BOOLEAN]

Tables == [Groups -> [in_use : BOOLEAN, procs : [Slots -> Procs]]]

GroupTypeOK ==
  /\ entries \in Tables
  /\ owner \in Hosts \cup {0}
  /\ my_osii \in [Hosts -> Instances]
  /\ state \in [Hosts -> {"up", "down", "booting"}]
  /\ live \in [Hosts -> SUBSET AllTasks]
  /\ \A m \in Hosts : live[m] \subseteq Tasks[m]
  /\ past \subseteq AllTasks
  /\ failed \subseteq past
  /\ quiet \subseteq past
  /\ deaths \in Nat

\* Slot i of group g shows a process of machine m to the users of the group.
Shows(g, i, m) ==
  LET p == entries[g].procs[i] IN entries[g].in_use /\ p.in_use /\ p.osii.os_id = m

\* The process of machine m with a given id.
ProcessOf(m, id) == CHOOSE t \in Tasks[m] : LocalId[t] = id

\* Other processes that had or have the address of t.
Namesakes(t) == {s \in past \ {t} : Address[s] = Address[t]}

\* do_join_cxlcg stores in_use last, do_leave_cxlcg clears the osii first and
\* notify_proc_failure clears in_use first: wherever a crash cuts them short, a
\* slot that shows a process of a machine has the id and the address of one.
SlotsWhole ==
  \A g \in Groups : \A i \in Slots : \A m \in Hosts : Shows(g, i, m) =>
    \E t \in Tasks[m] :
      /\ entries[g].procs[i].local_proc_id = LocalId[t]
      /\ entries[g].procs[i].tsk = Address[t]

\* do_join_cxlcg ("see if it is already a member"): a process holds at most one
\* slot of a group, also when a crash cut an operation short.
NoDuplicateMember ==
  \A g \in Groups : \A i, j \in Slots : \A m \in Hosts :
    /\ Shows(g, i, m) /\ Shows(g, j, m)
    /\ entries[g].procs[i].osii = entries[g].procs[j].osii
    /\ entries[g].procs[i].local_proc_id = entries[g].procs[j].local_proc_id
    => i = j

\* notify_proc_failure and recover_cxlcg_meta ("remove dead processes from
\* CxlCG"): while a machine is up, every slot that shows one of its processes is
\* of this life of the machine, and the process runs, unless it ended with code 0
\* or by a signal (hook_do_exit tells nobody), or another process had its address
\* (notify_proc_failure may have found that one's slot).
MembersAlive ==
  \A g \in Groups : \A i \in Slots : \A m \in Hosts :
    state[m] = "up" /\ Shows(g, i, m) =>
      LET t == ProcessOf(m, entries[g].procs[i].local_proc_id) IN
      /\ entries[g].procs[i].osii = my_osii[m]
      /\ t \in live[m] \/ t \in quiet \/ (t \in failed /\ Namesakes(t) # {})

\* The slots that show process t of machine m.
OwnSlots(m, t) ==
  {x \in Groups \X Slots :
     Shows(x[1], x[2], m) /\ entries[x[1]].procs[x[2]].local_proc_id = LocalId[t]}

Announcement(m, t) ==
  [os_id |-> m, proc_id |-> LocalId[t], gen_id |-> my_osii[m].gen_id]

\* notify_proc_failure announces nothing but processes that end with a code other
\* than 0, and each of those exactly if it is in a group, once and under its own
\* machine, generation and id.  Two cases are left out, where the code is wrong:
\* a slot that is not its own has its address, or its id is too large for the
\* message (SET_PROC_ID does not mask it).
NewsAreFailures ==
  [][/\ news' # {} => failed' # failed
     /\ \A m \in Hosts : \A t \in live[m] \cap (failed' \ failed) :
          \/ ~(Found(t) \subseteq OwnSlots(m, t))
          \/ LocalId[t] >= ProcIds
          \/ news' = {Announcement(m, t) : x \in OwnSlots(m, t)}]_groupVars

\* recover_cxlcg_meta does not hang: when machines wait at boot for a lock that
\* a dead machine left locked, one of them can take it over, or the dead machine
\* is still to be booted.
BootsNotStuck ==
  \A m \in Hosts : state[m] = "booting" =>
    \E n \in Hosts :
      state[n] = "down" \/ (state[n] = "booting" /\ recoverable_lock_recover(n))
=============================================================================
