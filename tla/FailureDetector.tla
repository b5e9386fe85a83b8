-------------------------- MODULE FailureDetector --------------------------
(***************************************************************************)
(* The heartbeats by which the machines of a pod notice that one of them   *)
(* died (do_os_failure_detection in driver/src/cxl_cgroup.c), and the      *)
(* generations that tell one life of a machine from the next.  A process   *)
(* on every machine calls the ioctl over and over: a call adds one to the  *)
(* machine's own heartbeat and then looks at every machine's.  Two calls   *)
(* in a row that see no change announce the machine's failure.             *)
(*                                                                         *)
(* Heartbeats are only compared with the value seen before, so the model   *)
(* keeps whether one has moved since.  Recovering the lock on behalf of    *)
(* the dead machine is in TtasLock and RedoLog.                            *)
(***************************************************************************)
EXTENDS Integers, FiniteSets

CONSTANTS
  NrMachines,       \* total_machines
  MaxSkew,          \* calls a machine starts between two heartbeats of another
  QuickReboot,      \* may a machine be back before all have noticed its death?
  MaxCrashes,       \* bound: how many machines die
  Panics,           \* may a machine panic before it dies?
  MaxGen            \* bound: generations stay below it

Machines == 1..NrMachines

\* No machine gets a whole call ahead of another one that is up, and a machine
\* that reboots is away for longer than the detection takes.
Timely ==
  /\ NrMachines \in Nat /\ MaxCrashes \in Nat /\ MaxGen \in Nat
  /\ MaxSkew \in 0..1
  /\ QuickReboot = FALSE

\* How far lead is counted: the calls it takes to notice a death.
MaxLead == IF MaxSkew > 3 THEN MaxSkew ELSE 3

VARIABLES
  os_generation_ids,    \* shared: the generation of every machine
  started,              \* shared: the machines whose heartbeat is not 0
  status,               \* "up" or "down"
  i,                    \* the machine a call looks at next, 0 between calls
  moved,                \* moved[h]: whose heartbeat moved since h looked
  timeout_times,        \* calls of h in a row that saw no change
  os_live,              \* whom h believes alive
  os_gen_ids_snapshot,  \* the generation h will announce
  life,                 \* my_osii: the generation m gave itself
  lead,                 \* history: calls of h since the last heartbeat of m
  panicked,             \* machines one of whose CPUs is in hook_panic
  crashes

vars == <<os_generation_ids, started, status, i, moved, timeout_times, os_live,
          os_gen_ids_snapshot, life, lead, panicked, crashes>>

\* init_cxlcg_meta, when the pod is formatted.
Init ==
  /\ os_generation_ids = [m \in Machines |-> 0]
  /\ started = {}
  /\ status = [m \in Machines |-> "up"]
  /\ i = [h \in Machines |-> 0]
  /\ moved = [h \in Machines |-> {}]
  /\ timeout_times = [h \in Machines |-> [m \in Machines |-> 0]]
  /\ os_live = [h \in Machines |-> Machines]
  /\ os_gen_ids_snapshot = [h \in Machines |-> [m \in Machines |-> 0]]
  /\ life = [m \in Machines |-> 0]
  /\ lead = [h \in Machines |-> [m \in Machines |-> 0]]
  /\ panicked = {}
  /\ crashes = 0

-----------------------------------------------------------------------------
(* do_os_failure_detection *)

\* A call begins with the machine's own heartbeat.  The machines run at similar
\* speeds: no machine gets MaxSkew calls ahead of another one that is up.
Heartbeat(h) ==
  /\ status[h] = "up"
  /\ i[h] = 0
  /\ \A m \in Machines \ {h} : status[m] = "up" => lead[h][m] < MaxSkew
  /\ started' = started \cup {h}
  /\ moved' = [k \in Machines |-> IF status[k] = "up" THEN moved[k] \cup {h} ELSE moved[k]]
  /\ i' = [i EXCEPT ![h] = 1]
  /\ lead' = [k \in Machines |-> [m \in Machines |->
       IF m = h THEN 0
       ELSE IF k = h /\ lead[k][m] < MaxLead THEN lead[k][m] + 1 ELSE lead[k][m]]]
  /\ UNCHANGED <<os_generation_ids, status, timeout_times, os_live,
                 os_gen_ids_snapshot, life, panicked, crashes>>

NextMachine(h) == IF i[h] = NrMachines THEN 0 ELSE i[h] + 1

\* Mutant: the heartbeat that was seen is not remembered.
SeeHeartbeatAgain(h) ==
  LET m == i[h] IN
  /\ status[h] = "up"
  /\ m # 0
  /\ m \in moved[h]
  /\ os_live' = [os_live EXCEPT ![h] = @ \cup {m}]
  /\ timeout_times' = [timeout_times EXCEPT ![h][m] = 0]
  /\ i' = [i EXCEPT ![h] = NextMachine(h)]
  /\ UNCHANGED <<os_generation_ids, started, status, moved, os_gen_ids_snapshot,
                 life, lead, panicked, crashes>>

\* The heartbeat of the machine the call looks at has moved.
SeeHeartbeat(h) ==
  LET m == i[h] IN
  /\ status[h] = "up"
  /\ m # 0
  /\ m \in moved[h]
  /\ moved' = [moved EXCEPT ![h] = @ \ {m}]
  /\ os_live' = [os_live EXCEPT ![h] = @ \cup {m}]
  /\ timeout_times' = [timeout_times EXCEPT ![h][m] = 0]
  /\ i' = [i EXCEPT ![h] = NextMachine(h)]
  /\ UNCHANGED <<os_generation_ids, started, status, os_gen_ids_snapshot,
                 life, lead, panicked, crashes>>

\* Mutant: one call without a heartbeat is enough.
OneMiss(h, m) == timeout_times[h][m] + 1 >= 1

TimedOut(h, m) == timeout_times[h][m] + 1 >= 2

Miss(h) ==
  LET m == i[h] IN
  /\ status[h] = "up"
  /\ m # 0
  /\ m \notin moved[h]
  /\ ~TimedOut(h, m)
  /\ timeout_times' = [timeout_times EXCEPT ![h][m] = @ + 1]
  /\ i' = [i EXCEPT ![h] = NextMachine(h)]
  /\ UNCHANGED <<os_generation_ids, started, status, moved, os_live,
                 os_gen_ids_snapshot, life, lead, panicked, crashes>>

\* The alarm: a machine believed alive so far is announced dead, under the
\* generation in the snapshot, and its generation goes up.  In any case the
\* snapshot is renewed.
Timeout(h) ==
  LET m == i[h]
      dies == m \in os_live[h]
      gen == os_generation_ids[m] + (IF dies THEN 1 ELSE 0)
  IN
  /\ status[h] = "up"
  /\ m # 0
  /\ m \notin moved[h]
  /\ TimedOut(h, m)
  /\ gen <= MaxGen
  /\ os_generation_ids' = [os_generation_ids EXCEPT ![m] = gen]
  /\ os_gen_ids_snapshot' = [os_gen_ids_snapshot EXCEPT ![h][m] = gen]
  /\ os_live' = [os_live EXCEPT ![h] = @ \ {m}]
  /\ timeout_times' = [timeout_times EXCEPT ![h][m] = 0]
  /\ i' = [i EXCEPT ![h] = NextMachine(h)]
  /\ UNCHANGED <<started, status, moved, life, lead, panicked, crashes>>

-----------------------------------------------------------------------------
(* Death and reboot *)

\* The kernel's panic is replaced: the CPU raises the machine's generation and
\* then spins for ever.  The process that calls the ioctl may be on another CPU,
\* and goes on until the machine is switched off.
hook_panic(m) ==
  /\ Panics
  /\ status[m] = "up"
  /\ m \notin panicked
  /\ crashes < MaxCrashes
  /\ os_generation_ids[m] < MaxGen
  /\ os_generation_ids' = [os_generation_ids EXCEPT ![m] = @ + 1]
  /\ panicked' = panicked \cup {m}
  /\ crashes' = crashes + 1
  /\ UNCHANGED <<started, status, i, moved, timeout_times, os_live,
                 os_gen_ids_snapshot, life, lead>>

\* What a machine knows of the others is in its own memory and lost.
Crash(m) ==
  /\ status[m] = "up"
  /\ m \notin panicked => crashes < MaxCrashes
  /\ status' = [status EXCEPT ![m] = "down"]
  /\ i' = [i EXCEPT ![m] = 0]
  /\ crashes' = IF m \in panicked THEN crashes ELSE crashes + 1
  /\ moved' = [moved EXCEPT ![m] = {}]
  /\ timeout_times' = [timeout_times EXCEPT ![m] = [k \in Machines |-> 0]]
  /\ os_live' = [os_live EXCEPT ![m] = {}]
  /\ os_gen_ids_snapshot' = [os_gen_ids_snapshot EXCEPT ![m] = [k \in Machines |-> 0]]
  /\ lead' = [lead EXCEPT ![m] = [k \in Machines |-> 0]]
  /\ UNCHANGED <<os_generation_ids, started, life, panicked>>

\* recover_cxlcg_meta: a new generation, a snapshot of all of them, and every
\* machine is believed alive.  The other arrays are new, so every heartbeat
\* that is not 0 seems to have moved.
recover_cxlcg_meta(m) ==
  /\ status[m] = "down"
  /\ ~QuickReboot => \A h \in Machines :
                       status[h] = "up" => m \notin os_live[h] \cup moved[h]
  /\ os_generation_ids[m] < MaxGen
  /\ status' = [status EXCEPT ![m] = "up"]
  /\ os_generation_ids' = [os_generation_ids EXCEPT ![m] = @ + 1]
  /\ life' = [life EXCEPT ![m] = os_generation_ids'[m]]
  /\ os_gen_ids_snapshot' = [os_gen_ids_snapshot EXCEPT ![m] = os_generation_ids']
  /\ os_live' = [os_live EXCEPT ![m] = Machines]
  /\ timeout_times' = [timeout_times EXCEPT ![m] = [k \in Machines |-> 0]]
  /\ moved' = [moved EXCEPT ![m] = started]
  /\ lead' = [k \in Machines |-> [n \in Machines |-> IF m \in {k, n} THEN 0 ELSE lead[k][n]]]
  /\ panicked' = panicked \ {m}
  /\ UNCHANGED <<started, i, crashes>>

Check(h) == Heartbeat(h) \/ SeeHeartbeat(h) \/ Miss(h) \/ Timeout(h)

Next == \E m \in Machines : Check(m) \/ hook_panic(m) \/ Crash(m) \/ recover_cxlcg_meta(m)

Spec == Init /\ [][Next]_vars

-----------------------------------------------------------------------------
(* Properties *)

TypeOK ==
  /\ os_generation_ids \in [Machines -> 0..MaxGen]
  /\ status \in [Machines -> {"up", "down"}]
  /\ i \in [Machines -> 0..NrMachines]
  /\ moved \in [Machines -> SUBSET started]
  /\ timeout_times \in [Machines -> [Machines -> 0..1]]
  /\ os_live \in [Machines -> SUBSET Machines]

\* h announces to its processes that m failed.
Announces(h, m) == m \in os_live[h] /\ m \notin os_live'[h] /\ status'[h] = "up"

\* Only a dead machine is announced: what TtasLock assumes of the detector
\* (FalseSuspicion = FALSE) follows from the speed bound and from reboots that
\* take longer than the detection.
AnnouncesDead == \A h, m \in Machines : Announces(h, m) => status[m] = "down"

Accurate == [][AnnouncesDead]_vars

\* The generation a running machine gave itself when it booted, and which it
\* keeps in my_osii, stays the one in the shared table: nobody raises it while
\* the machine is up, however often the others did while it was down.  Only a
\* machine in hook_panic is past its own generation, by the one it added.
OwnGenerationCurrent ==
  \A m \in Machines :
    status[m] = "up" => os_generation_ids[m] = life[m] + (IF m \in panicked THEN 1 ELSE 0)

\* The generation announced is the one the dead machine gave itself, which its
\* processes carry in their osii, the "OS instance identifier".
NamesTheInstance ==
  [][\A h, m \in Machines :
       Announces(h, m) => os_gen_ids_snapshot[h][m] = life[m]]_vars

\* A death is noticed in time: when a machine that is up has finished looking
\* at m in its third or a later call since the last heartbeat of m, it does not
\* believe m alive (one call may still see that heartbeat, two more miss the
\* next one).
NoticedInTime ==
  \A h, m \in Machines :
    /\ status[h] = "up" /\ status[m] = "down"
    /\ lead[h][m] >= 3 /\ i[h] \notin 1..m
    => m \notin os_live[h]
=============================================================================
