-------------------------- MODULE RecoverableLock --------------------------
(***************************************************************************)
(* What the allocator expects of its recoverable lock, with no word, no    *)
(* generation and no detector.  At most one CPU is inside; it is there     *)
(* either to run an operation on the shared metadata or to replay the redo *)
(* log.  A CPU that dies inside leaves the metadata in need of a replay,   *)
(* and then only a recoverer may come in, until one of them has left.      *)
(***************************************************************************)
CONSTANT Procs                  \* the CPUs of the pod

VARIABLES users,                \* CPUs inside to run an operation
          recoverers,           \* CPUs inside to replay the redo log
          needsReplay           \* a CPU died inside and nobody replayed since

avars == <<users, recoverers, needsReplay>>

Init ==
  /\ users = {}
  /\ recoverers = {}
  /\ needsReplay = FALSE

Empty == users = {} /\ recoverers = {}

Enter(p) ==
  /\ Empty
  /\ ~needsReplay
  /\ users' = {p}
  /\ UNCHANGED <<recoverers, needsReplay>>

EnterToRecover(p) ==
  /\ Empty
  /\ recoverers' = {p}
  /\ UNCHANGED <<users, needsReplay>>

Leave(p) ==
  /\ users = {p}
  /\ users' = {}
  /\ UNCHANGED <<recoverers, needsReplay>>

LeaveRecovered(p) ==
  /\ recoverers = {p}
  /\ recoverers' = {}
  /\ needsReplay' = FALSE
  /\ UNCHANGED users

Die(p) ==
  /\ users \cup recoverers = {p}
  /\ users' = {}
  /\ recoverers' = {}
  /\ needsReplay' = TRUE

Next ==
  \E p \in Procs :
    \/ Enter(p)
    \/ EnterToRecover(p)
    \/ Leave(p)
    \/ LeaveRecovered(p)
    \/ Die(p)

Spec == Init /\ [][Next]_avars
=============================================================================
