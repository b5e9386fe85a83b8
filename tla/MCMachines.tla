----------------------------- MODULE MCMachines -----------------------------
(***************************************************************************)
(* What the machines keep of one another, in two behaviours: the failure   *)
(* detector on machines of which some die by a panic (detector), and the   *)
(* table of the process groups (groups).                                   *)
(***************************************************************************)
EXTENDS FailureDetector, CxlCgroup

CONSTANT PARTS      \* the behaviours to check

VARIABLE part

allVars == <<part, vars, groupVars>>

\* Two processes of one machine and one of the other.
TwoAndOne == [m \in Hosts |-> IF m = 1 THEN {"t1", "t2"} ELSE {"t3"}]

\* t3 has the address of t1.
Shared == [t1 |-> "a", t2 |-> "b", t3 |-> "a"]

\* The ids the processes choose; t1 and t3 choose the same one, and the one of t2
\* does not fit the message.
Ids == [t1 |-> 0, t2 |-> 2, t3 |-> 0]

ASSUME Timely /\ Orderly

MCInit == part \in PARTS /\ Init /\ GroupInit

MCNext ==
  /\ UNCHANGED part
  /\ \/ part = "detector" /\ Next /\ UNCHANGED groupVars
     \/ part = "groups" /\ GroupNext /\ UNCHANGED vars

MCSpec == MCInit /\ [][MCNext]_allVars

\* The types of the detector's variables and of the table's.
TypesOK == TypeOK /\ GroupTypeOK

\* Where t1 ends by ExitQuietly it is killed by a signal; the others return code 0.
Killed == {"t1"}

\* notify_proc_failure says "when a process fails, it's removed from the cgroup",
\* and hook_do_group_exit that it fails if it ends with a code other than 0 or
\* "terminates abnormally": no group on a running machine shows a process that
\* failed.  False of the code: hook_do_exit shifts the signal out of exit_code.
FailuresRemoved ==
  \A g \in Groups : \A s \in Slots : \A m \in Hosts :
    state[m] = "up" /\ Shows(g, s, m) =>
      ProcessOf(m, entries[g].procs[s].local_proc_id) \notin failed \cup (quiet \cap Killed)
=============================================================================
