--------------------------- MODULE MachinesProofs ---------------------------
(***************************************************************************)
(* What the machines of a pod agree on: which processes are the members of *)
(* the process groups, and which machines are dead.                        *)
(***************************************************************************)
EXTENDS CxlCgroup, FailureDetector, WellFoundedInduction, TLAPS

-----------------------------------------------------------------------------
(***************************************************************************)
(* That the table of process groups shows whole slots, each process once,  *)
(* and which of the processes shown are alive and which of those that end  *)
(* are announced, for any number of machines, groups, slots and processes, *)
(* any ids and addresses, wherever crashes cut the operations short.       *)
(***************************************************************************)

-----------------------------------------------------------------------------
(* The inductive invariant *)

\* Slot idx of group g holds a process of machine m, whether or not the group
\* exists.
Holds(g, idx, m) == entries[g].procs[idx].in_use /\ entries[g].procs[idx].osii.os_id = m

\* A slot that holds a process is one of an existing group and has the address
\* and the id of the process.
HeldWhole ==
    \A g \in Groups, idx \in Slots, m \in Hosts : Holds(g, idx, m) =>
        /\ entries[g].in_use
        /\ \E t \in Tasks[m] \cap past : /\ entries[g].procs[idx].local_proc_id = LocalId[t]
                                       /\ entries[g].procs[idx].tsk = Address[t]

\* No process has two slots, of one group or of two.
HeldOnce ==
    \A g, h \in Groups, idx, j \in Slots, m \in Hosts :
        /\ Holds(g, idx, m) /\ Holds(h, j, m)
        /\ entries[g].procs[idx].local_proc_id = entries[h].procs[j].local_proc_id
        => g = h /\ idx = j

\* Process t of machine m may be in a group.
Accounted(m, t) == t \in live[m] \/ t \in quiet \/ (t \in failed /\ Namesakes(t) # {})

\* While a machine is up, its slots are of this life, and of such processes.
HeldAlive ==
    \A g \in Groups, idx \in Slots, m \in Hosts : state[m] = "up" /\ Holds(g, idx, m) =>
        /\ entries[g].procs[idx].osii = my_osii[m]
        /\ \A t \in Tasks[m] : entries[g].procs[idx].local_proc_id = LocalId[t] => Accounted(m, t)

\* A process that was started and runs no more.
Ended(t) == t \in past /\ \A m \in Hosts : t \notin live[m]

\* The slots that a crash left in use for nobody have the address of an ended
\* process, or none.
LeftForNobody ==
    \A g \in Groups, idx \in Slots : Holds(g, idx, 0) =>
        entries[g].procs[idx].tsk = NULL \/ \E s : Ended(s) /\ Address[s] = entries[g].procs[idx].tsk

\* Running processes were started and have not failed.
RunningKnown == \A m \in Hosts : live[m] \subseteq past \ failed

\* What is known of the machines.
HostsKnown ==
    /\ \A m \in Hosts : my_osii[m].os_id = m
    /\ \A m \in Hosts : state[m] # "up" => live[m] = {}
    /\ owner # 0 => state[owner] # "up"

TableInv == HeldWhole /\ HeldOnce /\ LeftForNobody

GroupInv == GroupTypeOK /\ TableInv /\ HeldAlive /\ RunningKnown /\ HostsKnown

-----------------------------------------------------------------------------
(* What the operations do to a slot *)

\* A set of naturals that is not empty has a least member.
LEMMA LeastNumber ==
    ASSUME NEW S \in SUBSET Nat, S # {}
    PROVE  First(S) \in S /\ \A y \in S : First(S) <= y
<1> DEFINE R == {ss \in Nat \X Nat : ss[1] < ss[2]}
<1>1. IsWellFoundedOn(R, Nat)
    BY Zenon, NatLessThanWellFounded DEF OpToRel
<1>2. \E x \in S : \A y \in S : ~ (<<y, x>> \in R)
    <2> HIDE DEF R
    <2> QED BY Zenon, <1>1, WFMin
<1>3. \A x, y \in Nat : y < x => <<y, x>> \in R
    BY Zenon
<1> HIDE DEF R
<1>4. PICK x \in S : \A y \in S : ~ (<<y, x>> \in R)
    BY Zenon, <1>2
<1>5. \A y \in S : ~(y < x)
    BY Zenon, <1>3, <1>4
<1>6. \A y \in S : x <= y
    BY <1>5
<1> QED
    BY Zenon, <1>6 DEF First

\* The slots of a group are numbers.
LEMMA LeastSlot ==
    ASSUME NEW S \in SUBSET Slots, S # {}
    PROVE  First(S) \in S
<1>1. S \in SUBSET Nat
    BY DEF Slots
<1> QED
    BY Zenon, <1>1, LeastNumber

\* A store to one slot leaves the others, and the groups, alone.
LEMMA PutIs ==
    ASSUME GroupTypeOK, NEW g \in Groups, NEW idx \in Slots, NEW p \in Procs
    PROVE  /\ Put(g, idx, p) \in Tables
           /\ \A h \in Groups : Put(g, idx, p)[h].in_use = entries[h].in_use
           /\ \A h \in Groups, j \in Slots :
                Put(g, idx, p)[h].procs[j] = IF h = g /\ j = idx THEN p ELSE entries[h].procs[j]
BY Zenon DEF GroupTypeOK, Tables, Put

\* After some of the four stores a slot is still one.
LEMMA StoredIs ==
    ASSUME NEW p \in Procs, NEW q \in Procs, NEW f \in 0..4
    PROVE  /\ Stored(p, q, f) \in Procs
           /\ Stored(p, q, 0) = p
           /\ Stored(p, q, 4) = q
           /\ f # 4 => Stored(p, q, f).in_use = p.in_use
           /\ f = 4 => Stored(p, q, f).in_use = q.in_use
           /\ f # 0 => Stored(p, q, f).osii = q.osii
           /\ Stored(p, q, f).tsk \in {p.tsk, q.tsk}
BY DEF Procs, Stored

\* A slot that do_leave_cxlcg and recover_cxlcg_meta have cleared is nobody's.
LEMMA NoProcIs ==
    /\ NoProc \in Procs
    /\ NoProc.in_use = FALSE
    /\ NoProc.osii.os_id = 0
    /\ NoProc.tsk = NULL
BY Zenon DEF NoProc, Procs, Osii, Instances

\* How many stores a loop over slots has done to each: to all of S, or to some.
Counts == [Groups \X Slots -> 0..4]
Throughout(f, S) == f \in Counts /\ \A y \in Groups \X Slots : f[y] = IF y \in S THEN 4 ELSE 0
Within(f, S) == f \in Counts /\ \A y \in Groups \X Slots : y \notin S => f[y] = 0

\* T is the table with that many stores done to each slot.
ClearedTo(T, f) ==
    /\ T \in Tables
    /\ \A h \in Groups : T[h].in_use = entries[h].in_use
    /\ \A h \in Groups, j \in Slots : T[h].procs[j] = Stored(entries[h].procs[j], NoProc, f[<<h, j>>])

\* What the table is when some of the stores that clear slots are done.
LEMMA ClearedIs ==
    ASSUME GroupTypeOK, NEW f \in Counts
    PROVE  ClearedTo(Cleared(f), f)
<1>1. \A h \in Groups, j \in Slots : entries[h].procs[j] \in Procs /\ f[<<h, j>>] \in 0..4
    BY DEF GroupTypeOK, Tables, Counts
<1>2. \A h \in Groups, j \in Slots : Stored(entries[h].procs[j], NoProc, f[<<h, j>>]) \in Procs
    BY Zenon, <1>1, NoProcIs, StoredIs
<1>3. Cleared(f) \in Tables
    BY Zenon, <1>2 DEF Cleared, Tables, GroupTypeOK
<1> QED
    BY Zenon, <1>3 DEF Cleared, ClearedTo

\* The loop, complete or cut short.
LEMMA ClearAllDone ==
    ASSUME GroupTypeOK, NEW S
    PROVE  \E f : Throughout(f, S) /\ ClearedTo(ClearAll(S).done, f)
<1> DEFINE f == [y \in Groups \X Slots |-> IF y \in S THEN 4 ELSE 0]
<1>1. Throughout(f, S)
    BY DEF Throughout, Counts
<1>2. ClearAll(S).done = Cleared(f)
    BY DEF ClearAll, Operation
<1> HIDE DEF f
<1> QED
    BY Zenon, <1>1, <1>2, ClearedIs DEF Throughout

\* The loop of recover_cxlcg_meta, or the memset of do_delete_cxlcg, cut short by
\* a crash has touched no slot but those it was to clear.
LEMMA ClearAllCut ==
    ASSUME GroupTypeOK, NEW S, NEW T \in ClearAll(S).cut
    PROVE  T = entries \/ \E f : Within(f, S) /\ ClearedTo(T, f)
<1>1. CASE T = entries
    BY Zenon, <1>1
<1>2. CASE T # entries
    <2>1. PICK x \in S, n \in 0..4 : T = Cleared(Progress(S, x, n))
        BY <1>2 DEF ClearAll, Operation
    <2>2. Within(Progress(S, x, n), S)
        BY SMTT(30) DEF Progress, Within, Counts
    <2> QED
        BY Zenon, <2>1, <2>2, ClearedIs DEF Within
<1> QED
    BY Zenon, <1>1, <1>2

-----------------------------------------------------------------------------
(* Steps that put no process into the table *)

\* Every slot that holds a process after the step is the one before; a slot that
\* is left for nobody was one already, or its machine has died.
Shrinks ==
    /\ entries' \in Tables
    /\ \A g \in Groups, idx \in Slots :
         LET p == entries[g].procs[idx]
             q == entries'[g].procs[idx]
         IN /\ q.in_use /\ q.osii.os_id # 0 =>
                 p = q /\ (entries[g].in_use => entries'[g].in_use)
            /\ q.in_use /\ q.osii.os_id = 0 =>
                 /\ p.in_use
                 /\ q.tsk \in {p.tsk, NULL}
                 /\ p.osii.os_id = 0 \/ live'[p.osii.os_id] = {}

\* Whatever a slot holds after such a step it held before.
LEMMA HeldBefore ==
    ASSUME Shrinks, NEW g \in Groups, NEW idx \in Slots, NEW m \in Hosts, Holds(g, idx, m)'
    PROVE  /\ Holds(g, idx, m)
           /\ entries'[g].procs[idx] = entries[g].procs[idx]
           /\ entries[g].in_use => entries'[g].in_use
<1>1. m # 0
    BY DEF Hosts
<1>2. entries'[g].procs[idx].in_use /\ entries'[g].procs[idx].osii.os_id = m
    BY Zenon DEF Holds
<1>3. /\ entries[g].procs[idx] = entries'[g].procs[idx]
      /\ entries[g].in_use => entries'[g].in_use
    BY Zenon, <1>1, <1>2 DEF Shrinks
<1> QED
    BY Zenon, <1>2, <1>3 DEF Holds

\* Such a step keeps what is said of the table, if it starts no process.
LEMMA ShrinksKeeps ==
    ASSUME Orderly, GroupInv, Shrinks, \A m \in Hosts : live'[m] \subseteq live[m], past' = past
    PROVE  TableInv'
<1> USE DEF GroupInv, TableInv
<1>1. \A g \in Groups, idx \in Slots, m \in Hosts : Holds(g, idx, m)' =>
        /\ Holds(g, idx, m)
        /\ entries'[g].procs[idx] = entries[g].procs[idx]
        /\ entries[g].in_use => entries'[g].in_use
    BY Zenon, HeldBefore
<1>2. HeldWhole'
    BY <1>1 DEF HeldWhole
<1>3. HeldOnce'
    <2> SUFFICES ASSUME NEW g \in Groups, NEW h \in Groups, NEW idx \in Slots, NEW j \in Slots, NEW m \in Hosts,
                        Holds(g, idx, m)', Holds(h, j, m)',
                        entries'[g].procs[idx].local_proc_id = entries'[h].procs[j].local_proc_id
                 PROVE  g = h /\ idx = j
        BY Zenon DEF HeldOnce
    <2>1. /\ Holds(g, idx, m) /\ Holds(h, j, m)
          /\ entries[g].procs[idx].local_proc_id = entries[h].procs[j].local_proc_id
        BY Zenon, <1>1
    <2> QED
        BY Zenon, <2>1 DEF HeldOnce
<1>4. LeftForNobody'
    <2> SUFFICES ASSUME NEW g \in Groups, NEW idx \in Slots, Holds(g, idx, 0)', entries'[g].procs[idx].tsk # NULL
                 PROVE  \E s : Ended(s)' /\ Address[s] = entries'[g].procs[idx].tsk
        BY Zenon DEF LeftForNobody
    <2>1. /\ entries[g].procs[idx].in_use
          /\ entries'[g].procs[idx].tsk \in {entries[g].procs[idx].tsk, NULL}
          /\ \/ entries[g].procs[idx].osii.os_id = 0
             \/ live'[entries[g].procs[idx].osii.os_id] = {}
        BY ZenonT(30) DEF Shrinks, Holds
    <2>2. entries'[g].procs[idx].tsk = entries[g].procs[idx].tsk
        BY Zenon, <2>1
    <2>3. CASE entries[g].procs[idx].osii.os_id = 0
        <3>1. PICK s : Ended(s) /\ Address[s] = entries[g].procs[idx].tsk
            BY Zenon, <2>1, <2>2, <2>3 DEF LeftForNobody, Holds
        <3>2. Ended(s)'
            BY Zenon, <3>1 DEF Ended
        <3> QED
            BY Zenon, <2>2, <3>1, <3>2
    <2>4. CASE entries[g].procs[idx].osii.os_id # 0
        <3>1. PICK n \in Hosts : n = entries[g].procs[idx].osii.os_id
            BY <2>4 DEF GroupTypeOK, Tables, Procs, Instances
        <3>2. PICK s \in Tasks[n] \cap past : entries[g].procs[idx].tsk = Address[s]
            BY Zenon, <2>1, <3>1 DEF HeldWhole, Holds
        <3>3. ASSUME NEW k \in Hosts, s \in live'[k] PROVE FALSE
            <4>1. s \in Tasks[k]
                BY Zenon, <3>3 DEF GroupTypeOK
            <4>2. k = n
                BY Zenon, <3>2, <4>1 DEF Orderly, GroupsFit
            <4> QED
                BY Zenon, <2>1, <2>4, <3>1, <3>3, <4>2
        <3>4. Ended(s)'
            BY Zenon, <3>2, <3>3 DEF Ended
        <3> QED
            BY Zenon, <2>2, <3>2, <3>4
    <2> QED
        BY Zenon, <2>3, <2>4
<1> QED
    BY Zenon, <1>2, <1>3, <1>4

\* Who may be in a group still may, unless the process ended in the step.
LEMMA StillAccounted ==
    ASSUME NEW m \in Hosts, NEW t, Accounted(m, t), t \in live[m] => t \in live'[m],
           past \subseteq past', failed \subseteq failed', quiet \subseteq quiet'
    PROVE  Accounted(m, t)'
BY Zenon DEF Accounted, Namesakes

\* A step that leaves the slots alone, and takes away no group.
LEMMA SameSlots ==
    ASSUME GroupInv, entries' \in Tables,
           \A g \in Groups, idx \in Slots : entries'[g].procs[idx] = entries[g].procs[idx],
           \A g \in Groups : entries[g].in_use => entries'[g].in_use
    PROVE  Shrinks
<1>1. \A g \in Groups, idx \in Slots : entries[g].procs[idx].in_use /\ entries[g].procs[idx].osii.os_id = 0 =>
        entries'[g].procs[idx].tsk \in {entries[g].procs[idx].tsk, NULL}
    BY Zenon
<1> QED
    BY Zenon, <1>1 DEF Shrinks

\* do_create_cxlcg
LEMMA CreateShrinks ==
    ASSUME GroupInv, NEW g \in Groups,
           entries' \in {do_create_cxlcg(g).done} \cup do_create_cxlcg(g).cut
    PROVE  Shrinks /\ \A h \in Groups, idx \in Slots : entries'[h].procs[idx] = entries[h].procs[idx]
<1>1. entries \in Tables
    BY Zenon DEF GroupInv, GroupTypeOK
<1>2. entries' \in {entries, [entries EXCEPT ![g].in_use = TRUE]}
    BY Zenon DEF do_create_cxlcg, Nothing, Operation
<1>3. /\ [entries EXCEPT ![g].in_use = TRUE] \in Tables
      /\ \A h \in Groups : [entries EXCEPT ![g].in_use = TRUE][h].procs = entries[h].procs
      /\ \A h \in Groups : entries[h].in_use => [entries EXCEPT ![g].in_use = TRUE][h].in_use
    BY ZenonT(30), <1>1 DEF Tables
<1>4. /\ entries' \in Tables
      /\ \A h \in Groups, idx \in Slots : entries'[h].procs[idx] = entries[h].procs[idx]
      /\ \A h \in Groups : entries[h].in_use => entries'[h].in_use
    BY Zenon, <1>1, <1>2, <1>3
<1> QED
    BY Zenon, <1>4, SameSlots

\* A step that clears slots, one after the other, in part: those that hold a
\* process are cleared to the end, or their machine has died.
LEMMA ClearingShrinks ==
    ASSUME GroupInv, entries' \in Tables, NEW f \in Counts,
           \A g \in Groups, idx \in Slots :
             /\ entries'[g].procs[idx] = Stored(entries[g].procs[idx], NoProc, f[<<g, idx>>])
             /\ \/ entries[g].in_use => entries'[g].in_use
                \/ f[<<g, idx>>] = 4
             /\ \/ f[<<g, idx>>] \in {0, 4}
                \/ ~entries[g].procs[idx].in_use
                \/ entries[g].procs[idx].osii.os_id = 0
                \/ live'[entries[g].procs[idx].osii.os_id] = {}
    PROVE  Shrinks
<1> SUFFICES ASSUME NEW g \in Groups, NEW idx \in Slots
             PROVE  LET p == entries[g].procs[idx]
                        q == entries'[g].procs[idx]
                    IN /\ q.in_use /\ q.osii.os_id # 0 =>
                            p = q /\ (entries[g].in_use => entries'[g].in_use)
                       /\ q.in_use /\ q.osii.os_id = 0 =>
                            /\ p.in_use
                            /\ q.tsk \in {p.tsk, NULL}
                            /\ p.osii.os_id = 0 \/ live'[p.osii.os_id] = {}
    BY Zenon DEF Shrinks
<1> DEFINE p == entries[g].procs[idx]
           q == entries'[g].procs[idx]
           n == f[<<g, idx>>]
<1>1. p \in Procs /\ n \in 0..4 /\ q = Stored(p, NoProc, n)
    BY DEF GroupInv, GroupTypeOK, Tables, Counts
<1>2. /\ n = 4 \/ (entries[g].in_use => entries'[g].in_use)
      /\ n \in {0, 4} \/ ~p.in_use \/ p.osii.os_id = 0 \/ live'[p.osii.os_id] = {}
    BY Zenon
<1> HIDE DEF p, q, n
<1>3. /\ n = 0 => q = p
      /\ n = 4 => q.in_use = FALSE
      /\ n # 4 => q.in_use = p.in_use
      /\ n # 0 => q.osii.os_id = 0
      /\ q.tsk \in {p.tsk, NULL}
    BY <1>1, StoredIs, NoProcIs
<1>4. /\ q.in_use /\ q.osii.os_id # 0 => p = q /\ (entries[g].in_use => entries'[g].in_use)
      /\ q.in_use /\ q.osii.os_id = 0 =>
           /\ p.in_use
           /\ q.tsk \in {p.tsk, NULL}
           /\ p.osii.os_id = 0 \/ live'[p.osii.os_id] = {}
    BY Zenon, <1>2, <1>3
<1> QED
    BY ZenonT(30), <1>4 DEF p, q

\* do_delete_cxlcg, of a group in which no process is.
LEMMA DeleteShrinks ==
    ASSUME Orderly, GroupInv, NEW m \in Hosts, NEW g \in Groups, MayDelete(m, g),
           entries' \in {do_delete_cxlcg(g).done} \cup do_delete_cxlcg(g).cut
    PROVE  Shrinks
<1> DEFINE empty == ClearAll({g} \X Slots)
           deleted == [empty.done EXCEPT ![g].in_use = FALSE]
<1>1. entries' = deleted \/ entries' \in empty.cut
    BY Zenon DEF do_delete_cxlcg, Operation
<1>2. \A idx \in Slots : entries[g].procs[idx].in_use => entries[g].procs[idx].osii.os_id = 0
    BY Zenon DEF MayDelete, Orderly, AllRules
<1>3. CASE entries' = deleted
    <2>1. PICK f : Throughout(f, {g} \X Slots) /\ ClearedTo(empty.done, f)
        BY Zenon, ClearAllDone DEF GroupInv
    <2>2. /\ entries' \in Tables
          /\ \A h \in Groups : entries'[h].procs = empty.done[h].procs
          /\ \A h \in Groups : h # g => entries'[h].in_use = empty.done[h].in_use
        <3> HIDE DEF empty
        <3> QED BY Zenon, <1>3, <2>1 DEF Tables, ClearedTo
    <2>3. \A h \in Groups, j \in Slots : f[<<h, j>>] = IF h = g THEN 4 ELSE 0
        BY <2>1 DEF Throughout
    <2>4. f \in Counts
        BY Zenon, <2>1 DEF Throughout
    <2>5. \A h \in Groups, j \in Slots : entries'[h].procs[j] = Stored(entries[h].procs[j], NoProc, f[<<h, j>>])
        BY Zenon, <2>1, <2>2 DEF ClearedTo
    <2>6. \A h \in Groups : h # g => entries'[h].in_use = entries[h].in_use
        BY Zenon, <2>1, <2>2 DEF ClearedTo
    <2> QED
        BY Zenon, <2>2, <2>3, <2>4, <2>5, <2>6, ClearingShrinks
<1>4. CASE entries' \in empty.cut
    <2>1. CASE entries' = entries
        BY Zenon, <2>1, SameSlots DEF GroupInv, GroupTypeOK
    <2>2. ASSUME NEW f, Within(f, {g} \X Slots), ClearedTo(entries', f) PROVE Shrinks
        <3>1. f \in Counts /\ \A h \in Groups, j \in Slots : h # g => f[<<h, j>>] = 0
            BY Zenon, <2>2 DEF Within
        <3>2. /\ entries' \in Tables
              /\ \A h \in Groups : entries'[h].in_use = entries[h].in_use
              /\ \A h \in Groups, j \in Slots :
                   entries'[h].procs[j] = Stored(entries[h].procs[j], NoProc, f[<<h, j>>])
            BY Zenon, <2>2 DEF ClearedTo
        <3> QED
            BY <1>2, <3>1, <3>2, ClearingShrinks
    <2> QED
        BY Zenon, <1>4, <2>1, <2>2, ClearAllCut DEF GroupInv
<1> QED
    BY Zenon, <1>1, <1>3, <1>4

\* The second half of recover_cxlcg_meta: cut short, or complete, and then no
\* process of the machine is left.
LEMMA RemoveShrinks ==
    ASSUME GroupInv, NEW m \in Hosts,
           \/ entries' = remove_dead(m).done
           \/ entries' \in remove_dead(m).cut /\ live'[m] = {}
    PROVE  /\ Shrinks
           /\ entries' = remove_dead(m).done => \A g \in Groups, idx \in Slots : ~Holds(g, idx, m)'
<1> DEFINE S == {x \in Groups \X Slots :
                   /\ entries[x[1]].in_use
                   /\ entries[x[1]].procs[x[2]].in_use
                   /\ entries[x[1]].procs[x[2]].osii.os_id = m}
<1>1. remove_dead(m) = ClearAll(S)
    BY Zenon DEF remove_dead
<1>2. \A g \in Groups, idx \in Slots : <<g, idx>> \in S <=> Holds(g, idx, m)
    BY Zenon DEF Holds, GroupInv, TableInv, HeldWhole
<1> HIDE DEF S
<1>3. ASSUME entries' = remove_dead(m).done
      PROVE  Shrinks /\ \A g \in Groups, idx \in Slots : ~Holds(g, idx, m)'
    <2>1. PICK f : Throughout(f, S) /\ ClearedTo(entries', f)
        BY Zenon, <1>1, <1>3, ClearAllDone DEF GroupInv
    <2>2. /\ entries' \in Tables
          /\ \A h \in Groups : entries'[h].in_use = entries[h].in_use
          /\ \A h \in Groups, j \in Slots :
               entries'[h].procs[j] = Stored(entries[h].procs[j], NoProc, f[<<h, j>>])
        BY Zenon, <2>1 DEF ClearedTo
    <2>3. f \in Counts /\ \A h \in Groups, j \in Slots : f[<<h, j>>] = IF Holds(h, j, m) THEN 4 ELSE 0
        BY Zenon, <1>2, <2>1 DEF Throughout
    <2>4. Shrinks
        BY Zenon, <2>2, <2>3, ClearingShrinks
    <2>5. ASSUME NEW g \in Groups, NEW idx \in Slots PROVE ~Holds(g, idx, m)'
        <3>1. entries[g].procs[idx] \in Procs
            BY Zenon DEF GroupInv, GroupTypeOK, Tables
        <3>2. entries'[g].procs[idx] = Stored(entries[g].procs[idx], NoProc, IF Holds(g, idx, m) THEN 4 ELSE 0)
            BY Zenon, <2>2, <2>3
        <3>3. CASE Holds(g, idx, m)
            <4>1. entries'[g].procs[idx] = NoProc
                BY <3>1, <3>2, <3>3, StoredIs, NoProcIs
            <4> QED
                BY Zenon, <4>1, NoProcIs DEF Holds
        <3>4. CASE ~Holds(g, idx, m)
            <4>1. entries'[g].procs[idx] = entries[g].procs[idx]
                BY <3>1, <3>2, <3>4, StoredIs, NoProcIs
            <4> QED
                BY Zenon, <3>4, <4>1 DEF Holds
        <3> QED
            BY Zenon, <3>3, <3>4
    <2> QED
        BY Zenon, <2>4, <2>5
<1>4. ASSUME entries' \in remove_dead(m).cut, live'[m] = {} PROVE Shrinks
    <2>1. CASE entries' = entries
        BY Zenon, <2>1, SameSlots DEF GroupInv, GroupTypeOK
    <2>2. ASSUME NEW f, Within(f, S), ClearedTo(entries', f) PROVE Shrinks
        <3>1. f \in Counts /\ \A h \in Groups, j \in Slots : f[<<h, j>>] # 0 => entries[h].procs[j].osii.os_id = m
            BY Zenon, <1>2, <2>2 DEF Within, Holds
        <3>2. /\ entries' \in Tables
              /\ \A h \in Groups : entries'[h].in_use = entries[h].in_use
              /\ \A h \in Groups, j \in Slots :
                   entries'[h].procs[j] = Stored(entries[h].procs[j], NoProc, f[<<h, j>>])
            BY Zenon, <2>2 DEF ClearedTo
        <3> QED
            BY Zenon, <1>4, <3>1, <3>2, ClearingShrinks
    <2> QED
        BY Zenon, <1>1, <1>4, <2>1, <2>2, ClearAllCut DEF GroupInv
<1> QED
    BY Zenon, <1>3, <1>4

\* One slot is written; it keeps no process of a machine that is up.
LEMMA PutShrinks ==
    ASSUME GroupInv, NEW g \in Groups, NEW idx \in Slots, NEW q \in Procs, entries' = Put(g, idx, q),
           q.in_use =>
             \/ q = entries[g].procs[idx]
             \/ /\ entries[g].procs[idx].in_use
                /\ q.osii.os_id = 0
                /\ q.tsk \in {entries[g].procs[idx].tsk, NULL}
                /\ live'[entries[g].procs[idx].osii.os_id] = {}
    PROVE  Shrinks
<1>1. /\ entries' \in Tables
      /\ \A h \in Groups : entries'[h].in_use = entries[h].in_use
      /\ \A h \in Groups, j \in Slots :
           entries'[h].procs[j] = IF h = g /\ j = idx THEN q ELSE entries[h].procs[j]
    BY PutIs DEF GroupInv
<1>2. \A h \in Groups, j \in Slots : h # g \/ j # idx => entries'[h].procs[j] = entries[h].procs[j]
    BY Zenon, <1>1
<1>3. entries'[g].procs[idx] = q
    BY Zenon, <1>1
<1>4. \A h \in Groups, j \in Slots : h # g \/ j # idx =>
        entries'[h].procs[j].tsk \in {entries[h].procs[j].tsk, NULL}
    BY Zenon, <1>2
<1> SUFFICES ASSUME NEW h \in Groups, NEW j \in Slots
             PROVE  LET p == entries[h].procs[j]
                        r == entries'[h].procs[j]
                    IN /\ r.in_use /\ r.osii.os_id # 0 =>
                            p = r /\ (entries[h].in_use => entries'[h].in_use)
                       /\ r.in_use /\ r.osii.os_id = 0 =>
                            /\ p.in_use
                            /\ r.tsk \in {p.tsk, NULL}
                            /\ p.osii.os_id = 0 \/ live'[p.osii.os_id] = {}
    BY ZenonT(30), <1>1 DEF Shrinks
<1>5. CASE h = g /\ j = idx
    BY ZenonT(30), <1>1, <1>3, <1>5
<1>6. CASE h # g \/ j # idx
    BY Zenon, <1>1, <1>2, <1>4, <1>6
<1> QED
    BY Zenon, <1>5, <1>6

\* do_leave_cxlcg, complete or cut short by the death of the machine.
LEMMA LeaveShrinks ==
    ASSUME GroupInv, NEW m \in Hosts, NEW g \in Groups, NEW osii, osii.os_id = m, NEW t,
           \/ entries' = do_leave_cxlcg(g, osii, t).done
           \/ entries' \in do_leave_cxlcg(g, osii, t).cut /\ live'[m] = {}
    PROVE  Shrinks
<1> DEFINE mine == {idx \in Slots : IsProc(entries[g].procs[idx], osii, LocalId[t])}
<1>1. CASE mine = {}
    <2>1. entries' = entries
        BY Zenon, <1>1 DEF do_leave_cxlcg, Nothing, Operation
    <2> QED
        BY Zenon, <2>1, SameSlots DEF GroupInv, GroupTypeOK
<1>2. CASE mine # {}
    <2>1. PICK idx \in mine : idx = First(mine)
        BY Zenon, <1>2, LeastSlot
    <2>2. entries[g].procs[idx].in_use /\ entries[g].procs[idx].osii.os_id = m
        BY Zenon, <2>1 DEF IsProc
    <2>3. entries[g].procs[idx] \in Procs
        BY Zenon, <2>1 DEF GroupInv, GroupTypeOK, Tables
    <2>4. do_leave_cxlcg(g, osii, t) = SetSlot(g, idx, NoProc)
        BY Zenon, <1>2, <2>1 DEF do_leave_cxlcg
    <2>5. CASE entries' = Put(g, idx, NoProc)
        BY Zenon, <2>1, <2>5, NoProcIs, PutShrinks
    <2>6. ASSUME NEW f \in 0..4, entries' = Put(g, idx, Stored(entries[g].procs[idx], NoProc, f)), live'[m] = {}
          PROVE  Shrinks
        <3> DEFINE q == Stored(entries[g].procs[idx], NoProc, f)
        <3>1. q \in Procs /\ q.tsk \in {entries[g].procs[idx].tsk, NULL}
            BY Zenon, <2>3, NoProcIs, StoredIs
        <3>2. f = 0 => q = entries[g].procs[idx]
            BY <2>3, NoProcIs, StoredIs
        <3>3. f # 0 => q.osii.os_id = 0
            BY Zenon, <2>3, NoProcIs, StoredIs
        <3> HIDE DEF q
        <3> QED
            BY Zenon, <2>1, <2>2, <2>6, <3>1, <3>2, <3>3, PutShrinks DEF q
    <2> QED
        BY <2>4, <2>5, <2>6 DEF SetSlot, Operation
<1> QED
    BY Zenon, <1>1, <1>2

\* notify_proc_failure
LEMMA NotifyShrinks ==
    ASSUME GroupInv, NEW t, Found(t) # {} => FirstFound(t) \in Found(t),
           entries' \in {notify_proc_failure(t).done} \cup notify_proc_failure(t).cut
    PROVE  /\ Shrinks
           /\ Found(t) # {} /\ entries' = notify_proc_failure(t).done =>
                ~entries'[FirstFound(t)[1]].procs[FirstFound(t)[2]].in_use
<1>1. CASE Found(t) = {}
    <2>1. entries' = entries
        BY Zenon, <1>1 DEF notify_proc_failure, Nothing, Operation
    <2> QED
        BY Zenon, <1>1, <2>1, SameSlots DEF GroupInv, GroupTypeOK
<1>2. CASE Found(t) # {}
    <2>1. PICK g \in Groups, idx \in Slots : g = FirstFound(t)[1] /\ idx = FirstFound(t)[2]
        BY Zenon, <1>2 DEF Found
    <2> DEFINE p == entries[g].procs[idx]
               hidden == [p EXCEPT !.in_use = FALSE]
               free == [p EXCEPT !.in_use = FALSE, !.tsk = NULL]
    <2>2. p \in Procs
        <3>1. entries \in Tables
            BY Zenon DEF GroupInv, GroupTypeOK
        <3> QED
            BY Zenon, <3>1 DEF Tables
    <2>3. /\ hidden \in Procs /\ hidden.in_use = FALSE /\ hidden.tsk = p.tsk
          /\ free \in Procs /\ free.in_use = FALSE /\ free.tsk = NULL
        BY Zenon, <2>2 DEF Procs
    <2>4. entries' \in {entries, Put(g, idx, hidden), Put(g, idx, free)}
        BY Zenon, <1>2, <2>1 DEF notify_proc_failure, Operation
    <2> HIDE DEF hidden, free
    <2>5. notify_proc_failure(t).done = Put(g, idx, free)
        BY Zenon, <1>2, <2>1 DEF notify_proc_failure, Operation, free
    <2>6. entries' = Put(g, idx, free) => ~entries'[g].procs[idx].in_use
        BY <2>3, PutIs DEF GroupInv
    <2>7. ~hidden.in_use /\ ~free.in_use
        BY Zenon, <2>3
    <2>8. Shrinks
        <3>1. CASE entries' = entries
            BY Zenon, <3>1, SameSlots DEF GroupInv, GroupTypeOK
        <3>2. CASE entries' = Put(g, idx, hidden)
            BY Zenon, <2>3, <2>7, <3>2, PutShrinks
        <3>3. CASE entries' = Put(g, idx, free)
            BY Zenon, <2>3, <2>7, <3>3, PutShrinks
        <3> QED
            BY Zenon, <2>4, <3>1, <3>2, <3>3
    <2> QED
        BY Zenon, <2>1, <2>5, <2>6, <2>8
<1> QED
    BY Zenon, <1>1, <1>2

\* The first slot with the address exists if any does: the groups, and then the
\* slots of the first of them, are numbers.
LEMMA FirstIsFound ==
    ASSUME NEW t, Found(t) # {}
    PROVE  FirstFound(t) \in Found(t)
<1> DEFINE G == {g \in Groups : \E idx \in Slots : <<g, idx>> \in Found(t)}
           g == First(G)
           I == {idx \in Slots : <<g, idx>> \in Found(t)}
           idx == First(I)
<1>1. \A x \in Found(t) : x \in Groups \X Slots /\ x = <<x[1], x[2]>>
    BY DEF Found
<1>2. G \in SUBSET Nat /\ G # {}
    <2>1. Groups \subseteq Nat
        BY DEF Groups
    <2> QED
        BY <1>1, <2>1
<1>3. g \in G /\ \A h \in G : g <= h
    <2> HIDE DEF G
    <2> QED BY Zenon, <1>2, LeastNumber
<1>4. I \in SUBSET Nat /\ I # {}
    <2>1. Slots \subseteq Nat
        BY DEF Slots
    <2> QED
        BY Zenon, <1>3, <2>1
<1>5. idx \in I /\ \A j \in I : idx <= j
    <2> HIDE DEF I
    <2> QED BY Zenon, <1>4, LeastNumber
<1>6. <<g, idx>> \in Found(t)
    BY Zenon, <1>5
<1>7. ASSUME NEW y \in Found(t) PROVE <<g, idx>> = y \/ Before(<<g, idx>>, y)
    <2>1. PICK h \in Groups, j \in Slots : y = <<h, j>>
        BY <1>1
    <2>2. h \in G /\ g <= h
        BY Zenon, <1>3, <2>1
    <2>3. h = g => idx <= j
        BY Zenon, <1>5, <2>1
    <2>4. g \in Nat /\ h \in Nat /\ idx \in Nat /\ j \in Nat
        BY <1>2, <1>3, <1>4, <1>5, <2>1, <2>2 DEF Slots
    <2> HIDE DEF g, idx
    <2> QED
        BY <2>1, <2>2, <2>3, <2>4 DEF Before
<1> QED
    BY Zenon, <1>6, <1>7 DEF FirstFound

\* notify_proc_failure finds a running process in the slot that holds it, if
\* there is one, but it may find others before.
LEMMA OwnFound ==
    ASSUME Orderly, GroupInv, NEW m \in Hosts, NEW t \in Tasks[m], NEW g \in Groups, NEW idx \in Slots,
           Holds(g, idx, m), entries[g].procs[idx].local_proc_id = LocalId[t]
    PROVE  <<g, idx>> \in Found(t)
<1>1. entries[g].in_use /\ entries[g].procs[idx].in_use /\ entries[g].procs[idx].tsk = Address[t]
    BY DEF GroupInv, TableInv, HeldWhole, Holds, Orderly
<1> QED
    BY Zenon, <1>1 DEF Found

\* A slot with the address of t that does not hold t was left by a namesake.
LEMMA OthersFound ==
    ASSUME Orderly, GroupInv, NEW m \in Hosts, NEW t \in live[m], NEW g \in Groups, NEW idx \in Slots,
           <<g, idx>> \in Found(t), ~(Holds(g, idx, m) /\ entries[g].procs[idx].local_proc_id = LocalId[t])
    PROVE  Namesakes(t) # {}
<1>1. entries[g].procs[idx].in_use /\ entries[g].procs[idx].tsk = Address[t]
    BY Zenon DEF Found
<1>2. t \in Tasks[m] /\ Address[t] # NULL
    BY Zenon DEF GroupInv, GroupTypeOK, Orderly, GroupsFit
<1>3. CASE entries[g].procs[idx].osii.os_id = 0
    <2>1. PICK s : Ended(s) /\ Address[s] = Address[t]
        BY Zenon, <1>1, <1>2, <1>3 DEF GroupInv, TableInv, LeftForNobody, Holds
    <2>2. s \in past \ {t}
        BY Zenon, <2>1 DEF Ended
    <2> QED
        BY Zenon, <2>1, <2>2 DEF Namesakes
<1>4. CASE entries[g].procs[idx].osii.os_id # 0
    <2>1. PICK n \in Hosts : n = entries[g].procs[idx].osii.os_id
        BY <1>4 DEF GroupInv, GroupTypeOK, Tables, Procs, Instances
    <2>2. PICK s \in Tasks[n] \cap past : /\ entries[g].procs[idx].local_proc_id = LocalId[s]
                                         /\ entries[g].procs[idx].tsk = Address[s]
        BY Zenon, <1>1, <2>1 DEF GroupInv, TableInv, HeldWhole, Holds
    <2>3. s # t
        BY <1>1, <1>2, <2>1, <2>2 DEF Orderly, GroupsFit, Holds
    <2> QED
        BY Zenon, <1>1, <2>2, <2>3 DEF Namesakes
<1> QED
    BY Zenon, <1>3, <1>4

-----------------------------------------------------------------------------
(* The step that puts a process into the table *)

\* A free slot of group g now holds process t, which no slot held.
Joined(m, g, t) ==
    /\ \A j \in Slots : ~IsProc(entries[g].procs[j], my_osii[m], LocalId[t])
    /\ \E idx \in Slots : ~entries[g].procs[idx].in_use /\ entries' = Put(g, idx, Member(m, t))

\* What do_join_cxlcg stores.
LEMMA MemberIs ==
    ASSUME Orderly, GroupInv, NEW m \in Hosts, NEW t \in Tasks[m]
    PROVE  /\ Member(m, t) \in Procs
           /\ Member(m, t).tsk = Address[t] /\ Member(m, t).in_use /\ Member(m, t).osii = my_osii[m]
           /\ Member(m, t).local_proc_id = LocalId[t] /\ Member(m, t).osii.os_id = m
<1>1. Address[t] \in Addresses /\ LocalId[t] \in Nat
    BY DEF Addresses, AllTasks, Orderly, GroupsFit
<1>2. my_osii[m] \in Instances /\ my_osii[m].os_id = m
    BY Zenon DEF GroupInv, GroupTypeOK, HostsKnown
<1> QED
    BY Zenon, <1>1, <1>2 DEF Member, Procs

\* do_join_cxlcg, complete or cut short.
LEMMA JoinIs ==
    ASSUME Orderly, GroupInv, NEW m \in Hosts, NEW g \in Groups, NEW t \in live[m],
           entries' \in {do_join_cxlcg(g, m, t).done} \cup do_join_cxlcg(g, m, t).cut
    PROVE  Shrinks \/ Joined(m, g, t)
<1>1. CASE do_join_cxlcg(g, m, t) = Nothing
    <2>1. entries' = entries
        BY <1>1 DEF Nothing, Operation
    <2> QED
        BY Zenon, <2>1, SameSlots DEF GroupInv, GroupTypeOK
<1>2. CASE do_join_cxlcg(g, m, t) # Nothing
    <2>1. /\ \A j \in Slots : ~IsProc(entries[g].procs[j], my_osii[m], LocalId[t])
          /\ FreeSlots(g) # {}
          /\ do_join_cxlcg(g, m, t) = SetSlot(g, First(FreeSlots(g)), Member(m, t))
        BY Zenon, <1>2 DEF do_join_cxlcg
    <2>2. PICK idx \in FreeSlots(g) : idx = First(FreeSlots(g))
        BY ZenonT(30), <2>1, LeastSlot DEF FreeSlots
    <2>3. idx \in Slots /\ ~entries[g].procs[idx].in_use
        BY Zenon DEF FreeSlots
    <2>4. entries[g].procs[idx] \in Procs
        BY Zenon, <2>3 DEF GroupInv, GroupTypeOK, Tables
    <2>5. Member(m, t) \in Procs
        BY Zenon, MemberIs DEF GroupInv, GroupTypeOK
    <2>6. CASE entries' = Put(g, idx, Member(m, t))
        BY Zenon, <2>1, <2>3, <2>6 DEF Joined
    <2>7. ASSUME NEW f \in 0..4, f # 4, entries' = Put(g, idx, Stored(entries[g].procs[idx], Member(m, t), f))
          PROVE  Shrinks
        <3> DEFINE q == Stored(entries[g].procs[idx], Member(m, t), f)
        <3>1. q \in Procs /\ q.in_use = entries[g].procs[idx].in_use
            BY ZenonT(60), <2>4, <2>5, <2>7, StoredIs
        <3> HIDE DEF q
        <3> QED
            BY Zenon, <2>3, <2>7, <3>1, PutShrinks DEF q
    <2>8. Stored(entries[g].procs[idx], Member(m, t), 4) = Member(m, t)
        BY <2>4, <2>5, StoredIs
    <2>9. \/ entries' = Put(g, idx, Member(m, t))
          \/ \E f \in 0..4 : entries' = Put(g, idx, Stored(entries[g].procs[idx], Member(m, t), f))
        BY <2>1, <2>2 DEF SetSlot, Operation
    <2> QED
        BY Zenon, <2>6, <2>7, <2>8, <2>9
<1> QED
    BY Zenon, <1>1, <1>2

\* Such a step keeps what is said of the table: nothing held the process before.
LEMMA JoinedKeeps ==
    ASSUME Orderly, GroupInv, NEW m \in Hosts, NEW g \in Groups, NEW t, state[m] = "up", MayJoin(m, t, g),
           Joined(m, g, t), \A n \in Hosts : live'[n] \subseteq live[n], past' = past
    PROVE  /\ TableInv'
           /\ entries' \in Tables
           /\ \A h \in Groups, j \in Slots, n \in Hosts : Holds(h, j, n)' =>
                \/ Holds(h, j, n) /\ entries'[h].procs[j] = entries[h].procs[j]
                \/ n = m /\ entries'[h].procs[j] = Member(m, t)
<1>1. PICK idx \in Slots : ~entries[g].procs[idx].in_use /\ entries' = Put(g, idx, Member(m, t))
    BY Zenon DEF Joined
<1>2. t \in live[m] /\ t \in Tasks[m] /\ t \in past
    BY Zenon DEF MayJoin, GroupInv, GroupTypeOK, RunningKnown
<1>3. /\ Member(m, t) \in Procs
      /\ Member(m, t).tsk = Address[t] /\ Member(m, t).in_use /\ Member(m, t).osii = my_osii[m]
      /\ Member(m, t).local_proc_id = LocalId[t] /\ Member(m, t).osii.os_id = m
    BY Zenon, <1>2, MemberIs
<1>4. /\ entries' \in Tables
      /\ \A h \in Groups : entries'[h].in_use = entries[h].in_use
      /\ \A h \in Groups, j \in Slots :
           entries'[h].procs[j] = IF h = g /\ j = idx THEN Member(m, t) ELSE entries[h].procs[j]
    BY <1>1, <1>3, PutIs DEF GroupInv
<1>5. entries[g].in_use /\ m # 0
    BY DEF MayJoin, Orderly, AllRules, Hosts
<1>6. \A h \in Groups, j \in Slots, n \in Hosts \cup {0} : Holds(h, j, n)' =>
        \/ (h # g \/ j # idx) /\ Holds(h, j, n) /\ entries'[h].procs[j] = entries[h].procs[j]
        \/ h = g /\ j = idx /\ n = m /\ entries'[h].procs[j] = Member(m, t)
    BY <1>3, <1>4 DEF Holds
<1>7. HeldWhole'
    <2> SUFFICES ASSUME NEW h \in Groups, NEW j \in Slots, NEW n \in Hosts, Holds(h, j, n)'
                 PROVE  /\ entries'[h].in_use
                        /\ \E u \in Tasks[n] \cap past : /\ entries'[h].procs[j].local_proc_id = LocalId[u]
                                                       /\ entries'[h].procs[j].tsk = Address[u]
        BY Zenon DEF HeldWhole
    <2>1. CASE Holds(h, j, n) /\ entries'[h].procs[j] = entries[h].procs[j]
        BY <1>4, <2>1 DEF HeldWhole, GroupInv, TableInv
    <2>2. CASE h = g /\ n = m /\ entries'[h].procs[j] = Member(m, t)
        BY Zenon, <1>2, <1>3, <1>4, <1>5, <2>2
    <2> QED
        BY <1>6, <2>1, <2>2
<1>8. \A h \in Groups, j \in Slots : ~(Holds(h, j, m) /\ entries[h].procs[j].local_proc_id = LocalId[t])
    <2> SUFFICES ASSUME NEW h \in Groups, NEW j \in Slots, Holds(h, j, m), entries[h].procs[j].local_proc_id = LocalId[t]
                 PROVE  FALSE
        BY Zenon
    <2>1. ~InGroup(m, t, Groups \ {g})
        BY Zenon DEF MayJoin, Orderly, AllRules
    <2>2. CASE h # g
        BY Zenon, <2>1, <2>2 DEF InGroup, Holds
    <2>3. CASE h = g
        <3>1. entries[h].procs[j].osii = my_osii[m]
            BY Zenon DEF GroupInv, HeldAlive
        <3> QED
            BY Zenon, <2>3, <3>1 DEF Joined, IsProc, Holds
    <2> QED
        BY Zenon, <2>2, <2>3
<1>9. HeldOnce'
    <2> SUFFICES ASSUME NEW h \in Groups, NEW k \in Groups, NEW j \in Slots, NEW l \in Slots, NEW n \in Hosts,
                        Holds(h, j, n)', Holds(k, l, n)',
                        entries'[h].procs[j].local_proc_id = entries'[k].procs[l].local_proc_id
                 PROVE  h = k /\ j = l
        BY Zenon DEF HeldOnce
    <2>1. CASE h = g /\ j = idx
        BY <1>3, <1>6, <1>8, <2>1
    <2>2. CASE k = g /\ l = idx
        BY <1>3, <1>6, <1>8, <2>2
    <2>3. CASE ~(h = g /\ j = idx) /\ ~(k = g /\ l = idx)
        <3>1. /\ Holds(h, j, n) /\ Holds(k, l, n)
              /\ entries[h].procs[j].local_proc_id = entries[k].procs[l].local_proc_id
            BY Zenon, <1>6, <2>3
        <3> QED
            BY Zenon, <3>1 DEF GroupInv, TableInv, HeldOnce
    <2> QED
        BY Zenon, <2>1, <2>2, <2>3
<1>10. LeftForNobody'
    <2>1. \A s : Ended(s) => Ended(s)'
        BY Zenon DEF Ended
    <2> QED
        BY <1>5, <1>6, <2>1 DEF LeftForNobody, GroupInv, TableInv
<1> QED
    BY Zenon, <1>4, <1>6, <1>7, <1>9, <1>10 DEF TableInv

-----------------------------------------------------------------------------
(* The steps *)

\* Slots that are as before, on machines that are up as before.
LEMMA KeepsAlive ==
    ASSUME GroupInv, NEW g \in Groups, NEW idx \in Slots, NEW m \in Hosts, state[m] = "up", Holds(g, idx, m),
           entries'[g].procs[idx] = entries[g].procs[idx], my_osii'[m] = my_osii[m],
           live[m] \subseteq live'[m], past \subseteq past', UNCHANGED exits
    PROVE  /\ entries'[g].procs[idx].osii = my_osii'[m]
           /\ \A t \in Tasks[m] : entries'[g].procs[idx].local_proc_id = LocalId[t] => Accounted(m, t)'
<1>1. failed \subseteq failed' /\ quiet \subseteq quiet'
    BY Zenon DEF exits
<1>2. /\ entries'[g].procs[idx].osii = my_osii'[m]
      /\ \A t \in Tasks[m] : entries'[g].procs[idx].local_proc_id = LocalId[t] => Accounted(m, t)
    BY Zenon DEF GroupInv, HeldAlive
<1> QED
    BY Zenon, <1>1, <1>2, StillAccounted

\* An operation of a machine that stays up, and puts no process into the table.
LEMMA QuietStep ==
    ASSUME Orderly, GroupInv, Shrinks, UNCHANGED <<owner, my_osii, state, live, past, exits, deaths>>
    PROVE  GroupInv'
<1>1. \A m \in Hosts : live'[m] \subseteq live[m]
    BY Zenon
<1>2. TableInv'
    BY Zenon, <1>1, ShrinksKeeps
<1>3. HeldAlive'
    <2>1. \A g \in Groups, idx \in Slots, m \in Hosts : Holds(g, idx, m)' =>
            Holds(g, idx, m) /\ entries'[g].procs[idx] = entries[g].procs[idx]
        BY Zenon, HeldBefore
    <2> QED
        BY Zenon, <2>1, KeepsAlive DEF HeldAlive
<1> QED
    BY Zenon, <1>2, <1>3 DEF GroupInv, GroupTypeOK, Shrinks, HostsKnown, RunningKnown, exits

\* do_join_cxlcg, complete.
LEMMA JoinStep ==
    ASSUME Orderly, GroupInv, NEW m \in Hosts, NEW g \in Groups, NEW t, Join(m, g, t)
    PROVE  GroupInv'
<1>1. /\ t \in live[m] /\ MayJoin(m, t, g) /\ state[m] = "up"
      /\ entries' = do_join_cxlcg(g, m, t).done
      /\ UNCHANGED <<owner, my_osii, state, live, past, exits, deaths>>
    BY Zenon DEF Join, Quietly, Run, MayJoin
<1>2. CASE Shrinks
    BY Zenon, <1>1, <1>2, QuietStep
<1>3. CASE Joined(m, g, t)
    <2>1. /\ TableInv'
          /\ entries' \in Tables
          /\ \A h \in Groups, j \in Slots, n \in Hosts : Holds(h, j, n)' =>
               \/ Holds(h, j, n) /\ entries'[h].procs[j] = entries[h].procs[j]
               \/ n = m /\ entries'[h].procs[j] = Member(m, t)
        BY <1>1, <1>3, JoinedKeeps
    <2>2. t \in Tasks[m] /\ Member(m, t).osii = my_osii[m] /\ Member(m, t).local_proc_id = LocalId[t]
        BY <1>1, MemberIs DEF GroupInv, GroupTypeOK
    <2>3. HeldAlive'
        <3> SUFFICES ASSUME NEW h \in Groups, NEW j \in Slots, NEW n \in Hosts, state'[n] = "up", Holds(h, j, n)'
                     PROVE  /\ entries'[h].procs[j].osii = my_osii'[n]
                            /\ \A u \in Tasks[n] :
                                 entries'[h].procs[j].local_proc_id = LocalId[u] => Accounted(n, u)'
            BY Zenon DEF HeldAlive
        <3>1. CASE Holds(h, j, n) /\ entries'[h].procs[j] = entries[h].procs[j]
            BY Zenon, <1>1, <3>1, KeepsAlive
        <3>2. CASE n = m /\ entries'[h].procs[j] = Member(m, t)
            <4>1. Accounted(m, t)'
                BY Zenon, <1>1 DEF Accounted
            <4>2. \A u \in Tasks[m] : LocalId[t] = LocalId[u] => u = t
                BY Zenon, <2>2 DEF Orderly
            <4> QED
                BY Zenon, <1>1, <2>2, <3>2, <4>1, <4>2
        <3> QED
            BY Zenon, <2>1, <3>1, <3>2
    <2> QED
        BY Zenon, <1>1, <2>1, <2>3 DEF GroupInv, GroupTypeOK, HostsKnown, RunningKnown, exits
<1> QED
    BY Zenon, <1>1, <1>2, <1>3, JoinIs

\* A machine dies, outside of an operation or inside one.
LEMMA DeathStep ==
    ASSUME Orderly, GroupInv, NEW m \in Hosts, Die(m), TableInv', entries' \in Tables, owner' \in {owner, m},
           \A g \in Groups, idx \in Slots, n \in Hosts \ {m} : Holds(g, idx, n)' =>
             Holds(g, idx, n) /\ entries'[g].procs[idx] = entries[g].procs[idx]
    PROVE  GroupInv'
<1>1. /\ state' = [state EXCEPT ![m] = "down"]
      /\ live' = [live EXCEPT ![m] = {}]
      /\ deaths' = deaths + 1
      /\ UNCHANGED <<my_osii, past, exits, failed, quiet>>
    BY Zenon DEF Die, exits
<1>2. GroupTypeOK'
    BY <1>1 DEF GroupInv, GroupTypeOK
<1>3. HeldAlive'
    <2> SUFFICES ASSUME NEW g \in Groups, NEW idx \in Slots, NEW n \in Hosts, state'[n] = "up", Holds(g, idx, n)'
                 PROVE  /\ entries'[g].procs[idx].osii = my_osii'[n]
                        /\ \A t \in Tasks[n] :
                             entries'[g].procs[idx].local_proc_id = LocalId[t] => Accounted(n, t)'
        BY Zenon DEF HeldAlive
    <2>1. n \in Hosts \ {m} /\ state[n] = "up" /\ live'[n] = live[n]
        BY Zenon, <1>1 DEF GroupInv, GroupTypeOK
    <2>2. Holds(g, idx, n) /\ entries'[g].procs[idx] = entries[g].procs[idx]
        BY Zenon, <2>1
    <2> QED
        BY Zenon, <1>1, <2>1, <2>2, KeepsAlive
<1>4. HostsKnown'
    <2>1. \A n \in Hosts : state'[n] # "up" => live'[n] = {}
        BY Zenon, <1>1 DEF GroupInv, GroupTypeOK, HostsKnown
    <2>2. owner' # 0 => state'[owner'] # "up"
        BY Zenon, <1>1 DEF GroupInv, GroupTypeOK, HostsKnown
    <2> QED
        BY Zenon, <1>1, <2>1, <2>2 DEF GroupInv, HostsKnown
<1>5. RunningKnown'
    BY Zenon, <1>1 DEF GroupInv, GroupTypeOK, RunningKnown
<1> QED
    BY Zenon, <1>2, <1>3, <1>4, <1>5 DEF GroupInv

\* Inside an operation that puts no process into the table.
LEMMA ShrinkingDeath ==
    ASSUME Orderly, GroupInv, NEW m \in Hosts, Die(m), Shrinks, owner' \in {owner, m}
    PROVE  GroupInv'
<1>1. \A n \in Hosts : live'[n] \subseteq live[n]
    BY Zenon DEF Die, GroupInv, GroupTypeOK
<1>2. TableInv'
    BY Zenon, <1>1, ShrinksKeeps DEF Die
<1>3. \A g \in Groups, idx \in Slots, n \in Hosts : Holds(g, idx, n)' =>
        Holds(g, idx, n) /\ entries'[g].procs[idx] = entries[g].procs[idx]
    BY Zenon, HeldBefore
<1>4. \A g \in Groups, idx \in Slots, n \in Hosts \ {m} : Holds(g, idx, n)' =>
        Holds(g, idx, n) /\ entries'[g].procs[idx] = entries[g].procs[idx]
    BY Zenon, <1>3
<1>5. entries' \in Tables
    BY Zenon DEF Shrinks
<1> QED
    BY Zenon, <1>2, <1>4, <1>5, DeathStep

\* A machine may die outside of the table's operations, inside one of a process
\* or inside recover_cxlcg_meta.
LEMMA CrashStep ==
    ASSUME Orderly, GroupInv, NEW m \in Hosts, CrashOutside(m) \/ CrashInOperation(m) \/ CrashInRecovery(m)
    PROVE  GroupInv'
<1>1. CASE CrashOutside(m)
    <2>1. Shrinks
        BY Zenon, <1>1, SameSlots DEF CrashOutside, GroupInv, GroupTypeOK
    <2> QED
        BY Zenon, <1>1, <2>1, ShrinkingDeath DEF CrashOutside
<1>2. CASE CrashInRecovery(m)
    <2>1. Die(m) /\ entries' \in remove_dead(m).cut /\ owner' = m
        BY Zenon, <1>2 DEF CrashInRecovery, CrashInside
    <2>2. live'[m] = {}
        BY Zenon, <2>1 DEF Die, GroupInv, GroupTypeOK
    <2> QED
        BY Zenon, <2>1, <2>2, RemoveShrinks, ShrinkingDeath
<1>3. CASE CrashInOperation(m)
    <2>1. /\ state[m] = "up"
          /\ \E operation \in Calls(m) : CrashInside(m, operation)
        BY Zenon, <1>3 DEF CrashInOperation
    <2>2. PICK operation \in Calls(m) : CrashInside(m, operation)
        BY Zenon, <2>1
    <2>3. Die(m) /\ entries' \in operation.cut /\ owner' = m
        BY Zenon, <2>2 DEF CrashInside
    <2>4. live'[m] = {} /\ past' = past /\ \A n \in Hosts : live'[n] \subseteq live[n]
        BY Zenon, <2>3 DEF Die, GroupInv, GroupTypeOK
    <2>5. ASSUME NEW g \in Groups, operation = do_create_cxlcg(g) PROVE GroupInv'
        BY Zenon, <2>3, <2>5, CreateShrinks, ShrinkingDeath
    <2>6. ASSUME NEW g \in Groups, MayDelete(m, g), operation = do_delete_cxlcg(g) PROVE GroupInv'
        BY Zenon, <2>3, <2>6, DeleteShrinks, ShrinkingDeath
    <2>7. ASSUME NEW g \in Groups, NEW t \in live[m], MayJoin(m, t, g), operation = do_join_cxlcg(g, m, t)
          PROVE  GroupInv'
        <3>1. Shrinks \/ Joined(m, g, t)
            BY Zenon, <2>3, <2>7, JoinIs
        <3>2. CASE Shrinks
            BY Zenon, <2>3, <3>2, ShrinkingDeath
        <3>3. CASE Joined(m, g, t)
            <4>1. /\ TableInv'
                  /\ entries' \in Tables
                  /\ \A h \in Groups, j \in Slots, n \in Hosts : Holds(h, j, n)' =>
                       \/ Holds(h, j, n) /\ entries'[h].procs[j] = entries[h].procs[j]
                       \/ n = m /\ entries'[h].procs[j] = Member(m, t)
                BY <2>1, <2>4, <2>7, <3>3, JoinedKeeps
            <4> QED
                BY Zenon, <2>3, <4>1, DeathStep
        <3> QED
            BY Zenon, <3>1, <3>2, <3>3
    <2>8. ASSUME NEW g \in Groups, NEW t \in live[m], operation = do_leave_cxlcg(g, my_osii[m], t)
          PROVE  GroupInv'
        <3>1. my_osii[m].os_id = m
            BY Zenon DEF GroupInv, HostsKnown
        <3>2. Shrinks
            BY Zenon, <2>3, <2>4, <2>8, <3>1, LeaveShrinks
        <3> QED
            BY Zenon, <2>3, <3>2, ShrinkingDeath
    <2>9. ASSUME NEW t \in live[m], operation = notify_proc_failure(t) PROVE GroupInv'
        <3>1. Shrinks
            BY Zenon, <2>1, <2>3, <2>9, FirstIsFound, NotifyShrinks
        <3> QED
            BY Zenon, <2>3, <3>1, ShrinkingDeath
    <2>10. \/ \E g \in Groups : operation = do_create_cxlcg(g)
           \/ \E g \in Groups : MayDelete(m, g) /\ operation = do_delete_cxlcg(g)
           \/ \E g \in Groups, t \in live[m] : MayJoin(m, t, g) /\ operation = do_join_cxlcg(g, m, t)
           \/ \E g \in Groups, t \in live[m] : operation = do_leave_cxlcg(g, my_osii[m], t)
           \/ \E t \in live[m] : operation = notify_proc_failure(t)
        BY Zenon DEF Calls
    <2> QED
        BY Zenon, <2>5, <2>6, <2>7, <2>8, <2>9, <2>10
<1> QED
    BY Zenon, <1>1, <1>2, <1>3

\* hook_do_exit: a slot that still holds the process is one of the exceptions.
LEMMA ExitStep ==
    ASSUME Orderly, GroupInv, NEW m \in Hosts, NEW t, state[m] = "up", t \in live[m], Shrinks,
           live' = [live EXCEPT ![m] = @ \ {t}], UNCHANGED <<owner, my_osii, state, past, deaths>>,
           failed' \in {failed, failed \cup {t}}, quiet' \in {quiet, quiet \cup {t}},
           \A g \in Groups, idx \in Slots :
             Holds(g, idx, m)' /\ entries[g].procs[idx].local_proc_id = LocalId[t] => Accounted(m, t)'
    PROVE  GroupInv'
<1>1. \A n \in Hosts : live'[n] \subseteq live[n]
    BY Zenon DEF GroupInv, GroupTypeOK
<1>2. TableInv'
    BY Zenon, <1>1, ShrinksKeeps
<1>3. \A g \in Groups, idx \in Slots, n \in Hosts : Holds(g, idx, n)' =>
        Holds(g, idx, n) /\ entries'[g].procs[idx] = entries[g].procs[idx]
    BY Zenon, HeldBefore
<1>4. t \in Tasks[m] /\ t \in past /\ \A n \in Hosts : t \notin live'[n]
    <2>1. t \in Tasks[m] /\ t \in past
        BY Zenon DEF GroupInv, GroupTypeOK, RunningKnown
    <2>2. \A n \in Hosts : t \in live'[n] => t \in Tasks[n]
        BY Zenon, <1>1 DEF GroupInv, GroupTypeOK
    <2>3. \A n \in Hosts : t \in Tasks[n] => n = m
        BY Zenon, <2>1 DEF Orderly, GroupsFit
    <2>4. t \notin live'[m]
        BY Zenon DEF GroupInv, GroupTypeOK
    <2> QED
        BY Zenon, <2>1, <2>2, <2>3, <2>4
<1>5. past \subseteq past' /\ failed \subseteq failed' /\ quiet \subseteq quiet'
    BY Zenon
<1>6. HeldAlive'
    <2> SUFFICES ASSUME NEW g \in Groups, NEW idx \in Slots, NEW n \in Hosts, state'[n] = "up", Holds(g, idx, n)'
                 PROVE  /\ entries'[g].procs[idx].osii = my_osii'[n]
                        /\ \A u \in Tasks[n] :
                             entries'[g].procs[idx].local_proc_id = LocalId[u] => Accounted(n, u)'
        BY Zenon DEF HeldAlive
    <2>1. Holds(g, idx, n) /\ entries'[g].procs[idx] = entries[g].procs[idx] /\ state[n] = "up"
        BY Zenon, <1>3
    <2>2. /\ entries'[g].procs[idx].osii = my_osii'[n]
          /\ \A u \in Tasks[n] : entries'[g].procs[idx].local_proc_id = LocalId[u] => Accounted(n, u)
        BY <2>1 DEF GroupInv, HeldAlive
    <2>3. ASSUME NEW u \in Tasks[n], entries'[g].procs[idx].local_proc_id = LocalId[u] PROVE Accounted(n, u)'
        <3>1. CASE u = t
            <4>1. n = m
                BY Zenon, <1>4, <3>1 DEF Orderly, GroupsFit
            <4> QED
                BY Zenon, <2>1, <2>3, <3>1, <4>1
        <3>2. CASE u # t
            <4>1. u \in live[n] => u \in live'[n]
                BY Zenon, <3>2 DEF GroupInv, GroupTypeOK
            <4> QED
                BY Zenon, <1>5, <2>2, <2>3, <4>1, StillAccounted
        <3> QED
            BY Zenon, <3>1, <3>2
    <2> QED
        BY Zenon, <2>2, <2>3
<1>7. GroupTypeOK'
    BY Zenon, <1>1, <1>4 DEF GroupInv, GroupTypeOK, Shrinks
<1>8. HostsKnown'
    BY Zenon DEF GroupInv, GroupTypeOK, HostsKnown
<1>9. RunningKnown'
    BY Zenon, <1>1, <1>4 DEF GroupInv, RunningKnown
<1> QED
    BY Zenon, <1>2, <1>6, <1>7, <1>8, <1>9 DEF GroupInv

\* hook_do_exit with a code that is not 0: notify_proc_failure takes the process
\* out of its group, unless it finds the slot of a namesake.
LEMMA ExitNonZeroStep ==
    ASSUME Orderly, GroupInv, NEW m \in Hosts, NEW t, ExitNonZero(m, t)
    PROVE  GroupInv'
<1>1. /\ t \in live[m] /\ t \in Tasks[m] /\ state[m] = "up"
      /\ entries' = notify_proc_failure(t).done
      /\ live' = [live EXCEPT ![m] = @ \ {t}]
      /\ failed' = failed \cup {t}
      /\ UNCHANGED <<owner, my_osii, state, past, quiet, deaths>>
    BY Zenon DEF ExitNonZero, Run, GroupInv, GroupTypeOK
<1>2. /\ Shrinks
      /\ Found(t) # {} => ~entries'[FirstFound(t)[1]].procs[FirstFound(t)[2]].in_use
    BY Zenon, <1>1, FirstIsFound, NotifyShrinks
<1>3. ASSUME NEW g \in Groups, NEW idx \in Slots, Holds(g, idx, m)', entries[g].procs[idx].local_proc_id = LocalId[t]
      PROVE  Accounted(m, t)'
    <2>1. Holds(g, idx, m)
        BY Zenon, <1>2, <1>3, HeldBefore
    <2>2. <<g, idx>> \in Found(t)
        BY Zenon, <1>1, <1>3, <2>1, OwnFound
    <2>3. FirstFound(t) \in Found(t) /\ FirstFound(t) \in Groups \X Slots
        BY Zenon, <2>2, FirstIsFound DEF Found
    <2>4. PICK h \in Groups, j \in Slots : FirstFound(t) = <<h, j>>
        BY <2>3
    <2>5. ~entries'[h].procs[j].in_use
        BY <1>2, <2>2, <2>4
    <2>6. <<h, j>> # <<g, idx>>
        BY <1>3, <2>5 DEF Holds
    <2>7. ~(Holds(h, j, m) /\ entries[h].procs[j].local_proc_id = LocalId[t])
        BY <1>3, <2>1, <2>6 DEF GroupInv, TableInv, HeldOnce
    <2>8. Namesakes(t) # {}
        BY Zenon, <1>1, <2>3, <2>4, <2>7, OthersFound
    <2> QED
        BY Zenon, <1>1, <2>8 DEF Accounted, Namesakes
<1> QED
    BY Zenon, <1>1, <1>2, <1>3, ExitStep

\* hook_do_exit with code 0 or by a signal: the process may stay in a group.
LEMMA ExitQuietlyStep ==
    ASSUME Orderly, GroupInv, NEW m \in Hosts, NEW t, ExitQuietly(m, t)
    PROVE  GroupInv'
<1>1. /\ t \in live[m] /\ state[m] = "up"
      /\ live' = [live EXCEPT ![m] = @ \ {t}]
      /\ quiet' = quiet \cup {t}
      /\ UNCHANGED <<entries, owner, my_osii, state, past, failed, deaths>>
    BY Zenon DEF ExitQuietly
<1>2. Shrinks
    BY Zenon, <1>1, SameSlots DEF GroupInv, GroupTypeOK
<1>3. Accounted(m, t)'
    BY Zenon, <1>1 DEF Accounted
<1> QED
    BY Zenon, <1>1, <1>2, <1>3, ExitStep

\* A process starts, at an address that slots of the table may have.
LEMMA ForkStep ==
    ASSUME Orderly, GroupInv, NEW m \in Hosts, NEW t \in Tasks[m], Fork(m, t)
    PROVE  GroupInv'
<1>1. /\ state[m] = "up" /\ t \notin past /\ t \in AllTasks
      /\ live' = [live EXCEPT ![m] = @ \cup {t}]
      /\ past' = past \cup {t}
      /\ UNCHANGED <<entries, owner, my_osii, state, exits, failed, quiet, deaths>>
    BY Zenon DEF Fork, AllTasks, exits
<1>2. GroupTypeOK'
    BY Zenon, <1>1 DEF GroupInv, GroupTypeOK
<1>3. /\ \A n \in Hosts : live'[n] \subseteq live[n] \cup {t}
      /\ \A n \in Hosts : live[n] \subseteq live'[n]
    BY Zenon, <1>1 DEF GroupInv, GroupTypeOK
<1>4. LeftForNobody'
    <2>1. ASSUME NEW s, Ended(s) PROVE Ended(s)'
        BY Zenon, <1>1, <1>3, <2>1 DEF Ended
    <2>2. LeftForNobody
        BY Zenon DEF GroupInv, TableInv
    <2> QED
        BY Zenon, <1>1, <2>1, <2>2 DEF LeftForNobody, Holds
<1>5. HeldWhole' /\ HeldOnce'
    <2>1. HeldWhole /\ HeldOnce
        BY Zenon DEF GroupInv, TableInv
    <2>2. entries' = entries
        BY Zenon, <1>1
    <2>3. HeldWhole'
        BY <1>1, <2>1, <2>2 DEF HeldWhole, Holds
    <2>4. HeldOnce'
        BY <2>1, <2>2 DEF HeldOnce, Holds
    <2> QED
        BY Zenon, <2>3, <2>4
<1>6. HeldAlive'
    <2>1. past \subseteq past'
        BY Zenon, <1>1
    <2>2. \A g \in Groups, idx \in Slots, n \in Hosts : Holds(g, idx, n)' => Holds(g, idx, n)
        BY Zenon, <1>1 DEF Holds
    <2> QED
        BY Zenon, <1>1, <1>3, <2>1, <2>2, KeepsAlive DEF HeldAlive
<1>7. HostsKnown'
    BY Zenon, <1>1 DEF GroupInv, GroupTypeOK, HostsKnown
<1>8. RunningKnown'
    BY <1>1, <1>3 DEF GroupInv, GroupTypeOK, RunningKnown
<1> QED
    BY Zenon, <1>2, <1>4, <1>5, <1>6, <1>7, <1>8 DEF GroupInv, TableInv

\* The first half of recover_cxlcg_meta: slots of the earlier generation may be
\* left while the machine is not up.
LEMMA BootStep ==
    ASSUME Orderly, GroupInv, NEW m \in Hosts, Boot(m)
    PROVE  GroupInv'
<1>1. /\ state[m] = "down"
      /\ state' = [state EXCEPT ![m] = "booting"]
      /\ my_osii' = [my_osii EXCEPT ![m].gen_id = @ + 1]
      /\ UNCHANGED <<entries, owner, live, past, exits, failed, quiet, deaths>>
    BY Zenon DEF Boot, exits
<1>2. /\ my_osii' \in [Hosts -> Instances]
      /\ \A n \in Hosts : my_osii'[n].os_id = n
      /\ \A n \in Hosts \ {m} : my_osii'[n] = my_osii[n]
    BY <1>1 DEF GroupInv, GroupTypeOK, HostsKnown, Instances
<1>3. GroupTypeOK'
    BY Zenon, <1>1, <1>2 DEF GroupInv, GroupTypeOK
<1>4. TableInv'
    <2>1. Shrinks
        BY Zenon, <1>1, SameSlots DEF GroupInv, GroupTypeOK
    <2>2. \A n \in Hosts : live'[n] \subseteq live[n]
        BY Zenon, <1>1
    <2> QED
        BY Zenon, <1>1, <2>1, <2>2, ShrinksKeeps
<1>5. HeldAlive'
    <2>1. \A n \in Hosts : state'[n] = "up" => n \in Hosts \ {m} /\ state[n] = "up"
        BY Zenon, <1>1 DEF GroupInv, GroupTypeOK
    <2>2. \A g \in Groups, idx \in Slots, n \in Hosts : Holds(g, idx, n)' => Holds(g, idx, n)
        BY Zenon, <1>1 DEF Holds
    <2> QED
        BY <1>1, <1>2, <2>1, <2>2, KeepsAlive DEF HeldAlive
<1>6. HostsKnown' /\ RunningKnown'
    BY Zenon, <1>1, <1>2 DEF GroupInv, GroupTypeOK, HostsKnown, RunningKnown
<1> QED
    BY Zenon, <1>3, <1>4, <1>5, <1>6 DEF GroupInv

\* The end of recover_cxlcg_meta: nothing of an earlier life is left.
LEMMA RecoverStep ==
    ASSUME Orderly, GroupInv, NEW m \in Hosts, recover_groups(m)
    PROVE  GroupInv'
<1>1. /\ state[m] = "booting"
      /\ entries' = remove_dead(m).done
      /\ owner' = 0
      /\ state' = [state EXCEPT ![m] = "up"]
      /\ UNCHANGED <<my_osii, live, past, exits, failed, quiet, deaths>>
    BY Zenon DEF recover_groups, exits
<1>2. Shrinks /\ \A g \in Groups, idx \in Slots : ~Holds(g, idx, m)'
    BY Zenon, <1>1, RemoveShrinks
<1>3. \A n \in Hosts : live'[n] \subseteq live[n]
    BY Zenon, <1>1
<1>4. TableInv'
    BY Zenon, <1>1, <1>2, <1>3, ShrinksKeeps
<1>5. HeldAlive'
    <2>1. \A n \in Hosts : state'[n] = "up" => n = m \/ state[n] = "up"
        BY Zenon, <1>1 DEF GroupInv, GroupTypeOK
    <2>2. \A g \in Groups, idx \in Slots, n \in Hosts : Holds(g, idx, n)' =>
            Holds(g, idx, n) /\ entries'[g].procs[idx] = entries[g].procs[idx]
        BY Zenon, <1>2, HeldBefore
    <2> QED
        BY Zenon, <1>1, <1>2, <2>1, <2>2, KeepsAlive DEF HeldAlive
<1>6. GroupTypeOK'
    BY Zenon, <1>1, <1>2 DEF GroupInv, GroupTypeOK, Shrinks
<1>7. HostsKnown' /\ RunningKnown'
    BY Zenon, <1>1 DEF GroupInv, GroupTypeOK, HostsKnown, RunningKnown
<1> QED
    BY Zenon, <1>4, <1>5, <1>6, <1>7 DEF GroupInv

\* Every step of the processes, of cxl_cgroup.c and of dying machines keeps the
\* invariant.
LEMMA GroupStep ==
    ASSUME Orderly, GroupInv, [GroupNext]_groupVars
    PROVE  GroupInv'
<1>1. CASE UNCHANGED groupVars
    <2>1. UNCHANGED <<entries, owner, my_osii, state, live, past, exits, deaths>>
        BY Zenon, <1>1 DEF groupVars
    <2>2. Shrinks
        BY Zenon, <2>1, SameSlots DEF GroupInv, GroupTypeOK
    <2> QED
        BY Zenon, <2>1, <2>2, QuietStep
<1>2. ASSUME NEW m \in Hosts, NEW t \in Tasks[m], Fork(m, t) PROVE GroupInv'
    BY Zenon, <1>2, ForkStep
<1>3. ASSUME NEW m \in Hosts, NEW t \in Tasks[m], ExitNonZero(m, t) PROVE GroupInv'
    BY Zenon, <1>3, ExitNonZeroStep
<1>4. ASSUME NEW m \in Hosts, NEW t \in Tasks[m], ExitQuietly(m, t) PROVE GroupInv'
    BY Zenon, <1>4, ExitQuietlyStep
<1>5. ASSUME NEW m \in Hosts, NEW t \in Tasks[m], NEW g \in Groups, Join(m, g, t) PROVE GroupInv'
    BY Zenon, <1>5, JoinStep
<1>6. ASSUME NEW m \in Hosts, NEW t \in Tasks[m], NEW g \in Groups, NEW gen, Leave(m, g, Osii(m, gen), t)
      PROVE  GroupInv'
    <2>1. /\ entries' = do_leave_cxlcg(g, Osii(m, gen), t).done
          /\ UNCHANGED <<owner, my_osii, state, live, past, exits, deaths>>
        BY Zenon, <1>6 DEF Leave, Quietly, Run
    <2>2. Osii(m, gen).os_id = m
        BY Zenon DEF Osii
    <2> QED
        BY Zenon, <2>1, <2>2, LeaveShrinks, QuietStep
<1>7. ASSUME NEW m \in Hosts, NEW g \in Groups, Create(m, g) PROVE GroupInv'
    <2>1. /\ entries' = do_create_cxlcg(g).done
          /\ UNCHANGED <<owner, my_osii, state, live, past, exits, deaths>>
        BY Zenon, <1>7 DEF Create, Quietly, Run
    <2> QED
        BY Zenon, <2>1, CreateShrinks, QuietStep
<1>8. ASSUME NEW m \in Hosts, NEW g \in Groups, Delete(m, g) PROVE GroupInv'
    <2>1. /\ entries' = do_delete_cxlcg(g).done
          /\ MayDelete(m, g)
          /\ UNCHANGED <<owner, my_osii, state, live, past, exits, deaths>>
        BY Zenon, <1>8 DEF Delete, Quietly, Run
    <2> QED
        BY Zenon, <2>1, DeleteShrinks, QuietStep
<1>9. ASSUME NEW m \in Hosts, Boot(m) PROVE GroupInv'
    BY Zenon, <1>9, BootStep
<1>10. ASSUME NEW m \in Hosts, recover_groups(m) PROVE GroupInv'
    BY Zenon, <1>10, RecoverStep
<1>11. ASSUME NEW m \in Hosts, CrashOutside(m) \/ CrashInOperation(m) \/ CrashInRecovery(m) PROVE GroupInv'
    BY Zenon, <1>11, CrashStep
<1> QED
    BY Zenon, <1>1, <1>2, <1>3, <1>4, <1>5, <1>6, <1>7, <1>8, <1>9, <1>10, <1>11 DEF GroupNext

\* The table that init_cxlcg_meta has cleared satisfies it.
LEMMA GroupBegin ==
    ASSUME Orderly, GroupInit
    PROVE  GroupInv
<1>1. \A g \in Groups, idx \in Slots : entries[g].procs[idx] = NoProc
    BY Zenon DEF GroupInit
<1>2. entries \in Tables
    BY Zenon, NoProcIs DEF GroupInit, Tables
<1>3. my_osii \in [Hosts -> Instances] /\ \A m \in Hosts : my_osii[m].os_id = m
    BY Zenon DEF GroupInit, Instances, Osii
<1>4. GroupTypeOK
    BY Zenon, <1>2, <1>3 DEF GroupInit, GroupTypeOK
<1>5. \A g \in Groups, idx \in Slots : \A m : ~Holds(g, idx, m)
    BY Zenon, <1>1, NoProcIs DEF Holds
<1>6. TableInv /\ HeldAlive /\ RunningKnown
    BY Zenon, <1>1, <1>5, NoProcIs DEF TableInv, HeldWhole, HeldOnce, LeftForNobody, HeldAlive, RunningKnown, GroupInit
<1> QED
    BY Zenon, <1>3, <1>4, <1>6 DEF GroupInv, HostsKnown, GroupInit

\* The inductive invariant holds of every behaviour of the table.
LEMMA GroupsStaySound == ASSUME Orderly PROVE GroupSpec => []GroupInv
<1>1. GroupInit => GroupInv
    BY Zenon, GroupBegin
<1>2. GroupInv /\ [GroupNext]_groupVars => GroupInv'
    BY Zenon, GroupStep
<1> QED
    BY <1>1, <1>2, PTL DEF GroupSpec

-----------------------------------------------------------------------------
(* The theorems *)

\* The table's variables keep their types.
THEOREM GroupTypes == ASSUME Orderly PROVE GroupSpec => []GroupTypeOK
<1>1. GroupInv => GroupTypeOK
    BY Zenon DEF GroupInv
<1> QED
    BY <1>1, GroupsStaySound, PTL

\* do_join_cxlcg, do_leave_cxlcg and notify_proc_failure order their stores so
\* that wherever a crash cuts them short, a slot that shows a process has its id
\* and its address.
THEOREM ShownSlotsWhole == ASSUME Orderly PROVE GroupSpec => []SlotsWhole
<1>1. GroupInv => SlotsWhole
    BY Zenon DEF GroupInv, TableInv, HeldWhole, SlotsWhole, Shows, Holds
<1> QED
    BY <1>1, GroupsStaySound, PTL

\* do_join_cxlcg lets a process hold at most one slot of a group.
THEOREM MembersOnce == ASSUME Orderly PROVE GroupSpec => []NoDuplicateMember
<1>1. GroupInv => NoDuplicateMember
    <2> SUFFICES ASSUME GroupInv, NEW g \in Groups, NEW idx \in Slots, NEW j \in Slots, NEW m \in Hosts,
                        Shows(g, idx, m), Shows(g, j, m),
                        entries[g].procs[idx].local_proc_id = entries[g].procs[j].local_proc_id
                 PROVE  idx = j
        BY Zenon DEF NoDuplicateMember
    <2>1. Holds(g, idx, m) /\ Holds(g, j, m)
        BY Zenon DEF Shows, Holds
    <2> QED
        BY Zenon, <2>1 DEF GroupInv, TableInv, HeldOnce
<1> QED
    BY <1>1, GroupsStaySound, PTL

\* notify_proc_failure and recover_cxlcg_meta: a slot that shows a process of a
\* running machine is of this life, and the process runs, ended with code 0 or by
\* a signal, or shared its address with another one.
THEOREM ShownMembersAlive == ASSUME Orderly PROVE GroupSpec => []MembersAlive
<1>1. GroupInv => MembersAlive
    <2> SUFFICES ASSUME GroupInv, NEW g \in Groups, NEW idx \in Slots, NEW m \in Hosts,
                        state[m] = "up", Shows(g, idx, m)
                 PROVE  LET t == ProcessOf(m, entries[g].procs[idx].local_proc_id) IN
                        /\ entries[g].procs[idx].osii = my_osii[m]
                        /\ t \in live[m] \/ t \in quiet \/ (t \in failed /\ Namesakes(t) # {})
        BY Zenon DEF MembersAlive
    <2>1. Holds(g, idx, m)
        BY Zenon DEF Shows, Holds
    <2>2. \E t \in Tasks[m] : LocalId[t] = entries[g].procs[idx].local_proc_id
        BY Zenon, <2>1 DEF GroupInv, TableInv, HeldWhole
    <2> DEFINE t == ProcessOf(m, entries[g].procs[idx].local_proc_id)
    <2>3. t \in Tasks[m] /\ entries[g].procs[idx].local_proc_id = LocalId[t]
        BY Zenon, <2>2 DEF ProcessOf
    <2>4. entries[g].procs[idx].osii = my_osii[m] /\ Accounted(m, t)
        BY Zenon, <2>1, <2>3 DEF GroupInv, HeldAlive
    <2> QED
        BY Zenon, <2>4 DEF Accounted
<1> QED
    BY <1>1, GroupsStaySound, PTL

\* recover_cxlcg_meta does not wait for a lock that nobody will release.
THEOREM BootsGoOn == ASSUME Orderly PROVE GroupSpec => []BootsNotStuck
<1>1. GroupInv => BootsNotStuck
    <2> SUFFICES ASSUME GroupInv, NEW m \in Hosts, state[m] = "booting"
                 PROVE  \E n \in Hosts :
                          state[n] = "down" \/ (state[n] = "booting" /\ recoverable_lock_recover(n))
        BY Zenon DEF BootsNotStuck
    <2>1. CASE owner = 0
        BY Zenon, <2>1 DEF recoverable_lock_recover
    <2>2. CASE owner # 0
        <3>1. owner \in Hosts /\ state[owner] \in {"down", "booting"}
            BY Zenon, <2>2 DEF GroupInv, GroupTypeOK, HostsKnown
        <3> QED
            BY Zenon, <3>1 DEF recoverable_lock_recover
    <2> QED
        BY Zenon, <2>1, <2>2
<1> QED
    BY <1>1, GroupsStaySound, PTL

\* An id that fits its field of the message is read back unchanged.
LEMMA IdFits ==
    ASSUME NEW n \in Nat, NEW k \in Nat \ {0}, n < k
    PROVE  n \div k = 0 /\ n % k = n
BY Z3

\* The step of hook_do_exit that announces a failure.
LEMMA FailureAnnounced ==
    ASSUME Orderly, GroupInv, NEW m \in Hosts, NEW t, ExitNonZero(m, t),
           Found(t) \subseteq OwnSlots(m, t), LocalId[t] < ProcIds
    PROVE  news' = {Announcement(m, t) : x \in OwnSlots(m, t)}
<1>1. /\ t \in live[m] /\ state[m] = "up" /\ t \in Tasks[m]
      /\ news' = IF Found(t) = {} THEN {} ELSE {Message(t)}
    BY Zenon DEF ExitNonZero, Run, GroupInv, GroupTypeOK
<1>2. \A x \in OwnSlots(m, t) : x \in Found(t)
    <2> SUFFICES ASSUME NEW x \in OwnSlots(m, t) PROVE x \in Found(t)
        BY Zenon
    <2>1. PICK g \in Groups, idx \in Slots : x = <<g, idx>>
        BY DEF OwnSlots
    <2>2. Shows(g, idx, m) /\ entries[g].procs[idx].local_proc_id = LocalId[t]
        BY Zenon, <2>1 DEF OwnSlots
    <2>3. Holds(g, idx, m)
        BY Zenon, <2>2 DEF Shows, Holds
    <2> QED
        BY Zenon, <1>1, <2>1, <2>2, <2>3, OwnFound
<1>3. Found(t) = OwnSlots(m, t)
    BY Zenon, <1>2
<1>4. CASE Found(t) = {}
    BY Zenon, <1>1, <1>3, <1>4
<1>5. CASE Found(t) # {}
    <2>1. FirstFound(t) \in OwnSlots(m, t)
        BY Zenon, <1>3, <1>5, FirstIsFound
    <2>2. PICK g \in Groups, idx \in Slots : FirstFound(t) = <<g, idx>>
        BY <2>1 DEF OwnSlots
    <2>3. Shows(g, idx, m) /\ entries[g].procs[idx].local_proc_id = LocalId[t]
        BY <2>1, <2>2 DEF OwnSlots
    <2>4. Holds(g, idx, m)
        BY Zenon, <2>3 DEF Shows, Holds
    <2>5. entries[g].procs[idx].osii = my_osii[m]
        BY Zenon, <1>1, <2>4 DEF GroupInv, HeldAlive
    <2>6. LocalId[t] \div ProcIds = 0 /\ LocalId[t] % ProcIds = LocalId[t]
        BY ZenonT(30), <1>1, IdFits DEF Orderly, GroupsFit
    <2>7. Message(t) = Announcement(m, t)
        <3>1. my_osii[m].os_id = m /\ m + 0 = m
            BY DEF GroupInv, HostsKnown, Hosts
        <3> QED
            BY <2>2, <2>3, <2>5, <2>6, <3>1 DEF Message, Announcement
    <2> QED
        BY Zenon, <1>1, <1>5, <2>1, <2>7
<1> QED
    BY Zenon, <1>4, <1>5

\* No other step announces or adds a failure.
LEMMA NobodyFailed ==
    ASSUME [GroupNext]_groupVars, ~UNCHANGED groupVars, \A m \in Hosts : \A t \in Tasks[m] : ~ExitNonZero(m, t)
    PROVE  news' = {} /\ failed' = failed
<1>1. ASSUME NEW m \in Hosts, NEW t \in Tasks[m], Fork(m, t) \/ ExitQuietly(m, t) PROVE news' = {} /\ failed' = failed
    BY Zenon, <1>1 DEF Fork, ExitQuietly, exits
<1>2. ASSUME NEW m \in Hosts, NEW operation, Quietly(m, operation) PROVE news' = {} /\ failed' = failed
    BY Zenon, <1>2 DEF Quietly, exits
<1>3. ASSUME NEW m \in Hosts, Boot(m) \/ recover_groups(m) PROVE news' = {} /\ failed' = failed
    BY Zenon, <1>3 DEF Boot, recover_groups, exits
<1>4. ASSUME NEW m \in Hosts, CrashOutside(m) \/ CrashInOperation(m) \/ CrashInRecovery(m)
      PROVE  news' = {} /\ failed' = failed
    <2>1. Die(m)
        BY Zenon, <1>4 DEF CrashOutside, CrashInOperation, CrashInRecovery, CrashInside
    <2> QED
        BY Zenon, <2>1 DEF Die, exits
<1> QED
    BY Zenon, <1>1, <1>2, <1>3, <1>4 DEF GroupNext, Create, Delete, Join, Leave

\* notify_proc_failure announces nothing but processes that end with a code other
\* than 0, and these exactly if they are in a group, each under its own machine,
\* generation and id, unless another slot has its address or its id is too large.
THEOREM FailuresAnnounced == ASSUME Orderly PROVE GroupSpec => NewsAreFailures
<1> DEFINE Right ==
      /\ news' # {} => failed' # failed
      /\ \A m \in Hosts : \A t \in live[m] \cap (failed' \ failed) :
           \/ ~(Found(t) \subseteq OwnSlots(m, t))
           \/ LocalId[t] >= ProcIds
           \/ news' = {Announcement(m, t) : x \in OwnSlots(m, t)}
<1>1. GroupInv /\ [GroupNext]_groupVars => [Right]_groupVars
    <2> SUFFICES ASSUME GroupInv, [GroupNext]_groupVars, ~UNCHANGED groupVars
                 PROVE  Right
        BY Zenon
    <2>1. ASSUME NEW m \in Hosts, NEW t \in Tasks[m], ExitNonZero(m, t) PROVE Right
        <3>1. t \in live[m] /\ failed' = failed \cup {t}
            BY Zenon, <2>1 DEF ExitNonZero
        <3>2. failed' # failed
            BY Zenon, <3>1 DEF GroupInv, RunningKnown
        <3>3. ASSUME NEW n \in Hosts, NEW u \in live[n] \cap (failed' \ failed),
                     Found(u) \subseteq OwnSlots(n, u), ~(LocalId[u] >= ProcIds)
              PROVE  news' = {Announcement(n, u) : x \in OwnSlots(n, u)}
            <4>1. u = t
                BY Zenon, <3>1
            <4>2. n = m
                BY Zenon, <4>1 DEF GroupInv, GroupTypeOK, Orderly, GroupsFit
            <4>3. LocalId[t] \in Nat /\ ProcIds \in Nat
                BY Zenon DEF Orderly, GroupsFit
            <4>4. LocalId[t] < ProcIds
                BY <3>3, <4>1, <4>3
            <4>5. Found(t) \subseteq OwnSlots(m, t)
                BY Zenon, <3>3, <4>1, <4>2
            <4>6. news' = {Announcement(m, t) : x \in OwnSlots(m, t)}
                BY Zenon, <2>1, <4>4, <4>5, FailureAnnounced
            <4> QED
                BY <4>1, <4>2, <4>6
        <3> QED
            BY Zenon, <3>2, <3>3
    <2>2. CASE \A m \in Hosts : \A t \in Tasks[m] : ~ExitNonZero(m, t)
        <3>1. news' = {} /\ failed' = failed
            BY Zenon, <2>2, NobodyFailed
        <3> QED
            BY Zenon, <3>1
    <2> QED
        BY Zenon, <2>1, <2>2
<1> QED
    BY <1>1, GroupsStaySound, PTL DEF GroupSpec, NewsAreFailures

-----------------------------------------------------------------------------
(***************************************************************************)
(* The failure detector announces only dead machines, and so a machine     *)
(* that is up keeps the generation it gave itself, whatever the number of  *)
(* machines and of crashes.  And it announces them in time, even if the    *)
(* machines do not run at similar speeds.                                  *)
(*                                                                         *)
(* What TLC checks on two machines is not inductive.  The                  *)
(* strengthening bounds the calls in a row that missed m's heartbeat by    *)
(* the calls h has begun since that heartbeat and in which it has looked   *)
(* at m already; the speed bound keeps those below two.                    *)
(***************************************************************************)

\* The sizes are numbers; Timely says more.
Sizes == NrMachines \in Nat /\ MaxSkew \in Nat

DetectorTypeOK ==
  /\ os_generation_ids \in [Machines -> Nat]
  /\ life \in [Machines -> Nat]
  /\ started \in SUBSET Machines
  /\ status \in [Machines -> {"up", "down"}]
  /\ i \in [Machines -> 0..NrMachines]
  /\ moved \in [Machines -> SUBSET Machines]
  /\ timeout_times \in [Machines -> [Machines -> 0..1]]
  /\ os_live \in [Machines -> SUBSET Machines]
  /\ lead \in [Machines -> [Machines -> 0..MaxLead]]
  /\ panicked \in SUBSET Machines

\* A call that has not yet looked at its own machine will see its heartbeat.
SeesItself == \A h \in Machines : status[h] = "up" /\ i[h] \in 1..h => h \in moved[h]

\* A machine that is down is in no call.
NoCallWhenDown == \A h \in Machines : status[h] = "down" => i[h] = 0

\* The speed bound, as long as both machines are up.
SpeedBound ==
  \A h, m \in Machines : h # m /\ status[h] = "up" /\ status[m] = "up" => lead[h][m] <= MaxSkew

\* The calls of h that have looked at m since the last heartbeat of m.
Looked(h, m) == IF i[h] \in 1..m THEN lead[h][m] - 1 ELSE lead[h][m]

MissesBounded ==
  \A h, m \in Machines :
    /\ h # m /\ status[h] = "up" /\ status[m] = "up"
    /\ m \in os_live[h] /\ m \notin moved[h]
    => timeout_times[h][m] <= Looked(h, m)

DetectorInv == DetectorTypeOK /\ SeesItself /\ NoCallWhenDown /\ SpeedBound /\ MissesBounded

-----------------------------------------------------------------------------
\* How far lead is counted, whatever the speeds of the machines.
LEMMA LeadSizes == Sizes => MaxLead \in Nat /\ MaxLead >= 3
BY DEF Sizes, MaxLead

\* The constants of the bounds are numbers.
LEMMA LeadFacts == Timely => Sizes /\ MaxLead \in Nat /\ MaxSkew \in Nat /\ MaxLead >= 3 /\ MaxSkew <= 1
BY DEF Timely, Sizes, MaxLead

\* init_cxlcg_meta: the variables have their types.
LEMMA DetectorTypeInit == Sizes /\ Init => DetectorTypeOK
BY LeadSizes DEF Init, DetectorTypeOK, Sizes

\* init_cxlcg_meta: nobody has missed a heartbeat.
LEMMA DetectorInit == Timely /\ Init => DetectorInv
<1> SUFFICES ASSUME Timely, Init PROVE DetectorInv
    BY Zenon
<1>1. DetectorTypeOK
    BY Zenon, LeadFacts, DetectorTypeInit
<1>2. \A h \in Machines : i[h] = 0
    BY Zenon DEF Init
<1>3. \A h, m \in Machines : lead[h][m] = 0 /\ timeout_times[h][m] = 0
    BY Zenon DEF Init
<1> QED
    BY <1>1, <1>2, <1>3, LeadFacts DEF DetectorInv, SeesItself, NoCallWhenDown, SpeedBound, MissesBounded, Looked

\* The loop of do_os_failure_detection goes through the machines in order.
LEMMA NextMachineType ==
  ASSUME Sizes, DetectorTypeOK, NEW h \in Machines, i[h] # 0
  PROVE  /\ NextMachine(h) \in 0..NrMachines
         /\ i[h] \in Machines
         /\ \A m \in Machines : m # i[h] => (NextMachine(h) \in 1..m <=> i[h] \in 1..m)
         /\ NextMachine(h) \notin 1..i[h]
<1>1. i[h] \in 0..NrMachines
    BY Zenon DEF DetectorTypeOK
<1>2. NrMachines \in Nat
    BY Zenon DEF Sizes
<1> QED
    BY <1>1, <1>2 DEF NextMachine, Machines

\* The variables keep their types.
LEMMA DetectorTypeStep ==
  ASSUME Sizes, DetectorTypeOK, [Next]_vars
  PROVE  DetectorTypeOK'
<1>1. ASSUME NEW h \in Machines, Heartbeat(h) PROVE DetectorTypeOK'
    <2>1. lead' \in [Machines -> [Machines -> 0..MaxLead]]
        BY <1>1, LeadSizes DEF Heartbeat, DetectorTypeOK
    <2>2. moved' \in [Machines -> SUBSET Machines] /\ started' \in SUBSET Machines
        BY Zenon, <1>1 DEF Heartbeat, DetectorTypeOK
    <2>3. i' \in [Machines -> 0..NrMachines]
        <3>1. 1 \in 0..NrMachines
            BY DEF Machines, Sizes
        <3> QED
            BY Zenon, <1>1, <3>1 DEF Heartbeat, DetectorTypeOK
    <2> QED
        BY Zenon, <1>1, <2>1, <2>2, <2>3 DEF Heartbeat, DetectorTypeOK
<1>2. ASSUME NEW h \in Machines, SeeHeartbeat(h) PROVE DetectorTypeOK'
    BY <1>2, NextMachineType DEF SeeHeartbeat, DetectorTypeOK
<1>3. ASSUME NEW h \in Machines, Miss(h) PROVE DetectorTypeOK'
    <2>1. timeout_times[h][i[h]] + 1 \in 0..1
        BY <1>3, NextMachineType DEF Miss, TimedOut, DetectorTypeOK
    <2> QED
        BY Zenon, <1>3, <2>1, NextMachineType DEF Miss, DetectorTypeOK
<1>4. ASSUME NEW h \in Machines, Timeout(h) PROVE DetectorTypeOK'
    BY <1>4, NextMachineType DEF Timeout, DetectorTypeOK
<1>5. ASSUME NEW m \in Machines, hook_panic(m) PROVE DetectorTypeOK'
    BY <1>5 DEF hook_panic, DetectorTypeOK
<1>6. ASSUME NEW m \in Machines, Crash(m) PROVE DetectorTypeOK'
    <2>1. lead' \in [Machines -> [Machines -> 0..MaxLead]]
        BY <1>6, LeadSizes DEF Crash, DetectorTypeOK
    <2> QED
        BY <1>6, <2>1, LeadSizes DEF Crash, DetectorTypeOK, Sizes
<1>7. ASSUME NEW m \in Machines, recover_cxlcg_meta(m) PROVE DetectorTypeOK'
    <2>1. lead' \in [Machines -> [Machines -> 0..MaxLead]]
        BY <1>7, LeadSizes DEF recover_cxlcg_meta, DetectorTypeOK
    <2> QED
        BY <1>7, <2>1 DEF recover_cxlcg_meta, DetectorTypeOK
<1>8. CASE UNCHANGED vars
    BY Zenon, <1>8 DEF vars, DetectorTypeOK
<1> QED
    BY Zenon, <1>1, <1>2, <1>3, <1>4, <1>5, <1>6, <1>7, <1>8 DEF Next, Check

\* A call of h that looks at a machine other than its own and other than m
\* changes nothing between h and m, and no call changes anything between others.
LEMMA LookStep ==
  ASSUME Timely, DetectorInv, DetectorTypeOK', NEW h \in Machines, status[h] = "up", i[h] # 0,
         i' = [i EXCEPT ![h] = NextMachine(h)],
         UNCHANGED <<status, lead>>,
         i[h] \in Machines,
         moved' = moved \/ moved' = [moved EXCEPT ![h] = @ \ {i[h]}],
         \A k, n \in Machines : k # h \/ n # i[h] => timeout_times'[k][n] = timeout_times[k][n],
         \A k, n \in Machines : k # h \/ n # i[h] => (n \in os_live'[k] <=> n \in os_live[k]),
         h # i[h] /\ status[i[h]] = "up" /\ i[h] \in os_live'[h] /\ i[h] \notin moved'[h]
           => timeout_times'[h][i[h]] <= lead[h][i[h]]
  PROVE  DetectorInv'
<1>0. PICK m \in Machines : m = i[h]
    BY Zenon
<1>1. /\ \A n \in Machines : n # m => (i'[h] \in 1..n <=> i[h] \in 1..n)
      /\ i'[h] \notin 1..m
      /\ \A k \in Machines : k # h => i'[k] = i[k] /\ moved'[k] = moved[k]
    BY <1>0, NextMachineType, LeadFacts DEF DetectorInv, DetectorTypeOK
<1>2. \A n \in Machines : n # m => (n \in moved'[h] <=> n \in moved[h])
    BY <1>0 DEF DetectorInv, DetectorTypeOK
<1>3. SeesItself'
    BY Zenon, <1>1, <1>2 DEF DetectorInv, SeesItself
<1>4. SpeedBound'
    BY Zenon DEF DetectorInv, SpeedBound
<1>5. MissesBounded'
    <2> SUFFICES ASSUME NEW k \in Machines, NEW n \in Machines, k # n,
                        status[k] = "up", status[n] = "up",
                        n \in os_live'[k], n \notin moved'[k]
                 PROVE  timeout_times'[k][n] <= Looked(k, n)'
        BY Zenon DEF MissesBounded
    <2>1. CASE k = h /\ n = m
        BY Zenon, <1>0, <1>1, <2>1 DEF Looked
    <2>2. CASE ~(k = h /\ n = m)
        <3>1. n \in os_live[k] /\ n \notin moved[k] /\ timeout_times'[k][n] = timeout_times[k][n]
            BY Zenon, <1>0, <1>1, <1>2, <2>2
        <3>2. Looked(k, n)' = Looked(k, n)
            BY Zenon, <1>1, <2>2 DEF Looked
        <3> QED
            BY Zenon, <3>1, <3>2 DEF DetectorInv, MissesBounded
    <2> QED
        BY Zenon, <2>1, <2>2
<1>6. NoCallWhenDown'
    BY Zenon, <1>1 DEF DetectorInv, NoCallWhenDown
<1> QED
    BY Zenon, <1>3, <1>4, <1>5, <1>6 DEF DetectorInv

\* A second miss in a row of a machine that is up cannot happen: the calls
\* would be two ahead.
LEMMA NoFalseAlarm ==
  ASSUME Timely, DetectorInv, NEW h \in Machines, Timeout(h), i[h] \in os_live[h]
  PROVE  status[i[h]] = "down"
<1> DEFINE m == i[h]
<1>1. m \in Machines /\ m \in 1..m
    <2>1. m \in Machines
        BY Zenon, NextMachineType, LeadFacts DEF DetectorInv, Timeout
    <2> QED
        BY <2>1 DEF Machines, Timely
<1>2. h # m
    BY Zenon, <1>1 DEF DetectorInv, SeesItself, Timeout
<1>3. timeout_times[h][m] = 1
    BY <1>1 DEF DetectorInv, DetectorTypeOK, Timeout, TimedOut
<1>4. SUFFICES ASSUME status[m] = "up" PROVE FALSE
    BY Zenon, <1>1 DEF DetectorInv, DetectorTypeOK
<1>5. 1 <= lead[h][m] - 1
    BY Zenon, <1>1, <1>2, <1>3, <1>4 DEF DetectorInv, MissesBounded, Looked, Timeout
<1>6. lead[h][m] <= MaxSkew
    BY Zenon, <1>1, <1>2, <1>4 DEF DetectorInv, SpeedBound, Timeout
<1> QED
    BY <1>1, <1>5, <1>6, LeadFacts DEF DetectorInv, DetectorTypeOK

\* A heartbeat: every machine that is up will see it, and the call that begins
\* has looked at nobody yet.
LEMMA HeartbeatStep ==
  ASSUME Timely, DetectorInv, DetectorTypeOK', NEW h \in Machines, Heartbeat(h)
  PROVE  DetectorInv'
<1>1. /\ \A k \in Machines : moved[k] \subseteq moved'[k]
      /\ \A k \in Machines : status[k] = "up" => h \in moved'[k]
      /\ UNCHANGED <<status, timeout_times, os_live>>
    BY Zenon DEF DetectorInv, DetectorTypeOK, Heartbeat
<1>2. i'[h] = 1 /\ i[h] = 0 /\ \A k \in Machines : k # h => i'[k] = i[k]
    BY Zenon DEF DetectorInv, DetectorTypeOK, Heartbeat
<1>3. \A k, n \in Machines : k # h /\ n # h => lead'[k][n] = lead[k][n]
    BY Zenon DEF Heartbeat
<1>4. \A k \in Machines : lead'[k][h] = 0
    BY Zenon DEF Heartbeat
<1>5. \A n \in Machines : n # h /\ status[n] = "up" => lead[h][n] < MaxSkew /\ lead'[h][n] = lead[h][n] + 1
    BY LeadFacts DEF DetectorInv, DetectorTypeOK, Heartbeat
<1>6. SeesItself' /\ NoCallWhenDown'
    BY Zenon, <1>1, <1>2 DEF DetectorInv, SeesItself, NoCallWhenDown, Heartbeat
<1>7. SpeedBound'
    <2> SUFFICES ASSUME NEW k \in Machines, NEW n \in Machines, k # n,
                        status[k] = "up", status[n] = "up"
                 PROVE  lead'[k][n] <= MaxSkew
        BY Zenon, <1>1 DEF SpeedBound
    <2>1. CASE n = h
        BY <1>4, <2>1, LeadFacts
    <2>2. CASE k = h
        BY <1>5, <2>2, LeadFacts DEF DetectorInv, DetectorTypeOK
    <2>3. CASE k # h /\ n # h
        BY Zenon, <1>3, <2>3 DEF DetectorInv, SpeedBound
    <2> QED
        BY Zenon, <2>1, <2>2, <2>3
<1>8. MissesBounded'
    <2> SUFFICES ASSUME NEW k \in Machines, NEW n \in Machines, k # n,
                        status[k] = "up", status[n] = "up",
                        n \in os_live[k], n \notin moved'[k]
                 PROVE  timeout_times[k][n] <= Looked(k, n)'
        BY Zenon, <1>1 DEF MissesBounded
    <2>1. n # h /\ timeout_times[k][n] <= Looked(k, n)
        BY Zenon, <1>1 DEF DetectorInv, MissesBounded
    <2>2. CASE k = h
        <3>1. i'[h] \in 1..n /\ i[h] \notin 1..n
            BY <1>2 DEF Machines, Timely
        <3>2. Looked(k, n) = lead[h][n] /\ Looked(k, n)' = lead'[h][n] - 1
            BY Zenon, <2>2, <3>1 DEF Looked
        <3> QED
            BY <1>5, <2>1, <2>2, <3>2 DEF DetectorInv, DetectorTypeOK
    <2>3. CASE k # h
        BY Zenon, <1>2, <1>3, <2>1, <2>3 DEF Looked
    <2> QED
        BY Zenon, <2>2, <2>3
<1> QED
    BY Zenon, <1>6, <1>7, <1>8 DEF DetectorInv

\* A crash and a reboot: the machine knows nothing, and those that are up no
\* longer believe it alive when it comes back.
LEMMA RebootStep ==
  ASSUME Timely, DetectorInv, DetectorTypeOK', NEW m \in Machines,
         Crash(m) \/ recover_cxlcg_meta(m)
  PROVE  DetectorInv'
<1>1. /\ \A k \in Machines : k # m => /\ status'[k] = status[k] /\ moved'[k] = moved[k]
                                      /\ os_live'[k] = os_live[k] /\ i'[k] = i[k]
                                      /\ timeout_times'[k] = timeout_times[k]
      /\ i'[m] = 0
    <2>1. CASE Crash(m)
        BY Zenon, <2>1 DEF Crash, DetectorInv, DetectorTypeOK
    <2>2. CASE recover_cxlcg_meta(m)
        BY <2>2 DEF recover_cxlcg_meta, DetectorInv, DetectorTypeOK, NoCallWhenDown
    <2> QED
        BY Zenon, <2>1, <2>2
<1>2. \A k, n \in Machines : k # m /\ n # m => lead'[k][n] = lead[k][n]
    BY DEF Crash, recover_cxlcg_meta, DetectorInv, DetectorTypeOK
<1>3. SeesItself' /\ NoCallWhenDown'
    BY <1>1 DEF DetectorInv, SeesItself, NoCallWhenDown
<1>4. SpeedBound' /\ MissesBounded'
    <2> SUFFICES ASSUME NEW k \in Machines, NEW n \in Machines, k # n,
                        status'[k] = "up", status'[n] = "up"
                 PROVE  /\ lead'[k][n] <= MaxSkew
                        /\ n \in os_live'[k] /\ n \notin moved'[k]
                             => timeout_times'[k][n] <= Looked(k, n)'
        BY Zenon DEF SpeedBound, MissesBounded
    <2>1. CASE k # m /\ n # m
        <3>1. Looked(k, n)' = Looked(k, n)
            BY Zenon, <1>1, <1>2, <2>1 DEF Looked
        <3> QED
            BY Zenon, <1>1, <1>2, <2>1, <3>1 DEF DetectorInv, SpeedBound, MissesBounded
    <2>2. CASE k = m \/ n = m
        <3>1. recover_cxlcg_meta(m)
            BY <2>2 DEF Crash, DetectorInv, DetectorTypeOK
        <3>2. lead'[k][n] = 0 /\ lead'[k][n] <= MaxSkew
            BY <2>2, <3>1, LeadFacts DEF recover_cxlcg_meta
        <3>3. CASE k = m
            BY <1>1, <3>1, <3>2, <3>3 DEF recover_cxlcg_meta, Looked, DetectorInv, DetectorTypeOK
        <3>4. CASE n = m
            BY Zenon, <1>1, <3>1, <3>2, <3>4 DEF recover_cxlcg_meta, Timely, DetectorInv, DetectorTypeOK
        <3> QED
            BY Zenon, <2>2, <3>2, <3>3, <3>4
    <2> QED
        BY Zenon, <2>1, <2>2
<1> QED
    BY Zenon, <1>3, <1>4 DEF DetectorInv

\* The strengthening is inductive.
LEMMA DetectorStep == Timely /\ DetectorInv /\ [Next]_vars => DetectorInv'
<1> SUFFICES ASSUME Timely, DetectorInv, [Next]_vars PROVE DetectorInv'
    BY Zenon
<1>0. DetectorTypeOK'
    BY Zenon, DetectorTypeStep, LeadFacts DEF DetectorInv
<1>1. ASSUME NEW h \in Machines, Heartbeat(h) PROVE DetectorInv'
    BY Zenon, <1>0, <1>1, HeartbeatStep
<1>2. ASSUME NEW h \in Machines, SeeHeartbeat(h) PROVE DetectorInv'
    <2>1. i[h] \in Machines
        BY Zenon, <1>2, NextMachineType, LeadFacts DEF SeeHeartbeat, DetectorInv
    <2>2. timeout_times'[h][i[h]] = 0 /\ lead[h][i[h]] >= 0
        BY <1>2, <2>1 DEF SeeHeartbeat, DetectorInv, DetectorTypeOK
    <2>3. /\ \A k, n \in Machines : k # h \/ n # i[h] => timeout_times'[k][n] = timeout_times[k][n]
          /\ \A k, n \in Machines : k # h \/ n # i[h] => (n \in os_live'[k] <=> n \in os_live[k])
        BY Zenon, <1>2, <2>1 DEF SeeHeartbeat, DetectorInv, DetectorTypeOK
    <2> QED
        <3>1. h # i[h] /\ status[i[h]] = "up" /\ i[h] \in os_live'[h] /\ i[h] \notin moved'[h]
                => timeout_times'[h][i[h]] <= lead[h][i[h]]
            BY Zenon, <2>1, <2>2 DEF DetectorInv, DetectorTypeOK
        <3>2. /\ status[h] = "up" /\ i[h] # 0
              /\ i' = [i EXCEPT ![h] = NextMachine(h)]
              /\ UNCHANGED <<status, lead>>
              /\ moved' = moved \/ moved' = [moved EXCEPT ![h] = @ \ {i[h]}]
            BY Zenon, <1>2 DEF SeeHeartbeat
        <3> QED
            BY Zenon, <1>0, <2>1, <2>3, <3>1, <3>2, LookStep
<1>3. ASSUME NEW h \in Machines, Miss(h) PROVE DetectorInv'
    <2>1. i[h] \in Machines /\ i[h] \in 1..i[h]
        <3>1. i[h] \in Machines
            BY Zenon, <1>3, NextMachineType, LeadFacts DEF Miss, DetectorInv
        <3> QED
            BY <3>1 DEF Machines, Timely
    <2>2. timeout_times'[h][i[h]] = timeout_times[h][i[h]] + 1
        BY Zenon, <1>3, <2>1 DEF Miss, DetectorInv, DetectorTypeOK
    <2>3. \A k, n \in Machines : k # h \/ n # i[h] => timeout_times'[k][n] = timeout_times[k][n]
        BY Zenon, <1>3, <2>1 DEF Miss, DetectorInv, DetectorTypeOK
    <2>4. h # i[h] /\ status[i[h]] = "up" /\ i[h] \in os_live'[h] /\ i[h] \notin moved'[h]
            => timeout_times'[h][i[h]] <= lead[h][i[h]]
        <3> SUFFICES ASSUME h # i[h], status[i[h]] = "up", i[h] \in os_live'[h]
                     PROVE  timeout_times'[h][i[h]] <= lead[h][i[h]]
            BY Zenon
        <3>1. timeout_times[h][i[h]] <= lead[h][i[h]] - 1
            BY Zenon, <1>3, <2>1 DEF Miss, DetectorInv, MissesBounded, Looked
        <3> QED
            BY <2>1, <2>2, <3>1 DEF DetectorInv, DetectorTypeOK
    <2> QED
        BY Zenon, <1>0, <1>3, <2>1, <2>3, <2>4, LookStep DEF Miss
<1>4. ASSUME NEW h \in Machines, Timeout(h) PROVE DetectorInv'
    <2>1. i[h] \in Machines
        BY Zenon, <1>4, NextMachineType, LeadFacts DEF Timeout, DetectorInv
    <2>2. timeout_times'[h][i[h]] = 0 /\ lead[h][i[h]] >= 0
        BY <1>4, <2>1 DEF Timeout, DetectorInv, DetectorTypeOK
    <2>3. /\ \A k, n \in Machines : k # h \/ n # i[h] => timeout_times'[k][n] = timeout_times[k][n]
          /\ \A k, n \in Machines : k # h \/ n # i[h] => (n \in os_live'[k] <=> n \in os_live[k])
        BY Zenon, <1>4, <2>1 DEF Timeout, DetectorInv, DetectorTypeOK
    <2> QED
        <3>1. h # i[h] /\ status[i[h]] = "up" /\ i[h] \in os_live'[h] /\ i[h] \notin moved'[h]
                => timeout_times'[h][i[h]] <= lead[h][i[h]]
            BY Zenon, <2>1, <2>2 DEF DetectorInv, DetectorTypeOK
        <3>2. /\ status[h] = "up" /\ i[h] # 0
              /\ i' = [i EXCEPT ![h] = NextMachine(h)]
              /\ UNCHANGED <<status, lead>>
              /\ moved' = moved \/ moved' = [moved EXCEPT ![h] = @ \ {i[h]}]
            BY Zenon, <1>4 DEF Timeout
        <3> QED
            BY Zenon, <1>0, <2>1, <2>3, <3>1, <3>2, LookStep
<1>5. ASSUME NEW m \in Machines, hook_panic(m) PROVE DetectorInv'
    BY Zenon, <1>0, <1>5 DEF hook_panic, DetectorInv, SeesItself, NoCallWhenDown, SpeedBound, MissesBounded, Looked
<1>6. ASSUME NEW m \in Machines, Crash(m) \/ recover_cxlcg_meta(m) PROVE DetectorInv'
    BY Zenon, <1>0, <1>6, RebootStep
<1>7. CASE UNCHANGED vars
    BY Zenon, <1>0, <1>7 DEF vars, DetectorInv, SeesItself, NoCallWhenDown, SpeedBound, MissesBounded, Looked
<1> QED
    BY Zenon, <1>1, <1>2, <1>3, <1>4, <1>5, <1>6, <1>7 DEF Next, Check

\* Only the alarm takes a machine off the list of the live ones, and only one
\* that is dead.
LEMMA AnnounceStep == Timely /\ DetectorInv /\ [Next]_vars => [AnnouncesDead]_vars
<1> SUFFICES ASSUME Timely, DetectorInv, Next, NEW h \in Machines, NEW m \in Machines, Announces(h, m)
             PROVE  status[m] = "down"
    BY Zenon DEF AnnouncesDead
<1>1. PICK k \in Machines : Check(k) \/ hook_panic(k) \/ Crash(k) \/ recover_cxlcg_meta(k)
    BY Zenon DEF Next
<1>2. ~Heartbeat(k) /\ ~Miss(k) /\ ~hook_panic(k)
    BY Zenon DEF Announces, Heartbeat, Miss, hook_panic
<1>3. ~SeeHeartbeat(k)
    BY DEF Announces, SeeHeartbeat, DetectorInv, DetectorTypeOK
<1>4. ~Crash(k)
    BY DEF Announces, Crash, DetectorInv, DetectorTypeOK
<1>5. ~recover_cxlcg_meta(k)
    BY DEF Announces, recover_cxlcg_meta, DetectorInv, DetectorTypeOK
<1>6. Timeout(k)
    BY Zenon, <1>1, <1>2, <1>3, <1>4, <1>5 DEF Check
<1>7. h = k /\ m = i[k]
    BY Zenon, <1>6 DEF Announces, Timeout, DetectorInv, DetectorTypeOK
<1> QED
    BY Zenon, <1>6, <1>7, NoFalseAlarm DEF Announces

\* A generation goes up by an alarm, by hook_panic or by a reboot.
LEMMA GenerationStep ==
  Timely /\ DetectorInv /\ OwnGenerationCurrent /\ [Next]_vars => OwnGenerationCurrent'
<1> SUFFICES ASSUME Timely, DetectorInv, OwnGenerationCurrent, [Next]_vars,
                    NEW m \in Machines, status'[m] = "up"
             PROVE  os_generation_ids'[m] = life'[m] + (IF m \in panicked' THEN 1 ELSE 0)
    BY Zenon DEF OwnGenerationCurrent
<1>1. ASSUME NEW k \in Machines, Check(k), ~Timeout(k)
      PROVE  UNCHANGED <<os_generation_ids, life, panicked, status>>
    BY Zenon, <1>1 DEF Check, Heartbeat, SeeHeartbeat, Miss
<1>2. ASSUME NEW k \in Machines, Timeout(k)
      PROVE  /\ UNCHANGED <<life, panicked, status>>
             /\ os_generation_ids'[m] = os_generation_ids[m]
    <2>1. i[k] \in os_live[k] => i[k] # m
        BY Zenon, <1>2, NoFalseAlarm DEF Timeout
    <2> QED
        BY <1>2, <2>1 DEF Timeout, DetectorInv, DetectorTypeOK
<1>3. ASSUME NEW k \in Machines, hook_panic(k)
      PROVE  os_generation_ids'[m] = life'[m] + (IF m \in panicked' THEN 1 ELSE 0)
    BY <1>3 DEF hook_panic, OwnGenerationCurrent, DetectorInv, DetectorTypeOK
<1>4. ASSUME NEW k \in Machines, Crash(k)
      PROVE  os_generation_ids'[m] = life'[m] + (IF m \in panicked' THEN 1 ELSE 0)
    BY Zenon, <1>4 DEF Crash, OwnGenerationCurrent, DetectorInv, DetectorTypeOK
<1>5. ASSUME NEW k \in Machines, recover_cxlcg_meta(k)
      PROVE  os_generation_ids'[m] = life'[m] + (IF m \in panicked' THEN 1 ELSE 0)
    BY <1>5 DEF recover_cxlcg_meta, OwnGenerationCurrent, DetectorInv, DetectorTypeOK
<1>6. CASE UNCHANGED vars
    BY Zenon, <1>6 DEF vars, OwnGenerationCurrent
<1> QED
    BY Zenon, <1>1, <1>2, <1>3, <1>4, <1>5, <1>6 DEF Next, OwnGenerationCurrent

-----------------------------------------------------------------------------
(* Deaths are noticed *)

\* What h knows of m by the number of calls that have looked at m since its last
\* heartbeat: the first finds the heartbeat if it is new, the second misses it,
\* the third at the latest raises the alarm.
Noticing ==
  \A h, m \in Machines :
    /\ Looked(h, m) >= 1 => m \notin moved[h]
    /\ Looked(h, m) >= 2 => m \notin os_live[h] \/ timeout_times[h][m] = 1
    /\ Looked(h, m) >= 3 => m \notin os_live[h]

\* A look of h at m: one more call has looked at m, and the alarm is raised
\* unless the heartbeat was new or this is the first miss.
LEMMA NoticingLook ==
  ASSUME Sizes, DetectorTypeOK, Noticing, NEW h \in Machines, SeeHeartbeat(h) \/ Miss(h) \/ Timeout(h)
  PROVE  Noticing'
<1>0. i[h] # 0
  BY Zenon DEF SeeHeartbeat, Miss, Timeout
<1>1. PICK m \in Machines : m = i[h]
  BY Zenon, <1>0, NextMachineType
<1>2. /\ \A n \in Machines : n # m => (i'[h] \in 1..n <=> i[h] \in 1..n)
      /\ i'[h] \notin 1..m
      /\ \A k \in Machines : k # h => i'[k] = i[k]
  BY <1>0, <1>1, NextMachineType DEF SeeHeartbeat, Miss, Timeout, DetectorTypeOK
<1>3. i[h] \in 1..m
  BY <1>0, <1>1 DEF Machines, Sizes
<1>4. \A k, n \in Machines : ~(k = h /\ n = m) =>
        /\ n \in moved'[k] <=> n \in moved[k]
        /\ n \in os_live'[k] <=> n \in os_live[k]
        /\ timeout_times'[k][n] = timeout_times[k][n]
  BY <1>1 DEF SeeHeartbeat, Miss, Timeout, DetectorTypeOK
<1>5. lead' = lead /\ lead[h][m] \in Nat
  BY LeadSizes DEF SeeHeartbeat, Miss, Timeout, DetectorTypeOK
<1>6. ASSUME NEW k \in Machines, NEW n \in Machines, ~(k = h /\ n = m)
      PROVE  Looked(k, n)' = Looked(k, n)
  BY Zenon, <1>2, <1>5, <1>6 DEF Looked
<1>7. Looked(h, m) = lead[h][m] - 1 /\ Looked(h, m)' = lead[h][m]
  BY Zenon, <1>2, <1>3, <1>5 DEF Looked
<1>8. /\ lead[h][m] >= 2 => m \notin moved[h]
      /\ lead[h][m] >= 3 => m \notin os_live[h] \/ timeout_times[h][m] = 1
  BY <1>5, <1>7 DEF Noticing
<1>9. /\ m \notin moved'[h]
      /\ m \notin moved[h] => m \notin os_live'[h] \/ (timeout_times'[h][m] = 1 /\ timeout_times[h][m] = 0)
      /\ m \notin moved[h] /\ m \notin os_live[h] => m \notin os_live'[h]
  BY <1>1 DEF SeeHeartbeat, Miss, Timeout, TimedOut, DetectorTypeOK
<1>10. /\ lead[h][m] >= 2 => m \notin os_live'[h] \/ timeout_times'[h][m] = 1
       /\ lead[h][m] >= 3 => m \notin os_live'[h]
  BY SMTT(60), <1>5, <1>8, <1>9
<1> QED
  BY <1>4, <1>6, <1>7, <1>9, <1>10 DEF Noticing

\* Heartbeats, crashes and reboots: calls are counted from zero for whoever beats
\* or boots, and the call that begins has looked at nobody yet.
LEMMA NoticingOther ==
  ASSUME Sizes, DetectorTypeOK, Noticing, NEW p \in Machines,
         Heartbeat(p) \/ Crash(p) \/ recover_cxlcg_meta(p)
  PROVE  Noticing'
<1>1. ASSUME Heartbeat(p), NEW h \in Machines, NEW m \in Machines, m # p
      PROVE  /\ Looked(h, m)' <= Looked(h, m)
             /\ m \in moved'[h] <=> m \in moved[h]
             /\ UNCHANGED <<os_live, timeout_times>>
  <2>1. lead[h][m] \in Nat /\ lead'[h][m] \in Nat /\ lead'[h][m] <= (IF h = p THEN lead[h][m] + 1 ELSE lead[h][m])
    BY <1>1, LeadSizes DEF Heartbeat, DetectorTypeOK
  <2>2. /\ h = p => i[h] \notin 1..m /\ i'[h] \in 1..m
        /\ h # p => i'[h] = i[h]
    BY <1>1 DEF Heartbeat, DetectorTypeOK, Machines, Sizes
  <2> QED
    BY <1>1, <2>1, <2>2 DEF Heartbeat, Looked, DetectorTypeOK
<1>2. ASSUME Heartbeat(p), NEW h \in Machines PROVE Looked(h, p)' <= 0
  <2>1. lead'[h][p] = 0
    BY Zenon, <1>2 DEF Heartbeat
  <2> QED
    BY <2>1 DEF Looked
<1>3. ASSUME Crash(p) \/ recover_cxlcg_meta(p), NEW h \in Machines, NEW m \in Machines, h # p
      PROVE  /\ lead'[h][m] = (IF recover_cxlcg_meta(p) /\ m = p THEN 0 ELSE lead[h][m])
             /\ i'[h] = i[h] /\ moved'[h] = moved[h] /\ os_live'[h] = os_live[h]
             /\ timeout_times'[h] = timeout_times[h]
  BY <1>3 DEF Crash, recover_cxlcg_meta, DetectorTypeOK
<1>4. ASSUME Crash(p) \/ recover_cxlcg_meta(p), NEW m \in Machines PROVE lead'[p][m] = 0
  BY <1>4 DEF Crash, recover_cxlcg_meta, DetectorTypeOK
<1>5. CASE Heartbeat(p)
  <2>1. \A h, m \in Machines : Looked(h, m) \in Int /\ Looked(h, m)' \in Int
    BY <1>5, LeadSizes DEF Heartbeat, Looked, DetectorTypeOK
  <2> QED
    BY <1>1, <1>2, <1>5, <2>1 DEF Noticing
<1>6. CASE Crash(p) \/ recover_cxlcg_meta(p)
  <2> SUFFICES ASSUME NEW h \in Machines, NEW m \in Machines, Looked(h, m)' >= 1
               PROVE  /\ Looked(h, m)' = Looked(h, m)
                      /\ moved'[h] = moved[h] /\ os_live'[h] = os_live[h]
                      /\ timeout_times'[h] = timeout_times[h]
    <3>1. \A h, m \in Machines : Looked(h, m)' \in Int
      <4>1. \A h, m \in Machines : lead'[h][m] \in Int
        <5>1. \A h, m \in Machines : lead[h][m] \in Int /\ 0 \in Int
          BY LeadSizes DEF DetectorTypeOK
        <5>2. \A m \in Machines : lead'[p][m] = 0
          BY Zenon, <1>4, <1>6
        <5>3. \A h, m \in Machines : h # p => lead'[h][m] = 0 \/ lead'[h][m] = lead[h][m]
          BY Zenon, <1>3, <1>6
        <5> QED
          BY Zenon, <5>1, <5>2, <5>3
      <4> QED
        BY SMTT(60), <4>1 DEF Looked
    <3>2. \A k \in Int : (k >= 2 => k >= 1) /\ (k >= 3 => k >= 1)
      OBVIOUS
    <3>3. \A h, m \in Machines : (Looked(h, m)' >= 2 => Looked(h, m)' >= 1)
                               /\ (Looked(h, m)' >= 3 => Looked(h, m)' >= 1)
      BY Zenon, <3>1, <3>2
    <3> QED
      BY Zenon, <3>3 DEF Noticing
  <2>1. h # p
    BY <1>4, <1>6 DEF Looked
  <2>2. ~(recover_cxlcg_meta(p) /\ m = p)
    BY <1>3, <1>6, <2>1 DEF Looked
  <2> QED
    BY Zenon, <1>3, <1>6, <2>1, <2>2 DEF Looked
<1> QED
  BY Zenon, <1>5, <1>6

\* The knowledge of the calls is kept by every step.
LEMMA NoticingStep == Sizes /\ DetectorTypeOK /\ Noticing /\ [Next]_vars => Noticing'
<1> SUFFICES ASSUME Sizes, DetectorTypeOK, Noticing, [Next]_vars PROVE Noticing'
  BY Zenon
<1>1. ASSUME NEW p \in Machines, hook_panic(p) PROVE Noticing'
  BY Zenon, <1>1 DEF hook_panic, Noticing, Looked
<1>2. CASE UNCHANGED vars
  BY Zenon, <1>2 DEF vars, Noticing, Looked
<1> QED
  BY Zenon, <1>1, <1>2, NoticingLook, NoticingOther DEF Next, Check

\* do_os_failure_detection announces only machines that are dead, for any number
\* of machines, crashes and panics, if the machines run at similar speeds.
THEOREM DetectorAccurate ==
  ASSUME Timely
  PROVE  Spec => Accurate
<1>1. Init => DetectorInv
    BY Zenon, DetectorInit
<1>2. DetectorInv /\ [Next]_vars => DetectorInv'
    BY Zenon, DetectorStep
<1>3. DetectorInv /\ [Next]_vars => [AnnouncesDead]_vars
    BY Zenon, AnnounceStep
<1> QED
    BY <1>1, <1>2, <1>3, PTL DEF Spec, Accurate

\* The generation in the shared table stays the one a running machine gave
\* itself in recover_cxlcg_meta (my_osii), for any number of machines.
THEOREM GenerationsKept ==
  ASSUME Timely
  PROVE  Spec => []OwnGenerationCurrent
<1>1. Init => DetectorInv /\ OwnGenerationCurrent
    <2>1. Init => OwnGenerationCurrent
        BY DEF Init, OwnGenerationCurrent
    <2> QED
        BY Zenon, <2>1, DetectorInit
<1>2. DetectorInv /\ OwnGenerationCurrent /\ [Next]_vars => (DetectorInv /\ OwnGenerationCurrent)'
    BY Zenon, DetectorStep, GenerationStep
<1> QED
    BY <1>1, <1>2, PTL DEF Spec

\* do_os_failure_detection notices every death by its third call, for any number
\* of machines, at whatever speeds they run and however soon they are back.
THEOREM DeathsNoticed ==
  ASSUME Sizes
  PROVE  Spec => []NoticedInTime
<1>1. Init => DetectorTypeOK /\ Noticing
  <2>1. Init => Noticing
    BY DEF Init, Noticing, Looked
  <2> QED
    BY Zenon, <2>1, DetectorTypeInit
<1>2. DetectorTypeOK /\ Noticing /\ [Next]_vars => (DetectorTypeOK /\ Noticing)'
  BY Zenon, DetectorTypeStep, NoticingStep
<1>3. DetectorTypeOK /\ Noticing => NoticedInTime
  BY Zenon, LeadSizes DEF NoticedInTime, Noticing, Looked, DetectorTypeOK
<1> QED
  BY <1>1, <1>2, <1>3, PTL DEF Spec
=============================================================================
