------------------------------- MODULE Replay -------------------------------
(***************************************************************************)
(* What executing log entries does to memory.  An entry is a partial       *)
(* assignment: a function from the locations it writes to the values.      *)
(***************************************************************************)
EXTENDS Integers, Sequences

CONSTANT Loc            \* the locations of the shared metadata

Assign(e, m) == [l \in DOMAIN m |-> IF l \in DOMAIN e THEN e[l] ELSE m[l]]

Writes(plan, i, l) == i \in 1..Len(plan) /\ l \in DOMAIN plan[i]

\* The entry that writes l last.
LastWriter(plan, l) ==
  CHOOSE i \in 1..Len(plan) :
    Writes(plan, i, l) /\ \A j \in 1..Len(plan) : Writes(plan, j, l) => j <= i

\* execute_log on a whole log: the last writer of each location wins.
Apply(plan, m) ==
  [l \in DOMAIN m |-> IF \E i \in 1..Len(plan) : Writes(plan, i, l)
                 THEN plan[LastWriter(plan, l)][l] ELSE m[l]]
=============================================================================
