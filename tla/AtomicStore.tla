---------------------------- MODULE AtomicStore ----------------------------
(***************************************************************************)
(* What the redo log promises: a store that changes by whole operations.   *)
(* An operation that has begun either takes effect in one step or, when    *)
(* its machine dies first, not at all.                                     *)
(***************************************************************************)
EXTENDS Replay

CONSTANTS Val,
          Plans         \* the operations: sequences of log entries

VARIABLES store,        \* what a reader finds, once recovered
          pending       \* the operation that has begun, or <<>>

vars == <<store, pending>>

Init == store \in [Loc -> Val] /\ pending = <<>>

Begin(plan) ==
  /\ pending = <<>>
  /\ pending' = plan
  /\ UNCHANGED store

Commit ==
  /\ pending # <<>>
  /\ store' = Apply(pending, store)
  /\ pending' = <<>>

Abort ==
  /\ pending # <<>>
  /\ pending' = <<>>
  /\ UNCHANGED store

Next == (\E plan \in Plans : Begin(plan)) \/ Commit \/ Abort

Spec == Init /\ [][Next]_vars
=============================================================================
