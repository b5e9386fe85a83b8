----------------------------- MODULE MCTtasLock -----------------------------
(***************************************************************************)
(* Instances of TtasLock for TLC: which CPUs work, by process identifier.  *)
(***************************************************************************)
EXTENDS TtasLock

\* Every CPU runs operations and detection alike.
AllWorkers == Procs
=============================================================================
