---------------------------- MODULE MCBenchDevice ----------------------------
(***************************************************************************)
(* The behaviours of MCLockBench and those of MCDevice, side by side: a    *)
(* behaviour measures a lock or uses the shared device, and the variables  *)
(* of the other one stand still.  What must eventually happen is stated    *)
(* with the fairness that it needs (LocksFair, ServerFair, DoorbellFair).  *)
(***************************************************************************)
EXTENDS MCLockBench, MCDevice

allVars == <<locksVars, deviceVars>>

NoLocks ==
    /\ algo = "none" /\ pc = <<>> /\ lock_acquired = <<>> /\ inside = {}
    /\ faults = NoNodes /\ lock = NoNodes /\ node = NoNodes /\ reg = NoNodes

NoDevice == part = "none" /\ NoDriver /\ NoServer /\ NoDoorbell

MCInit == (LocksInit /\ NoDevice) \/ (DeviceInit /\ NoLocks)

MCNext ==
    \/ algo # "none" /\ LocksNext /\ UNCHANGED deviceVars
    \/ part # "none" /\ DeviceNext /\ UNCHANGED locksVars

MCSpec == MCInit /\ [][MCNext]_allVars
=============================================================================
