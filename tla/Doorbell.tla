------------------------------ MODULE Doorbell ------------------------------
(***************************************************************************)
(* The doorbell of the ivshmem guest driver (ivshmem-kernel/              *)
(* ivshmem_driver.c) and the ping-pong benchmark over it                   *)
(* (ivshmem-user/src/bench_vm.rs): one guest echoes, the other writes and  *)
(* reads, and its process may be killed and started again.                 *)
(*                                                                         *)
(* A write to the doorbell makes an interrupt pending at the peer; a       *)
(* second one before it is delivered is merged with it, as an eventfd does.*)
(* The handler sets event_toggle, which belongs to the driver and outlives *)
(* the process.  A reader tests it and clears it in two steps.  The ioctls *)
(* WAKE_DOMAIN and WAIT_DOMAIN of cxl_ivpci.c follow the same protocol.    *)
(***************************************************************************)
EXTENDS Integers, TLC

CONSTANTS warmup, iterations,
          MaxStarts      \* bound: times the benchmark is started

\* Positions of the two guests.
Echo == "echo"
Bench == "bench"
GUESTS == {Echo, Bench}
PeerOf(g) == IF g = Echo THEN Bench ELSE Echo

VARIABLES
    pending,       \* an interrupt is on its way to the guest
    event_toggle,
    pc,            \* of the process in each guest: out, write, wait, clear
    i,             \* round trips of the benchmark
    starts         \* times the benchmark was started

vars == <<pending, event_toggle, pc, i, starts>>

Init ==
    /\ pending = [g \in GUESTS |-> FALSE]
    /\ event_toggle = [g \in GUESTS |-> 0]
    /\ pc = (Echo :> "wait") @@ (Bench :> "out")
    /\ i = 0
    /\ starts = 0

\* The doorbell register: the peer's eventfd, and the interrupt it raises.
RingDoorbell(g) == pending' = [pending EXCEPT ![PeerOf(g)] = TRUE]

ivpci_interrupt(g) ==
    /\ pending[g]
    /\ pending' = [pending EXCEPT ![g] = FALSE]
    /\ event_toggle' = [event_toggle EXCEPT ![g] = 1]
    /\ UNCHANGED <<pc, i, starts>>

\* A process that drops old events once it has rung, before it waits.
ivpci_writeDrops(g) ==
    /\ \/ pc[g] = "write" /\ RingDoorbell(g) /\ pc' = [pc EXCEPT ![g] = "drop"] /\ UNCHANGED event_toggle
       \/ /\ pc[g] = "drop" /\ pc' = [pc EXCEPT ![g] = "wait"]
          /\ event_toggle' = [event_toggle EXCEPT ![g] = 0] /\ UNCHANGED pending
    /\ UNCHANGED <<i, starts>>

ivpci_write(g) ==
    /\ pc[g] = "write"
    /\ RingDoorbell(g)
    /\ pc' = [pc EXCEPT ![g] = "wait"]
    /\ UNCHANGED <<event_toggle, i, starts>>

\* wait_event_interruptible returns.
WaitEvent(g) ==
    /\ pc[g] = "wait"
    /\ event_toggle[g] = 1
    /\ pc' = [pc EXCEPT ![g] = "clear"]
    /\ UNCHANGED <<pending, event_toggle, i, starts>>

\* The next step of a process whose read has returned.
AfterRead(g) ==
    IF g = Echo \/ i + 1 < warmup + iterations THEN "write" ELSE "out"

ivpci_read(g) ==
    /\ pc[g] = "clear"
    /\ event_toggle' = [event_toggle EXCEPT ![g] = 0]
    /\ pc' = [pc EXCEPT ![g] = AfterRead(g)]
    /\ i' = IF g = Bench THEN i + 1 ELSE i
    /\ UNCHANGED <<pending, starts>>

\* The benchmark of the other guest is started.
main ==
    /\ pc[Bench] = "out" /\ starts < MaxStarts
    /\ pc' = [pc EXCEPT ![Bench] = "write"]
    /\ i' = 0
    /\ starts' = starts + 1
    /\ UNCHANGED <<pending, event_toggle>>

\* A signal ends the wait, or the process between two calls.
Interrupted ==
    /\ pc[Bench] \in {"write", "wait"} /\ starts < MaxStarts
    /\ pc' = [pc EXCEPT ![Bench] = "out"]
    /\ UNCHANGED <<pending, event_toggle, i, starts>>

Next ==
    \/ \E g \in GUESTS : ivpci_interrupt(g) \/ ivpci_write(g) \/ WaitEvent(g) \/ ivpci_read(g)
    \/ main
    \/ Interrupted

\* Interrupts are delivered and processes go on; nobody has to start or stop them.
Fairness ==
    \A g \in GUESTS : /\ WF_vars(ivpci_interrupt(g))
                      /\ WF_vars(ivpci_write(g) \/ WaitEvent(g) \/ ivpci_read(g))

Spec == Init /\ [][Next]_vars /\ Fairness

\* A round trip ends, also where earlier runs of the benchmark have left an
\* answer, a toggle or an interrupt behind, and though an interrupt between
\* the test and the reset of event_toggle is lost (ivpci_read, bench_vm.rs).
RoundTripsEnd == (pc[Bench] = "write") ~> (pc[Bench] = "out" \/ i = warmup + iterations)
==============================================================================
