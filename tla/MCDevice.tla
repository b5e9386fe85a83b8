------------------------------ MODULE MCDevice ------------------------------
(***************************************************************************)
(* The shared device, in four behaviours: the server with clients of one   *)
(* vector that come and go (hosts) and with clients of two vectors         *)
(* (vectors); the driver in a guest (driver, the module extended); and the *)
(* ping-pong over the doorbell (pingpong).                                 *)
(***************************************************************************)
EXTENDS IvpciDriver

CONSTANTS c1, c2, c3,     \* connections to the server
          d1, d2, d3,     \* devices of the guest
          PARTS,          \* the behaviours to check
          vm_offset

\* A device with interrupts, one without, and one whose position is too large.
Positions == [d \in DEVICES |-> CASE d = d1 -> 1 [] d = d2 -> 0 [] OTHER -> 4]

VARIABLES part,
          server, ready, backlog, peers, client, kicks,   \* of IvshmemServer
          pending, event_toggle, guest_pc, i, starts            \* of Doorbell

serverVars == <<server, ready, backlog, peers, client, kicks>>
doorbellVars == <<pending, event_toggle, guest_pc, i, starts>>

deviceVars == <<part, vars, serverVars, doorbellVars>>

\* The variables of a part that is not there; the driver is then not loaded.
NoDriver == Init
NoServer == server = 0 /\ ready = 0 /\ backlog = 0 /\ peers = 0 /\ client = 0 /\ kicks = 0
NoDoorbell == pending = 0 /\ event_toggle = 0 /\ guest_pc = 0 /\ i = 0 /\ starts = 0

Hosts == INSTANCE IvshmemServer WITH
    CONNS <- {c1, c2, c3}, vm_count <- 2, vector_count <- 1, None <- null, MaxNotify <- 1

TwoVectors == INSTANCE IvshmemServer WITH
    CONNS <- {c1, c2}, vm_count <- 2, vector_count <- 2, None <- null, MaxNotify <- 1

PingPong == INSTANCE Doorbell WITH pc <- guest_pc, warmup <- 1, iterations <- 2, MaxStarts <- 3

DeviceInit ==
    /\ part \in PARTS
    /\ \/ part = "driver" /\ Init /\ NoServer /\ NoDoorbell
       \/ part = "hosts" /\ Hosts!Init /\ NoDriver /\ NoDoorbell
       \/ part = "vectors" /\ TwoVectors!Init /\ NoDriver /\ NoDoorbell
       \/ part = "pingpong" /\ PingPong!Init /\ NoDriver /\ NoServer

DeviceNext ==
    /\ UNCHANGED part
    /\ \/ part = "driver" /\ Next /\ UNCHANGED <<serverVars, doorbellVars>>
       \/ part = "hosts" /\ Hosts!Next /\ UNCHANGED <<vars, doorbellVars>>
       \/ part = "vectors" /\ TwoVectors!Next /\ UNCHANGED <<vars, doorbellVars>>
       \/ part = "pingpong" /\ PingPong!Next /\ UNCHANGED <<vars, serverVars>>

\* The fairness of the parts: see IvshmemServer and Doorbell.
PollEvents == \/ part = "hosts" /\ Hosts!poll_events
              \/ part = "vectors" /\ TwoVectors!poll_events

ClientStep(c) == \/ part = "hosts" /\ Hosts!clientStep(c)
                 \/ part = "vectors" /\ c # c3 /\ TwoVectors!clientStep(c)

ServerFair ==
    /\ WF_serverVars(PollEvents)
    /\ \A c \in {c1, c2, c3} : WF_serverVars(ClientStep(c))

Interrupt(g) == part = "pingpong" /\ PingPong!ivpci_interrupt(g)

GuestStep(g) ==
    /\ part = "pingpong"
    /\ PingPong!ivpci_write(g) \/ PingPong!WaitEvent(g) \/ PingPong!ivpci_read(g)

DoorbellFair ==
    \A g \in PingPong!GUESTS : WF_doorbellVars(Interrupt(g)) /\ WF_doorbellVars(GuestStep(g))

DeviceSpec == DeviceInit /\ [][DeviceNext]_deviceVars

\* When everything sent has arrived, every client knows exactly the others, by
\* their ids and vectors (server.rs, client.rs; PeersAgree of IvshmemServer).
PeersAgree ==
    (part = "hosts" => Hosts!PeersAgree) /\ (part = "vectors" => TwoVectors!PeersAgree)

Kicked(v) == part \in {"hosts", "vectors"} /\ <<c1, v>> \in DOMAIN kicks /\ kicks[<<c1, v>>] > 0

\* If the server and the clients go on (ServerFair), a notification to a client is
\* handled, also one that comes before the client
\* was given its own vectors (client.rs, handle_fds).  The connections are
\* interchangeable: c1 stands for all of them.
NotificationsHandled ==
    ServerFair => \A v \in {0, 1} : Kicked(v) ~> ~Kicked(v)

\* BUG_ON(filp->private_data == NULL) and the other BUG_ONs of cxl_ivpci.c
\* never strike (NoBugOn of IvpciDriver).
NoBugOnStrikes == part = "driver" => NoBugOn

\* If interrupts are delivered and the processes go on (DoorbellFair), a round trip
\* of the benchmark ends (RoundTripsEnd of Doorbell).
RoundTripsEnd ==
    DoorbellFair =>
        ((part = "pingpong" /\ guest_pc[PingPong!Bench] = "write")
           ~> (part = "pingpong" /\ (guest_pc[PingPong!Bench] = "out" \/ i = 3)))
=============================================================================
