---------------------------- MODULE IvshmemServer ----------------------------
(***************************************************************************)
(* The ivshmem server of a host (server.rs) and the processes that connect *)
(* to it (client.rs; QEMU speaks the same protocol).  There is a listening *)
(* socket for each VM.  The server gives a client its id, the shared       *)
(* memory and one notifier for each vector of each peer, and tells all     *)
(* others when a client comes or goes.                                     *)
(*                                                                         *)
(* A connection is a model value and used once; a notifier is the pair of  *)
(* the connection it was made for and its vector.  The server's handlers   *)
(* are cut at their sends: a client may go away between any two of them.   *)
(* The library mio waits with edge-triggered epoll: a socket that becomes  *)
(* ready is put at the end of a list once, until the server fetches it.    *)
(***************************************************************************)
EXTENDS Integers, SequencesExt, FiniteSets

CONSTANTS CONNS,          \* connections that clients may make
          vm_count,       \* listening sockets
          vector_count,   \* MSI vectors of a client
          vm_offset,      \* ids begin with 1 rather than 0
          None,
          MaxNotify       \* bound on a notifier's count

IVSHMEM_PROTOCOL_VERSION == 0

SLOTS == 0 .. vm_count - 1
VECTORS == 0 .. vector_count - 1
FDS == CONNS \X VECTORS

VARIABLES
    server,   \* st, the events fetched, sends to do, connection being set up
    ready,    \* epoll's list of sockets that became ready
    backlog,  \* connections of each listening socket not yet accepted
    peers,    \* the connection of each slot, or None
    client,   \* the process at the other end of each connection
    kicks     \* the count in each notifier whose reader is there

vars == <<server, ready, backlog, peers, client, kicks>>

id_of(i) == IF vm_offset THEN i + 1 ELSE i

Msg(id, fd) == [id |-> id, fd |-> fd]

NewClient == [st |-> "off", slot |-> 0, queue |-> <<>>, got |-> 0, id |-> None,
              local |-> <<>>, peer_list |-> <<>>]

Init ==
    /\ server = [st |-> "up", events |-> <<>>, todo |-> <<>>, conn |-> None]
    /\ ready = <<>>
    /\ backlog = [i \in SLOTS |-> <<>>]
    /\ peers = [i \in SLOTS |-> None]
    /\ client = [c \in CONNS |-> NewClient]
    /\ kicks = [f \in FDS |-> 0]

Queues(e) == IF Contains(ready, e) THEN ready ELSE Append(ready, e)

(***************************************************************************)
(* The server.                                                             *)
(***************************************************************************)

Idle == server.st = "up" /\ server.todo = <<>> /\ server.conn = None

Poll ==
    /\ Idle /\ server.events = <<>> /\ ready # <<>>
    /\ server' = [server EXCEPT !.events = ready]
    /\ ready' = <<>>
    /\ UNCHANGED <<backlog, peers, client, kicks>>

\* SIGTERM or SIGINT: the loop ends when the events are handled.
Quit ==
    /\ Idle /\ server.events = <<>>
    /\ server' = [server EXCEPT !.st = "down"]
    /\ UNCHANGED <<ready, backlog, peers, client, kicks>>

\* peers(): what handle_new_conn and poll_events iterate over.
OtherPeers == SetToSortSeq({<<j, peers[j]>> : j \in {k \in SLOTS : peers[k] # None}},
                           LAMBDA a, b : a[1] < b[1])

Vectors(c) == [v \in 1 .. vector_count |-> <<c, v - 1>>]

\* Sends of the vectors of from, called id, to to.
Advertise(to, id, from) == [v \in 1 .. vector_count |-> <<to, Msg(id, <<from, v - 1>>)>>]

Greeting(c, i) ==
    << <<c, Msg(IVSHMEM_PROTOCOL_VERSION, None)>>, <<c, Msg(id_of(i), None)>>, <<c, Msg(None, "shm")>> >>

ToOthers(c, i) == FlattenSeq([k \in DOMAIN OtherPeers |-> Advertise(OtherPeers[k][2], id_of(i), c)])

OfOthers(c) == FlattenSeq([k \in DOMAIN OtherPeers |-> Advertise(c, OtherPeers[k][1], OtherPeers[k][2])])

\* A new client is not given its own vectors.
NewConnNoOwn(c, i) == Greeting(c, i) \o ToOthers(c, i) \o OfOthers(c)

\* The sends of handle_new_conn, in its order.
NewConnSends(c, i) == Greeting(c, i) \o ToOthers(c, i) \o OfOthers(c) \o Advertise(c, id_of(i), c)

\* One accept for each event.
handle_new_conn(i) ==
    /\ Idle /\ server.events # <<>> /\ Head(server.events) = <<"listen", i>>
    /\ backlog[i] # <<>>
    /\ backlog' = [backlog EXCEPT ![i] = Tail(@)]
    /\ LET c == Head(backlog[i]) IN
           server' = [server EXCEPT !.events = Tail(@), !.todo = NewConnSends(c, i), !.conn = c]
    /\ UNCHANGED <<ready, peers, client, kicks>>

\* The deletion is not advertised.
drop_peerSilently(i) ==
    /\ Idle /\ server.events # <<>> /\ Head(server.events) = <<"closed", i>>
    /\ peers[i] # None
    /\ peers' = [peers EXCEPT ![i] = None]
    /\ server' = [server EXCEPT !.events = Tail(@)]
    /\ UNCHANGED <<ready, backlog, client, kicks>>

\* The socket of slot i was closed: forget the peer and tell the others.
drop_peer(i) ==
    /\ Idle /\ server.events # <<>> /\ Head(server.events) = <<"closed", i>>
    /\ peers[i] # None
    /\ peers' = [peers EXCEPT ![i] = None]
    /\ LET others == SelectSeq(OtherPeers, LAMBDA p : p[2] # peers[i]) IN
           server' = [server EXCEPT !.events = Tail(@),
                                    !.todo = [k \in DOMAIN others |-> <<others[k][2], Msg(id_of(i), None)>>]]
    /\ UNCHANGED <<ready, backlog, client, kicks>>

\* sendmsg: it fails when the other end is closed, and the error ends the server.
\* It would also fail when the buffer of this non-blocking socket is full: the
\* buffers here hold every message, so that case is left out.
send ==
    /\ server.st = "up" /\ server.todo # <<>>
    /\ LET to == Head(server.todo)[1]
           m == Head(server.todo)[2] IN
       \/ /\ client[to].st = "up"
          /\ client' = [client EXCEPT ![to].queue = Append(@, m)]
          /\ server' = [server EXCEPT !.todo = Tail(@)]
       \/ /\ client[to].st = "gone"
          /\ server' = [server EXCEPT !.st = "down"]
          /\ UNCHANGED client
    /\ UNCHANGED <<ready, backlog, peers, kicks>>

\* The end of handle_new_conn.  A socket that is already closed becomes ready
\* at once.  A second peer in a slot is a panic.
register ==
    /\ server.st = "up" /\ server.conn # None /\ server.todo = <<>>
    /\ LET c == server.conn
           i == client[c].slot IN
       /\ ready' = IF client[c].st = "gone" THEN Queues(<<"closed", i>>) ELSE ready
       /\ peers' = [peers EXCEPT ![i] = c]
       /\ server' = [server EXCEPT !.conn = None,
                                   !.st = IF peers[i] # None THEN "down" ELSE @]
    /\ UNCHANGED <<backlog, client, kicks>>

poll_events ==
    \/ Poll
    \/ \E i \in SLOTS : handle_new_conn(i) \/ drop_peer(i)
    \/ send
    \/ register

(***************************************************************************)
(* The clients.                                                            *)
(***************************************************************************)

\* A socket is for one VM: a client is started after the one before it ended.
Connect(c, i) ==
    /\ server.st = "up" /\ client[c].st = "off"
    /\ \A d \in CONNS : client[d].st = "up" => client[d].slot # i
    /\ client' = [client EXCEPT ![c].st = "up", ![c].slot = i]
    /\ backlog' = [backlog EXCEPT ![i] = Append(@, c)]
    /\ ready' = Queues(<<"listen", i>>)
    /\ UNCHANGED <<server, peers, kicks>>

\* The process ends: killed, or by the error it returns from main.
Gone(c) ==
    /\ client' = [client EXCEPT ![c] = [NewClient EXCEPT !.st = "gone", !.slot = client[c].slot]]
    /\ ready' = IF peers[client[c].slot] = c THEN Queues(<<"closed", client[c].slot>>) ELSE ready
    /\ kicks' = [f \in FDS |-> IF f[1] = c THEN 0 ELSE kicks[f]]

Close(c) ==
    /\ client[c].st = "up"
    /\ Gone(c)
    /\ UNCHANGED <<server, backlog, peers>>

\* recv: an end of file is an error.
recvFails(c) ==
    /\ client[c].st = "up" /\ client[c].queue = <<>> /\ server.st = "down"
    /\ Gone(c)
    /\ UNCHANGED <<server, backlog, peers>>

\* Client::new: version, own id and the shared memory, in this order.
new(c) ==
    /\ client[c].st = "up" /\ client[c].got < 3 /\ client[c].queue # <<>>
    /\ LET m == Head(client[c].queue)
           expected == <<m.id = IVSHMEM_PROTOCOL_VERSION /\ m.fd = None,
                         m.id # None /\ m.fd = None,
                         m.id = None /\ m.fd # None>>[client[c].got + 1] IN
       IF expected
         THEN /\ client' = [client EXCEPT ![c].queue = Tail(@), ![c].got = @ + 1,
                                          ![c].id = IF client[c].got = 1 THEN m.id ELSE @]
              /\ UNCHANGED <<ready, kicks>>
         ELSE Gone(c)
    /\ UNCHANGED <<server, backlog, peers>>

\* The state of client s after message m; None where it returns an error.
Received(s, m) ==
    LET k == SelectInSeq(s.peer_list, LAMBDA p : p.id = m.id) IN
    CASE m.id = None -> None
      [] m.id # None /\ m.fd = None ->
           IF k = 0 THEN None ELSE [s EXCEPT !.peer_list = RemoveAt(@, k)]
      [] m.id # None /\ m.fd # None /\ k # 0 ->
           [s EXCEPT !.peer_list[k].vectors = Append(@, m.fd)]
      [] m.id # None /\ m.fd # None /\ k = 0 /\ m.id = s.id ->
           [s EXCEPT !.local = Append(@, m.fd)]
      [] OTHER ->
           [s EXCEPT !.peer_list = Append(@, [id |-> m.id, vectors |-> <<m.fd>>])]

handle_server_msg(c) ==
    /\ client[c].st = "up" /\ client[c].got = 3 /\ client[c].queue # <<>>
    /\ LET s == [client[c] EXCEPT !.queue = Tail(@)]
           after == Received(s, Head(client[c].queue)) IN
       IF after = None
         THEN Gone(c)
         ELSE client' = [client EXCEPT ![c] = after] /\ UNCHANGED <<ready, kicks>>
    /\ UNCHANGED <<server, backlog, peers>>

\* select shows both the socket and the vectors; the socket comes first.
handle_event(c) ==
    LET kicked == {f \in Range(client[c].local) : kicks[f] > 0} IN
    /\ client[c].st = "up" /\ client[c].got = 3 /\ client[c].queue = <<>>
    /\ kicked # {}
    /\ kicks' = [f \in FDS |-> IF f \in kicked THEN 0 ELSE kicks[f]]
    /\ UNCHANGED <<server, ready, backlog, peers, client>>

Kick(fds) ==
    kicks' = [f \in FDS |-> IF f \in fds /\ client[f[1]].st = "up" /\ kicks[f] < MaxNotify
                             THEN kicks[f] + 1 ELSE kicks[f]]

\* "int <id> <vector>": an id may be one's own; an unknown one is ignored, a
\* vector that the peer does not have is an error.
notify(c, p, v) ==
    IF v < Len(p.vectors)
      THEN Kick({p.vectors[v + 1]}) /\ UNCHANGED <<client, ready>>
      ELSE Gone(c)

\* "int <id> all" and "int all".
notify_all_vects(ps) ==
    /\ Kick(UNION {Range(p.vectors) : p \in ps})
    /\ UNCHANGED <<client, ready>>

handle_stdin_command(c) ==
    LET known == Range(client[c].peer_list) \union {[id |-> client[c].id, vectors |-> client[c].local]} IN
    /\ client[c].st = "up" /\ client[c].got = 3
    /\ \/ \E p \in known : \/ \E v \in VECTORS : notify(c, p, v)
                           \/ notify_all_vects({p})
       \/ notify_all_vects(Range(client[c].peer_list))
    /\ UNCHANGED <<server, backlog, peers>>

clientStep(c) == new(c) \/ recvFails(c) \/ handle_server_msg(c) \/ handle_event(c)

Next ==
    \/ poll_events
    \/ Quit
    \/ \E c \in CONNS : \/ \E i \in SLOTS : Connect(c, i)
                        \/ Close(c)
                        \/ handle_stdin_command(c)
                        \/ clientStep(c)

\* The server is a loop around epoll_wait and a client one around select.
Fairness ==
    /\ WF_vars(poll_events)
    /\ \A c \in CONNS : WF_vars(clientStep(c))

Spec == Init /\ [][Next]_vars /\ Fairness

(***************************************************************************)
(* Properties.                                                             *)
(***************************************************************************)

Up == {c \in CONNS : client[c].st = "up"}

AllVectors(i, c) == [id |-> id_of(i), vectors |-> Vectors(c)]

\* Nothing is on its way: no event, no send, no message.
Settled ==
    /\ Idle /\ server.events = <<>> /\ ready = <<>>
    /\ \A c \in Up : client[c].queue = <<>>

\* When everything sent has arrived, every client that was started has been
\* accepted and knows exactly the clients that are there, under their ids and
\* with their own vectors in order, and its own vectors: clients that come and
\* go in any order, also while the server is telling others, leave no stale
\* peer and no hole (handle_new_conn, poll_events, handle_server_msg).
PeersAgree ==
    Settled =>
        \A c \in Up :
            /\ peers[client[c].slot] = c
            /\ client[c].id = id_of(client[c].slot)
            /\ client[c].local = Vectors(c)
            /\ Range(client[c].peer_list) =
                   {AllVectors(i, peers[i]) : i \in {j \in SLOTS : peers[j] \notin {c, None}}}

\* A notification arrives, also one sent to a client that has not yet been
\* given the read end of its own vector (the others are told first), and
\* however many messages of the server compete with it in handle_fds.
NotificationsHandled ==
    \A f \in FDS : kicks[f] > 0 ~> kicks[f] = 0
==============================================================================
