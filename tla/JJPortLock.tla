----------------------------- MODULE JJPortLock -----------------------------
(***************************************************************************)
(* The w-port variant of the Jayanti-Joshi lock (jj_ab_wport_spin.h) for   *)
(* at most 64 processes: the requests are the bits of one word, active     *)
(* (atomic_bitset.h), and the lock word remembers its last owner so that   *)
(* promotion goes round the ports.  BYTE_GRANULAR build, as in JJLock.     *)
(***************************************************************************)
EXTENDS LockBench

CONSTANT wsize  \* the ports, and the width of active

VARIABLES lock, reg

portVars == <<benchVars, lock, reg>>

wport_csst(b, s, owner) == [b |-> b, s |-> s, owner |-> owner]
Mine(t) == lock.csst.b /\ lock.csst.s = t

BitSet(a, k) == (a \div 2 ^ k) % 2 = 1

\* The first set bit of a after bit k, cyclically.
next_bit(a, k) ==
    LET at(d) == (k + d) % wsize
        d == CHOOSE d \in 1 .. wsize : /\ BitSet(a, at(d))
                                       /\ \A e \in 1 .. d - 1 : ~BitSet(a, at(e))
    IN at(d)

\* The registers of a thread, cleared at the end of a function.
Cleared == [op |-> "enter", s |-> 0, owner |-> 0, peer |-> 0]
hold(op, s, owner) == [op |-> op, s |-> s, owner |-> owner, peer |-> 0]

jj_wport_spin_init == [csst |-> wport_csst(FALSE, 1, 0), seq |-> 1, active |-> 0]

Init ==
    /\ BenchInit
    /\ lock = jj_wport_spin_init
    /\ reg = [t \in THREADS |-> Cleared]

Reg(t, r) == reg' = [reg EXCEPT ![t] = r]

recover(t) ==
    /\ pc[t] = "lock"
    /\ IF Mine(t)
         THEN Goto(t, "unset") /\ Reg(t, [Cleared EXCEPT !.op = "abort"])
         ELSE Goto(t, "try") /\ UNCHANGED reg
    /\ UNCHANGED lock

tryenter(t) ==
    /\ \/ pc[t] = "try" /\ Goto(t, IF Mine(t) THEN "check" ELSE "set")
       \/ pc[t] = "registered" /\ Goto(t, IF Mine(t) THEN "check" ELSE "spin")
    /\ UNCHANGED <<lock, reg>>

\* set_bit: a load, and if the bit is clear a fetch_add of its mask.
set_bit(t) ==
    /\ \/ /\ pc[t] = "set"
          /\ Goto(t, IF BitSet(lock.active, t) THEN "promote" ELSE "add")
          /\ UNCHANGED lock
       \/ /\ pc[t] = "add"
          /\ lock' = [lock EXCEPT !.active = (@ + 2 ^ t) % 2 ^ wsize]
          /\ Goto(t, "promote")
    /\ UNCHANGED reg

\* unset_bit: a load, and if the bit is set a fetch_sub of its mask.
unset_bit(t) ==
    LET done == IF reg[t].op = "exit" THEN "seq" ELSE "promote"
    IN  /\ \/ /\ pc[t] = "unset"
              /\ Goto(t, IF BitSet(lock.active, t) THEN "sub" ELSE done)
              /\ UNCHANGED lock
           \/ /\ pc[t] = "sub"
              /\ lock' = [lock EXCEPT !.active = (@ - 2 ^ t) % 2 ^ wsize]
              /\ Goto(t, done)
        /\ UNCHANGED reg

\* The spin, which an abort signal may end, and the second look that decides
\* between taking the critical section and giving the request up.
enter(t) ==
    /\ \/ /\ pc[t] = "spin"
          /\ (Mine(t) /\ Goto(t, "check")) \/ Signalled(t, "check")
          /\ UNCHANGED reg
       \/ /\ pc[t] = "check"
          /\ IF Mine(t) THEN Enter(t) /\ UNCHANGED reg
             ELSE Goto(t, "unset") /\ Reg(t, [Cleared EXCEPT !.op = "giveup"])
       \/ /\ pc[t] = "aborted"             \* promoted all the same?
          /\ IF Mine(t) THEN Enter(t) ELSE Goto(t, "lock")
          /\ UNCHANGED reg
    /\ UNCHANGED lock

Promoted(t) ==
    /\ CASE reg[t].op = "enter" -> Goto(t, "registered")
         [] reg[t].op = "abort" -> Goto(t, "try")
         [] reg[t].op = "giveup" -> Goto(t, "aborted")
         [] reg[t].op = "exit"  -> Return(t)
    /\ Reg(t, Cleared)

promote(t) ==
    \/ /\ pc[t] = "promote"
       /\ IF lock.csst.b THEN Promoted(t)
          ELSE /\ Goto(t, "active")
               /\ Reg(t, hold(reg[t].op, lock.csst.s, lock.csst.owner))
       /\ UNCHANGED lock
    \/ /\ pc[t] = "active"
       /\ IF lock.active = 0 /\ reg[t].op \notin {"abort", "giveup"} THEN Promoted(t)
          ELSE /\ Goto(t, "promoting")
               /\ Reg(t, [reg[t] EXCEPT !.peer = IF lock.active = 0 THEN t
                                                 ELSE next_bit(lock.active, reg[t].owner)])
       /\ UNCHANGED lock
    \/ /\ pc[t] = "promoting"
       /\ lock' = [lock EXCEPT !.csst = IF @ = wport_csst(FALSE, reg[t].s, reg[t].owner)
                                        THEN wport_csst(TRUE, reg[t].peer, reg[t].peer) ELSE @]
       /\ Promoted(t)

\* exit: remember the owner, withdraw the request, take a sequence number,
\* free the word, promote.
exit(t) ==
    \/ /\ pc[t] = "unlock"
       /\ Reg(t, hold("exit", 0, lock.csst.owner))
       /\ Goto(t, "unset")
       /\ UNCHANGED lock
    \/ /\ pc[t] = "seq"
       /\ Reg(t, [reg[t] EXCEPT !.s = lock.seq])
       /\ Goto(t, "seqwrite")
       /\ UNCHANGED lock
    \/ /\ pc[t] = "seqwrite"
       /\ lock' = [lock EXCEPT !.seq = reg[t].s + 1]
       /\ Goto(t, "free")
       /\ UNCHANGED reg
    \/ /\ pc[t] = "free"
       /\ lock' = [lock EXCEPT !.csst = wport_csst(FALSE, reg[t].s + 1, reg[t].owner)]
       /\ Reg(t, [Cleared EXCEPT !.op = "exit"])
       /\ Goto(t, "promote")

measure_jj_wport(t) == Passage(t) /\ UNCHANGED <<lock, reg>>

Crashes(t) == Crash(t) /\ Reg(t, Cleared) /\ UNCHANGED lock
Restarts(t) == Restart(t) /\ UNCHANGED <<lock, reg>>

Step(t) ==
    \/ recover(t)
    \/ tryenter(t)
    \/ set_bit(t)
    \/ unset_bit(t)
    \/ enter(t)
    \/ promote(t)
    \/ exit(t)
    \/ measure_jj_wport(t)

Next == \E t \in THREADS : Step(t) \/ Crashes(t) \/ Restarts(t)

Spec == Init /\ [][Next]_portVars
=============================================================================
