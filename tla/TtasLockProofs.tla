--------------------------- MODULE TtasLockProofs ---------------------------
(***************************************************************************)
(* TtasLock for any number of machines, CPUs, crashes and generations.     *)
(***************************************************************************)
EXTENDS TtasLock, TLAPS

\* Multiplication by a natural number is monotonic.
LEMMA TimesMonotonic ==
  ASSUME NEW n \in Nat, NEW a \in Nat, NEW b \in Nat, a >= b
  PROVE  n * a >= n * b
OBVIOUS

\* The machine the recovery code computes from an owner in the lock word is one
\* of the machines of the pod (ttas_lock_recover_kern, get_process_identifier).
LEMMA MachineOfProc == \A p \in Procs : MachineOf(p) \in Machines
<1> SUFFICES ASSUME NEW p \in Procs PROVE MachineOf(p) \in Machines
  OBVIOUS
<1> DEFINE d == p \div NrCpus
           r == p % NrCpus
<1>1. p \in Nat /\ p < NrMachines * NrCpus
  BY SizeAssumption DEF Procs
<1>2. d \in Int /\ r \in 0..(NrCpus - 1) /\ p = NrCpus * d + r
  BY SizeAssumption, <1>1
<1>3. d >= 0
  BY SizeAssumption, <1>1
<1> HIDE DEF d, r
<1>4. d < NrMachines
  <2>1. SUFFICES ASSUME d >= NrMachines PROVE FALSE
    BY <1>2, SizeAssumption
  <2>2. NrCpus * d >= NrCpus * NrMachines
    BY <2>1, <1>2, <1>3, TimesMonotonic, SizeAssumption
  <2> QED
    <3>1. NrCpus * NrMachines = NrMachines * NrCpus
      BY SizeAssumption
    <3> QED
      BY <2>2, <3>1, <1>1, <1>2, SizeAssumption
<1> QED
  BY <1>2, <1>3, <1>4, SizeAssumption DEF MachineOf, Machines, d

\* Every CPU has an identifier in the range of the lock words, and the recovery
\* code computes its machine back from it (get_process_identifier).
LEMMA IdentifiersInvert ==
  ASSUME NEW m \in Machines, NEW c \in 0..(NrCpus - 1)
  PROVE  /\ ProcessIdentifier(m, c) \in Procs
         /\ MachineOf(ProcessIdentifier(m, c)) = m
<1> DEFINE q == m - 1
<1>1. NrCpus \in Nat \ {0} /\ q \in Nat /\ c \in Nat /\ c < NrCpus /\ q <= NrMachines - 1 /\ NrMachines \in Nat
  BY SizeAssumption DEF SizeAssumption, Machines
<1>2. NrCpus * q \in Nat
  BY <1>1
<1>3. NrCpus * q <= NrCpus * (NrMachines - 1)
  BY <1>1
<1>4. NrCpus * (NrMachines - 1) = NrMachines * NrCpus - NrCpus
  BY <1>1
<1>5. ProcessIdentifier(m, c) = NrCpus * q + c
  BY <1>1 DEF ProcessIdentifier, Machines
<1>6. (NrCpus * q + c) \div NrCpus = q
  BY SMTT(60), <1>1, <1>2
<1> HIDE DEF q
<1>7. NrCpus * q + c \in 0..(NrMachines * NrCpus - 1)
  <2> DEFINE x == NrCpus * q
             y == NrMachines * NrCpus
  <2>1. x \in Nat /\ y \in Nat /\ x <= y - NrCpus
    BY <1>1, <1>2, <1>3, <1>4
  <2> HIDE DEF x, y
  <2>2. x + c \in 0..(y - 1)
    BY <1>1, <2>1
  <2> QED
    BY <2>2 DEF x, y
<1>8. m = q + 1
  BY DEF q, Machines
<1> QED
  BY <1>5, <1>6, <1>7, <1>8 DEF Procs, MachineOf

\* The word 0 is a lock word: its owner field reads as process 0.
LEMMA UnlockedIsWord == UNLOCKED \in LockWord
<1>1. NrMachines * NrCpus >= 1
  BY SizeAssumption, SMTT(30)
<1> QED
  BY <1>1, SizeAssumption DEF UNLOCKED, LockWord, Procs

\* The word a CPU composes for itself is a lock word, and it is not UNLOCKED.
LEMMA ComposedWord ==
  ASSUME NEW p \in Procs, NEW g \in Nat
  PROVE  /\ compose(p, g) \in LockWord
         /\ compose(p, g).b = 1 /\ compose(p, g).owner = p /\ compose(p, g).gen = g
         /\ compose(p, g) # UNLOCKED
BY DEF compose, LockWord, UNLOCKED

\* Forgetting the locals of some CPUs keeps the types of the locals.
LEMMA ForgetTypes ==
  ASSUME TypeOK, NEW S, Forget(S)
  PROVE  /\ call' \in [Procs -> {"op", "help", "boot"}]
         /\ old' \in [Procs -> Machines \cup {0}]
         /\ val' \in [Procs -> LockWord]
         /\ exp' \in [Procs -> LockWord]
BY UnlockedIsWord DEF TypeOK, Forget

-----------------------------------------------------------------------------
\* The state the first machine sets up is well typed.
LEMMA TypeInit == Init => TypeOK
<1>1. Init => needsReplay \in BOOLEAN
  BY DEF Init
<1> QED
  BY <1>1, UnlockedIsWord DEF Init, TypeOK, Labels

\* Every step of the lock, of its recovery and of the machines keeps the types.
LEMMA TypeStep == TypeOK /\ [Next]_vars => TypeOK'
<1> SUFFICES ASSUME TypeOK, [Next]_vars PROVE TypeOK'
  OBVIOUS
<1> USE MachineOfProc
<1>1. ASSUME NEW p \in Procs, meta_lock(p) PROVE TypeOK'
  <2>1. compose(p, gens[MachineOf(p)]) \in LockWord
    BY ComposedWord DEF TypeOK
  <2> QED
    BY <1>1, <2>1 DEF TypeOK, meta_lock, Goto, Labels
<1>2. ASSUME NEW p \in Procs, ttas_recover_with_gen(p) PROVE TypeOK'
  BY <1>2 DEF TypeOK, ttas_recover_with_gen, Goto, Labels
<1>3. ASSUME NEW p \in Procs, ttas_enter_read(p) PROVE TypeOK'
  BY <1>3 DEF TypeOK, ttas_enter_read, Goto, Labels
<1>4. ASSUME NEW p \in Procs, ttas_enter_cas(p) PROVE TypeOK'
  BY <1>4 DEF TypeOK, ttas_enter_cas, Goto, Labels
<1>5. ASSUME NEW p \in Procs, ttas_exit(p) PROVE TypeOK'
  <2>1. needsReplay' \in BOOLEAN
    BY <1>5 DEF ttas_exit
  <2>2. Forget({p})
    BY <1>5 DEF ttas_exit
  <2> QED
    BY <1>5, <2>1, <2>2, ForgetTypes, UnlockedIsWord DEF TypeOK, ttas_exit, Goto, Labels
<1>6. ASSUME NEW p \in Procs, ttas_lock_recover_read(p) PROVE TypeOK'
  <2>1. CASE Recoverable(p, csst, old[p])
    <3>1. compose(p, gens[MachineOf(p)]) \in LockWord
      BY ComposedWord DEF TypeOK
    <3> QED
      BY <1>6, <2>1, <3>1 DEF TypeOK, ttas_lock_recover_read, Goto, Labels
  <2>2. CASE ~Recoverable(p, csst, old[p]) /\ call[p] = "boot"
    BY <1>6, <2>2 DEF TypeOK, ttas_lock_recover_read, Goto, Labels
  <2>3. CASE ~Recoverable(p, csst, old[p]) /\ call[p] # "boot"
    <3>1. Forget({p})
      BY <1>6, <2>3 DEF ttas_lock_recover_read
    <3> QED
      BY <1>6, <2>3, <3>1, ForgetTypes DEF TypeOK, ttas_lock_recover_read, Goto, Labels
  <2> QED
    BY <2>1, <2>2, <2>3
<1>7. ASSUME NEW p \in Procs, ttas_lock_recover_cas(p) PROVE TypeOK'
  <2>1. CASE csst = exp[p]
    BY <1>7, <2>1 DEF TypeOK, ttas_lock_recover_cas, Goto, Labels
  <2>2. CASE csst # exp[p] /\ call[p] = "boot"
    BY <1>7, <2>2 DEF TypeOK, ttas_lock_recover_cas, Goto, Labels
  <2>3. CASE csst # exp[p] /\ call[p] # "boot"
    <3>1. Forget({p})
      BY <1>7, <2>3 DEF ttas_lock_recover_cas
    <3> QED
      BY <1>7, <2>3, <3>1, ForgetTypes DEF TypeOK, ttas_lock_recover_cas, Goto, Labels
  <2> QED
    BY <2>1, <2>2, <2>3
<1>8. ASSUME NEW p \in Procs, recover_meta(p) PROVE TypeOK'
  <2>1. gens' \in [Machines -> Nat]
    BY <1>8 DEF recover_meta, TypeOK
  <2> QED
    BY <1>8, <2>1 DEF TypeOK, recover_meta, Labels
<1>9. ASSUME NEW p \in Procs, NEW m \in Machines, detect_os_failure(p, m) PROVE TypeOK'
  BY <1>9 DEF TypeOK, detect_os_failure, Goto, Labels
<1>10. ASSUME NEW h \in Machines, NEW m \in Machines, see_heartbeat(h, m) PROVE TypeOK'
  BY <1>10 DEF TypeOK, see_heartbeat
<1>11. ASSUME NEW m \in Machines, Crash(m) PROVE TypeOK'
  <2>1. needsReplay' \in BOOLEAN
    BY <1>11 DEF Crash
  <2>2. Forget(CpusOf(m))
    BY <1>11 DEF Crash
  <2> QED
    BY <1>11, <2>1, <2>2, ForgetTypes DEF TypeOK, Crash, Labels
<1>12. CASE UNCHANGED vars
  BY <1>12 DEF TypeOK, vars
<1> QED
  BY <1>1, <1>2, <1>3, <1>4, <1>5, <1>6, <1>7, <1>8, <1>9, <1>10, <1>11, <1>12
  DEF Next, LockStep

\* The lock word, the generations and the control state of every CPU stay in
\* their types, whatever the detectors do.
THEOREM TypeCorrect == Spec => []TypeOK
<1>1. Init => TypeOK
  BY TypeInit
<1>2. TypeOK /\ [Next]_vars => TypeOK'
  BY TypeStep
<1> QED
  BY <1>1, <1>2, PTL DEF Spec

-----------------------------------------------------------------------------
\* Generations never decrease, and a machine that comes back has a new one
\* (recover_cxlcg_meta increments it before anything takes the lock).
LEMMA GenerationsGrow ==
  ASSUME LockInv, [Next]_vars, NEW m \in Machines
  PROVE  /\ gens[m] \in Nat /\ gens'[m] \in Nat
         /\ gens'[m] >= gens[m]
         /\ status[m] = "down" /\ status'[m] # "down" => gens'[m] > gens[m]
<1> USE MachineOfProc DEF LockInv, TypeOK
<1>1. ASSUME NEW p \in Procs, meta_lock(p) PROVE gens' = gens /\ status' = status
  BY <1>1 DEF meta_lock
<1>2. ASSUME NEW p \in Procs, LockStep(p)
      PROVE  /\ gens' = gens
             /\ \/ status' = status
                \/ /\ pc[p] = "cs"
                   /\ status' = [status EXCEPT ![MachineOf(p)] = "up"]
  BY <1>2 DEF LockStep, ttas_recover_with_gen, ttas_enter_read, ttas_enter_cas,
              ttas_exit, ttas_lock_recover_read, ttas_lock_recover_cas
<1>3. ASSUME NEW p \in Procs, LockStep(p)
      PROVE  status[m] = "down" => status'[m] = "down"
  BY <1>2, <1>3 DEF OffMeansDown
<1>4. ASSUME NEW p \in Procs, recover_meta(p)
      PROVE  /\ gens' = [gens EXCEPT ![MachineOf(p)] = @ + 1]
             /\ status' = [status EXCEPT ![MachineOf(p)] = "booting"]
  BY <1>4 DEF recover_meta
<1>5. ASSUME NEW p \in Procs, NEW k \in Machines, detect_os_failure(p, k)
      PROVE  gens' = [gens EXCEPT ![k] = @ + 1] /\ status' = status
  BY <1>5 DEF detect_os_failure
<1>6. ASSUME NEW h \in Machines, NEW k \in Machines, see_heartbeat(h, k)
      PROVE  gens' = gens /\ status' = status
  BY <1>6 DEF see_heartbeat
<1>7. ASSUME NEW k \in Machines, Crash(k)
      PROVE  gens' = gens /\ status' = [status EXCEPT ![k] = "down"]
  BY <1>7 DEF Crash
<1>8. CASE UNCHANGED vars
  BY <1>8 DEF vars
<1> QED
  BY <1>1, <1>2, <1>3, <1>4, <1>5, <1>6, <1>7, <1>8 DEF Next

\* A CPU inside a call of the lock signs with the generation it read when the
\* call began: it keeps its word, or it has just composed it.
LEMMA WordsAreFresh ==
  ASSUME LockInv, [Next]_vars, NEW p \in Procs, Active(p)'
  PROVE  \/ Active(p) /\ val'[p] = val[p]
         \/ val'[p] = compose(p, gens'[MachineOf(p)])
<1> USE MachineOfProc DEF LockInv, TypeOK, Active
<1>1. ASSUME NEW q \in Procs, meta_lock(q)
      PROVE  \/ Active(p) /\ val'[p] = val[p]
             \/ val'[p] = compose(p, gens'[MachineOf(p)])
  BY <1>1 DEF meta_lock, Goto
<1>2. ASSUME NEW q \in Procs, LockStep(q)
      PROVE  \/ Active(p) /\ val'[p] = val[p]
             \/ val'[p] = compose(p, gens'[MachineOf(p)])
  <2>1. CASE ttas_lock_recover_read(q)
    BY <2>1 DEF ttas_lock_recover_read, Goto, Forget
  <2>2. CASE ~ttas_lock_recover_read(q)
    BY <1>2, <2>2 DEF LockStep, ttas_recover_with_gen, ttas_enter_read, ttas_enter_cas,
                      ttas_exit, ttas_lock_recover_cas, Goto, Forget
  <2> QED
    BY <2>1, <2>2
<1>3. ASSUME NEW q \in Procs, recover_meta(q)
      PROVE  \/ Active(p) /\ val'[p] = val[p]
             \/ val'[p] = compose(p, gens'[MachineOf(p)])
  BY <1>3 DEF recover_meta
<1>4. ASSUME NEW q \in Procs, NEW k \in Machines, detect_os_failure(q, k)
      PROVE  \/ Active(p) /\ val'[p] = val[p]
             \/ val'[p] = compose(p, gens'[MachineOf(p)])
  BY <1>4 DEF detect_os_failure, Goto
<1>5. ASSUME NEW h \in Machines, NEW k \in Machines, see_heartbeat(h, k)
      PROVE  Active(p) /\ val'[p] = val[p]
  BY <1>5 DEF see_heartbeat
<1>6. ASSUME NEW k \in Machines, Crash(k) PROVE Active(p) /\ val'[p] = val[p]
  BY <1>6 DEF Crash, Forget, CpusOf
<1>7. CASE UNCHANGED vars
  BY <1>7 DEF vars
<1> QED
  BY <1>1, <1>2, <1>3, <1>4, <1>5, <1>6, <1>7 DEF Next

\* Once stale, always stale: nobody ever writes a word of an earlier life again.
LEMMA StaleForever ==
  ASSUME LockInv, [Next]_vars, NEW w \in LockWord, Stale(w)
  PROVE  Stale(w)'
<1> DEFINE m == MachineOf(w.owner)
<1>1. m \in Machines
  BY MachineOfProc DEF LockWord
<1>2. w.gen \in Nat
  BY DEF LockWord
<1>3. w.gen <= gens'[m]
  BY <1>1, <1>2, GenerationsGrow DEF Stale
<1>4. ASSUME status'[m] # "down" PROVE w.gen < gens'[m]
  BY <1>1, <1>2, <1>4, GenerationsGrow DEF Stale
<1>5. ASSUME status'[m] # "down", NEW p \in CpusOf(m), Active(p)'
      PROVE  w.gen < val'[p].gen
  <2>1. p \in Procs /\ MachineOf(p) = m
    BY DEF CpusOf
  <2>2. CASE Active(p) /\ val'[p] = val[p]
    <3>1. status[m] # "down"
      BY <2>1, <2>2 DEF LockInv, OffMeansDown, Active
    <3> QED
      BY <2>2, <3>1 DEF Stale
  <2>3. CASE val'[p] = compose(p, gens'[MachineOf(p)])
    BY <2>1, <2>3, <1>4, <1>5 DEF compose
  <2> QED
    BY <2>1, <2>2, <2>3, <1>5, WordsAreFresh
<1> QED
  BY <1>3, <1>4, <1>5 DEF Stale, CpusOf

-----------------------------------------------------------------------------
\* What the invariant says of who is inside: one CPU at most, and it is not the
\* one a recoverer or a re-entering CPU could be confused with.
LEMMA InsideFacts ==
  ASSUME LockInv
  PROVE  /\ MutualExclusion
         /\ NoStaleReentry
         /\ \A p, q \in Procs : pc[p] = "rcas" /\ csst = exp[p] => pc[q] # "cs"
<1>1. \A p \in Procs : pc[p] = "cs" =>
        csst.b = 1 /\ csst.owner = p /\ csst = val[p] /\ csst # UNLOCKED
  BY DEF LockInv, HolderOwnsWord, WordsSigned, Active, compose
<1>2. \A p \in Procs : Active(p) => p \in CpusOf(MachineOf(p)) /\ status[MachineOf(p)] # "down"
  BY DEF LockInv, OffMeansDown, Active, CpusOf
<1>3. MutualExclusion
  BY <1>1 DEF MutualExclusion
<1>4. NoStaleReentry
  <2>1. SUFFICES ASSUME NEW p \in Procs, pc[p] = "recover", csst = val[p]
                 PROVE  FALSE
    BY DEF NoStaleReentry
  <2>2. Active(p) /\ csst.b = 1 /\ csst.owner = p
    BY <2>1 DEF LockInv, WordsSigned, Active, compose
  <2>3. Stale(csst)
    BY <2>1, <2>2 DEF LockInv, AbandonedIsStale
  <2>4. csst.gen < val[p].gen
    BY <2>2, <2>3, <1>2 DEF Stale
  <2>5. csst.gen \in Nat
    BY DEF LockInv, TypeOK, LockWord
  <2> QED
    BY <2>1, <2>4, <2>5
<1>5. ASSUME NEW p \in Procs, NEW q \in Procs, pc[p] = "rcas", csst = exp[p], pc[q] = "cs"
      PROVE  FALSE
  <2>1. Active(q) /\ csst = val[q] /\ csst.owner = q /\ csst # UNLOCKED
    BY <1>1, <1>5 DEF Active
  <2>2. Stale(csst)
    BY <1>5, <2>1 DEF LockInv, ReplacesStale
  <2>3. csst.gen < val[q].gen
    BY <2>1, <2>2, <1>2 DEF Stale
  <2>4. csst.gen \in Nat
    BY DEF LockInv, TypeOK, LockWord
  <2> QED
    BY <2>1, <2>3, <2>4
<1> QED
  BY <1>3, <1>4, <1>5

\* A machine's CPUs stop with it and come back with it.
LEMMA OffStep == LockInv /\ [Next]_vars => OffMeansDown'
<1> SUFFICES ASSUME LockInv, [Next]_vars PROVE OffMeansDown'
  OBVIOUS
<1> USE MachineOfProc DEF LockInv, TypeOK, OffMeansDown
<1>1. ASSUME NEW p \in Procs, meta_lock(p) PROVE OffMeansDown'
  BY <1>1 DEF meta_lock, Goto
<1>2. ASSUME NEW p \in Procs, LockStep(p) PROVE OffMeansDown'
  BY <1>2 DEF LockStep, ttas_recover_with_gen, ttas_enter_read, ttas_enter_cas,
              ttas_exit, ttas_lock_recover_read, ttas_lock_recover_cas, Goto
<1>3. ASSUME NEW p \in Procs, recover_meta(p) PROVE OffMeansDown'
  BY <1>3 DEF recover_meta
<1>4. ASSUME NEW p \in Procs, NEW m \in Machines, detect_os_failure(p, m)
      PROVE  OffMeansDown'
  BY <1>4 DEF detect_os_failure, Goto
<1>5. ASSUME NEW h \in Machines, NEW m \in Machines, see_heartbeat(h, m)
      PROVE  OffMeansDown'
  BY <1>5 DEF see_heartbeat
<1>6. ASSUME NEW m \in Machines, Crash(m) PROVE OffMeansDown'
  BY <1>6 DEF Crash
<1>7. CASE UNCHANGED vars
  BY <1>7 DEF vars
<1> QED
  BY <1>1, <1>2, <1>3, <1>4, <1>5, <1>6, <1>7 DEF Next

\* Every CPU in a call keeps a word it signed itself.
LEMMA SignedStep == LockInv /\ [Next]_vars => WordsSigned'
<1> SUFFICES ASSUME LockInv, [Next]_vars, NEW p \in Procs, Active(p)'
             PROVE  /\ val'[p].b = 1 /\ val'[p].owner = p
                    /\ val'[p].gen <= gens'[MachineOf(p)]
  BY DEF WordsSigned
<1>1. /\ gens[MachineOf(p)] \in Nat /\ gens'[MachineOf(p)] \in Nat
      /\ gens'[MachineOf(p)] >= gens[MachineOf(p)]
  BY MachineOfProc, GenerationsGrow
<1>2. CASE Active(p) /\ val'[p] = val[p]
  <2>1. val[p].gen \in Nat
    BY DEF LockInv, TypeOK, LockWord
  <2> QED
    BY <1>1, <1>2, <2>1 DEF LockInv, WordsSigned
<1>3. CASE val'[p] = compose(p, gens'[MachineOf(p)])
  BY <1>1, <1>3 DEF compose
<1> QED
  BY <1>2, <1>3, WordsAreFresh

\* The reboot of a machine stays the business of one of its CPUs, and a helper
\* reads the word before the machine it helps is back.
LEMMA BootStep ==
  ASSUME FalseSuspicion = FALSE
  PROVE  LockInv /\ [Next]_vars => BootsAlone'
<1> SUFFICES ASSUME LockInv, [Next]_vars PROVE BootsAlone'
  OBVIOUS
<1> USE MachineOfProc DEF LockInv, TypeOK, BootsAlone
<1>1. ASSUME NEW p \in Procs, meta_lock(p) PROVE BootsAlone'
  BY <1>1 DEF meta_lock, Goto
<1>2. ASSUME NEW p \in Procs, LockStep(p) PROVE BootsAlone'
  <2>1. CASE ttas_exit(p)
    BY <2>1 DEF ttas_exit, Goto, Forget, OffMeansDown
  <2>2. CASE ttas_lock_recover_read(p)
    BY <2>2 DEF ttas_lock_recover_read, Goto, Forget
  <2>3. CASE ttas_lock_recover_cas(p)
    BY <2>3 DEF ttas_lock_recover_cas, Goto, Forget
  <2>4. CASE ttas_recover_with_gen(p) \/ ttas_enter_read(p) \/ ttas_enter_cas(p)
    BY <2>4 DEF ttas_recover_with_gen, ttas_enter_read, ttas_enter_cas, Goto
  <2> QED
    BY <1>2, <2>1, <2>2, <2>3, <2>4 DEF LockStep
<1>3. ASSUME NEW p \in Procs, recover_meta(p) PROVE BootsAlone'
  BY <1>3 DEF recover_meta, HelpUnderWay, OffMeansDown
<1>4. ASSUME NEW p \in Procs, NEW m \in Machines, detect_os_failure(p, m)
      PROVE  BootsAlone'
  BY <1>4 DEF detect_os_failure, Goto
<1>5. ASSUME NEW h \in Machines, NEW m \in Machines, see_heartbeat(h, m)
      PROVE  BootsAlone'
  BY <1>5 DEF see_heartbeat
<1>6. ASSUME NEW m \in Machines, Crash(m) PROVE BootsAlone'
  BY <1>6 DEF Crash, Forget, CpusOf
<1>7. CASE UNCHANGED vars
  BY <1>7 DEF vars
<1> QED
  BY <1>1, <1>2, <1>3, <1>4, <1>5, <1>6, <1>7 DEF Next

\* Whoever is inside still finds its own word in the lock: the CAS of an
\* entering CPU needs a free lock, that of a recoverer a stale word.
LEMMA HolderStep == LockInv /\ [Next]_vars => HolderOwnsWord'
<1> SUFFICES ASSUME LockInv, [Next]_vars PROVE HolderOwnsWord'
  OBVIOUS
<1> USE MachineOfProc DEF LockInv, TypeOK, HolderOwnsWord
<1>1. ASSUME NEW p \in Procs, meta_lock(p) PROVE HolderOwnsWord'
  BY <1>1 DEF meta_lock, Goto
<1>2. ASSUME NEW p \in Procs, ttas_recover_with_gen(p) PROVE HolderOwnsWord'
  BY <1>2, InsideFacts DEF ttas_recover_with_gen, Goto, NoStaleReentry
<1>3. ASSUME NEW p \in Procs, ttas_enter_read(p) PROVE HolderOwnsWord'
  BY <1>3 DEF ttas_enter_read, Goto
<1>4. ASSUME NEW p \in Procs, ttas_enter_cas(p) PROVE HolderOwnsWord'
  <2>1. val[p] # UNLOCKED
    BY <1>4 DEF ttas_enter_cas, WordsSigned, Active, UNLOCKED
  <2> QED
    BY <1>4, <2>1 DEF ttas_enter_cas, Goto
<1>5. ASSUME NEW p \in Procs, ttas_exit(p) PROVE HolderOwnsWord'
  BY <1>5, InsideFacts DEF ttas_exit, Goto, Forget, MutualExclusion
<1>6. ASSUME NEW p \in Procs, ttas_lock_recover_read(p) PROVE HolderOwnsWord'
  BY <1>6 DEF ttas_lock_recover_read, Goto, Forget
<1>7. ASSUME NEW p \in Procs, ttas_lock_recover_cas(p) PROVE HolderOwnsWord'
  <2>1. CASE csst = exp[p]
    <3>1. val[p] # UNLOCKED
      BY <1>7 DEF ttas_lock_recover_cas, WordsSigned, Active, UNLOCKED
    <3> QED
      BY <1>7, <2>1, <3>1, InsideFacts DEF ttas_lock_recover_cas, Goto
  <2>2. CASE csst # exp[p]
    BY <1>7, <2>2 DEF ttas_lock_recover_cas, Goto, Forget
  <2> QED
    BY <2>1, <2>2
<1>8. ASSUME NEW p \in Procs, recover_meta(p) PROVE HolderOwnsWord'
  BY <1>8 DEF recover_meta, OffMeansDown
<1>9. ASSUME NEW p \in Procs, NEW m \in Machines, detect_os_failure(p, m)
      PROVE  HolderOwnsWord'
  BY <1>9 DEF detect_os_failure, Goto
<1>10. ASSUME NEW h \in Machines, NEW m \in Machines, see_heartbeat(h, m)
       PROVE  HolderOwnsWord'
  BY <1>10 DEF see_heartbeat
<1>11. ASSUME NEW m \in Machines, Crash(m) PROVE HolderOwnsWord'
  BY <1>11 DEF Crash, Forget, CpusOf
<1>12. CASE UNCHANGED vars
  BY <1>12 DEF vars
<1> QED
  BY <1>1, <1>2, <1>3, <1>4, <1>5, <1>6, <1>7, <1>8, <1>9, <1>10, <1>11, <1>12
  DEF Next, LockStep

\* A step that leaves the word alone and does not take its owner out keeps what
\* is known about the word; the others put a live owner's word or UNLOCKED there.
LEMMA AbandonedStep == LockInv /\ [Next]_vars => AbandonedIsStale'
<1> SUFFICES ASSUME LockInv, [Next]_vars PROVE AbandonedIsStale'
  OBVIOUS
<1>0. csst \in LockWord /\ (csst.b = 1 => csst.owner \in Procs)
  BY DEF LockInv, TypeOK, LockWord
<1>a. ASSUME csst' = csst, pc[csst.owner] = "cs" => pc'[csst.owner] = "cs"
      PROVE  AbandonedIsStale'
  <2>1. PICK w \in LockWord : w = csst
    BY <1>0
  <2>2. w.b = 1 \/ w = UNLOCKED
    BY <2>1 DEF LockInv, AbandonedIsStale
  <2>3. ASSUME w.b = 1, pc'[w.owner] # "cs" PROVE Stale(w)'
    <3>1. Stale(w)
      BY <1>a, <2>1, <2>3 DEF LockInv, AbandonedIsStale
    <3> QED
      BY <3>1, StaleForever
  <2> QED
    BY <1>a, <2>1, <2>2, <2>3 DEF AbandonedIsStale, Stale
<1>b. ASSUME NEW p \in Procs, csst' = val[p], pc'[p] = "cs", Active(p)
      PROVE  AbandonedIsStale'
  BY <1>b DEF LockInv, WordsSigned, AbandonedIsStale
<1>c. ASSUME csst' = UNLOCKED PROVE AbandonedIsStale'
  BY <1>c DEF AbandonedIsStale, UNLOCKED
<1> USE DEF LockInv, TypeOK
<1>1. ASSUME NEW p \in Procs, meta_lock(p) PROVE AbandonedIsStale'
  BY <1>1, <1>a, <1>0 DEF meta_lock, Goto, LockWord
<1>2. ASSUME NEW p \in Procs, ttas_recover_with_gen(p) PROVE AbandonedIsStale'
  BY <1>2, <1>a, <1>0 DEF ttas_recover_with_gen, Goto, LockWord
<1>3. ASSUME NEW p \in Procs, ttas_enter_read(p) PROVE AbandonedIsStale'
  BY <1>3, <1>a, <1>0 DEF ttas_enter_read, Goto, LockWord
<1>4. ASSUME NEW p \in Procs, ttas_enter_cas(p) PROVE AbandonedIsStale'
  BY <1>4, <1>a, <1>b, <1>0 DEF ttas_enter_cas, Goto, LockWord, Active
<1>5. ASSUME NEW p \in Procs, ttas_exit(p) PROVE AbandonedIsStale'
  BY <1>5, <1>c DEF ttas_exit
<1>6. ASSUME NEW p \in Procs, ttas_lock_recover_read(p) PROVE AbandonedIsStale'
  BY <1>6, <1>a, <1>0 DEF ttas_lock_recover_read, Goto, LockWord
<1>7. ASSUME NEW p \in Procs, ttas_lock_recover_cas(p) PROVE AbandonedIsStale'
  BY <1>7, <1>a, <1>b, <1>0 DEF ttas_lock_recover_cas, Goto, LockWord, Active
<1>8. ASSUME NEW p \in Procs, recover_meta(p) PROVE AbandonedIsStale'
  BY <1>8, <1>a, <1>0 DEF recover_meta, OffMeansDown, LockWord
<1>9. ASSUME NEW p \in Procs, NEW m \in Machines, detect_os_failure(p, m)
      PROVE  AbandonedIsStale'
  BY <1>9, <1>a, <1>0 DEF detect_os_failure, Goto, LockWord
<1>10. ASSUME NEW h \in Machines, NEW m \in Machines, see_heartbeat(h, m)
       PROVE  AbandonedIsStale'
  BY <1>10, <1>a DEF see_heartbeat
<1>11. ASSUME NEW m \in Machines, Crash(m) PROVE AbandonedIsStale'
  <2>1. CASE pc[csst.owner] = "cs" /\ MachineOf(csst.owner) = m
    <3>1. csst' = csst /\ status'[m] = "down" /\ gens' = gens
      BY <1>11 DEF Crash
    <3>2. csst.gen <= gens[m]
      BY <2>1, <1>0 DEF HolderOwnsWord, WordsSigned, Active, LockWord
    <3> QED
      BY <2>1, <3>1, <3>2 DEF AbandonedIsStale, Stale
  <2>2. CASE ~(pc[csst.owner] = "cs" /\ MachineOf(csst.owner) = m)
    BY <1>11, <2>2, <1>a, <1>0 DEF Crash, LockWord
  <2> QED
    BY <2>1, <2>2
<1>12. CASE UNCHANGED vars
  BY <1>12, <1>a DEF vars
<1> QED
  BY <1>1, <1>2, <1>3, <1>4, <1>5, <1>6, <1>7, <1>8, <1>9, <1>10, <1>11, <1>12
  DEF Next, LockStep

\* What a recoverer has read stays free or stale until its CAS, provided that a
\* detector only ever times out on a machine that is down.
LEMMA ReplacesStep ==
  ASSUME FalseSuspicion = FALSE
  PROVE  LockInv /\ [Next]_vars => ReplacesStale'
<1> SUFFICES ASSUME LockInv, [Next]_vars, NEW p \in Procs, pc'[p] = "rcas"
             PROVE  (exp[p] = UNLOCKED \/ Stale(exp[p]))'
  BY DEF ReplacesStale
<1>a. ASSUME pc[p] = "rcas", exp'[p] = exp[p]
      PROVE  (exp[p] = UNLOCKED \/ Stale(exp[p]))'
  <2>1. PICK w \in LockWord : w = exp[p]
    BY DEF LockInv, TypeOK
  <2>2. w = UNLOCKED \/ Stale(w)
    BY <1>a, <2>1 DEF LockInv, ReplacesStale
  <2>3. w = UNLOCKED \/ Stale(w)'
    BY <2>2, StaleForever
  <2> QED
    BY <1>a, <2>1, <2>3 DEF Stale
<1>b. ASSUME exp'[p] = csst, csst # UNLOCKED => pc[csst.owner] # "cs"
      PROVE  (exp[p] = UNLOCKED \/ Stale(exp[p]))'
  <2>1. PICK w \in LockWord : w = csst
    BY DEF LockInv, TypeOK
  <2>2. w = UNLOCKED \/ Stale(w)
    BY <1>b, <2>1 DEF LockInv, AbandonedIsStale
  <2>3. w = UNLOCKED \/ Stale(w)'
    BY <2>2, StaleForever
  <2> QED
    BY <1>b, <2>1, <2>3 DEF Stale
<1>0. csst.owner \in Procs
  BY DEF LockInv, TypeOK, LockWord
<1> USE MachineOfProc DEF LockInv, TypeOK
<1>1. ASSUME NEW q \in Procs, meta_lock(q) PROVE pc[p] = "rcas" /\ exp'[p] = exp[p]
  BY <1>1 DEF meta_lock, Goto
<1>2. ASSUME NEW q \in Procs, LockStep(q), ~ttas_lock_recover_read(q)
      PROVE  pc[p] = "rcas" /\ exp'[p] = exp[p]
  BY <1>2 DEF LockStep, ttas_recover_with_gen, ttas_enter_read, ttas_enter_cas,
              ttas_exit, ttas_lock_recover_cas, Goto, Forget
<1>3. ASSUME NEW q \in Procs, ttas_lock_recover_read(q)
      PROVE  (exp[p] = UNLOCKED \/ Stale(exp[p]))'
  <2>1. CASE p # q
    BY <1>3, <2>1, <1>a DEF ttas_lock_recover_read, Goto, Forget
  <2>2. CASE p = q
    <3>1. exp'[p] = csst /\ Recoverable(p, csst, old[p]) /\ pc[p] = "rread"
      BY <1>3, <2>2 DEF ttas_lock_recover_read, Goto
    <3>2. csst # UNLOCKED => pc[csst.owner] # "cs"
      BY <3>1, <1>0 DEF Recoverable, BootsAlone, OffMeansDown
    <3> QED
      BY <3>1, <3>2, <1>b
  <2> QED
    BY <2>1, <2>2
<1>4. ASSUME NEW q \in Procs, recover_meta(q) PROVE pc[p] = "rcas" /\ exp'[p] = exp[p]
  BY <1>4 DEF recover_meta
<1>5. ASSUME NEW q \in Procs, NEW m \in Machines, detect_os_failure(q, m)
      PROVE  pc[p] = "rcas" /\ exp'[p] = exp[p]
  BY <1>5 DEF detect_os_failure, Goto
<1>6. ASSUME NEW h \in Machines, NEW m \in Machines, see_heartbeat(h, m)
      PROVE  pc[p] = "rcas" /\ exp'[p] = exp[p]
  BY <1>6 DEF see_heartbeat
<1>7. ASSUME NEW m \in Machines, Crash(m) PROVE pc[p] = "rcas" /\ exp'[p] = exp[p]
  BY <1>7 DEF Crash, Forget, CpusOf
<1>8. CASE UNCHANGED vars
  BY <1>8, <1>a DEF vars
<1> QED
  BY <1>1, <1>2, <1>3, <1>4, <1>5, <1>6, <1>7, <1>8, <1>a DEF Next

\* As long as a replay is due the lock is taken, by a recoverer or by the dead.
LEMMA ReplayStep ==
  LockInv /\ [Next]_vars => ReplayUnderLock' /\ ReplayBeforeUse'
<1> SUFFICES ASSUME LockInv, [Next]_vars, needsReplay'
             PROVE  csst'.b = 1 /\ \A q \in Procs : pc'[q] = "cs" => call'[q] # "op"
  BY DEF ReplayUnderLock, ReplayBeforeUse
<1> DEFINE Goal == csst'.b = 1 /\ \A q \in Procs : pc'[q] = "cs" => call'[q] # "op"
<1> USE MachineOfProc DEF LockInv, TypeOK, ReplayUnderLock, ReplayBeforeUse
<1>1. ASSUME NEW p \in Procs, meta_lock(p) PROVE Goal
  BY <1>1 DEF meta_lock, Goto
<1>2. ASSUME NEW p \in Procs, ttas_recover_with_gen(p) PROVE Goal
  BY <1>2, InsideFacts DEF ttas_recover_with_gen, Goto, NoStaleReentry
<1>3. ASSUME NEW p \in Procs, ttas_enter_read(p) PROVE Goal
  BY <1>3 DEF ttas_enter_read, Goto
<1>4. ASSUME NEW p \in Procs, ttas_enter_cas(p) PROVE Goal
  BY <1>4 DEF ttas_enter_cas, Goto, UNLOCKED
<1>5. ASSUME NEW p \in Procs, ttas_exit(p) PROVE Goal
  BY <1>5 DEF ttas_exit
<1>6. ASSUME NEW p \in Procs, ttas_lock_recover_read(p) PROVE Goal
  BY <1>6 DEF ttas_lock_recover_read, Goto, Forget
<1>7. ASSUME NEW p \in Procs, ttas_lock_recover_cas(p) PROVE Goal
  BY <1>7 DEF ttas_lock_recover_cas, Goto, Forget, BootsAlone, WordsSigned, Active
<1>8. ASSUME NEW p \in Procs, recover_meta(p) PROVE Goal
  BY <1>8 DEF recover_meta, OffMeansDown
<1>9. ASSUME NEW p \in Procs, NEW m \in Machines, detect_os_failure(p, m) PROVE Goal
  BY <1>9 DEF detect_os_failure, Goto
<1>10. ASSUME NEW h \in Machines, NEW m \in Machines, see_heartbeat(h, m) PROVE Goal
  BY <1>10 DEF see_heartbeat
<1>11. ASSUME NEW m \in Machines, Crash(m) PROVE Goal
  <2>1. CASE needsReplay
    BY <1>11, <2>1 DEF Crash, Forget, CpusOf
  <2>2. CASE ~needsReplay
    <3>1. PICK p \in CpusOf(m) : pc[p] = "cs"
      BY <1>11, <2>2 DEF Crash
    <3>2. csst' = csst /\ csst.b = 1
      BY <1>11, <3>1 DEF Crash, HolderOwnsWord, WordsSigned, Active, CpusOf
    <3>3. \A q \in Procs : pc'[q] # "cs"
      BY <1>11, <3>1, InsideFacts DEF Crash, CpusOf, MutualExclusion
    <3> QED
      BY <3>2, <3>3
  <2> QED
    BY <2>1, <2>2
<1>12. CASE UNCHANGED vars
  BY <1>12 DEF vars
<1> QED
  BY <1>1, <1>2, <1>3, <1>4, <1>5, <1>6, <1>7, <1>8, <1>9, <1>10, <1>11, <1>12
  DEF Next, LockStep

-----------------------------------------------------------------------------
\* The invariant of the lock holds at all times, for any number of machines,
\* CPUs, crashes, reboots and helpers, if detectors only suspect dead machines.
THEOREM LockInvariant ==
  ASSUME FalseSuspicion = FALSE
  PROVE  Spec => []LockInv
<1>1. Init => LockInv
  <2> SUFFICES ASSUME Init PROVE LockInv
    OBVIOUS
  <2>1. TypeOK
    BY TypeInit
  <2>2. csst = UNLOCKED /\ csst.b # 1 /\ needsReplay = FALSE
    BY DEF Init, UNLOCKED
  <2>3. \A p \in Procs : pc[p] = "idle" /\ status[MachineOf(p)] = "up"
    BY MachineOfProc DEF Init
  <2> QED
    BY <2>1, <2>2, <2>3
    DEF LockInv, OffMeansDown, WordsSigned, Active, BootsAlone, HolderOwnsWord,
        AbandonedIsStale, ReplacesStale, ReplayUnderLock, ReplayBeforeUse
<1>2. LockInv /\ [Next]_vars => LockInv'
  BY TypeStep, OffStep, SignedStep, BootStep, HolderStep, AbandonedStep,
     ReplacesStep, ReplayStep
  DEF LockInv
<1> QED
  BY <1>1, <1>2, PTL DEF Spec

\* Mutual exclusion of the allocator's critical sections across crashes,
\* reboots and recoveries on behalf of dead machines.
THEOREM Exclusion ==
  ASSUME FalseSuspicion = FALSE
  PROVE  Spec => []MutualExclusion
<1>1. LockInv => MutualExclusion
  BY InsideFacts
<1> QED
  BY <1>1, LockInvariant, PTL

\* Nobody runs an operation on metadata that a dead CPU left half updated
\* (recover_meta, detect_os_failure).
THEOREM RecoveryFirst ==
  ASSUME FalseSuspicion = FALSE
  PROVE  Spec => []ReplayBeforeUse
<1>1. LockInv => ReplayBeforeUse
  BY InsideFacts DEF LockInv
<1> QED
  BY <1>1, LockInvariant, PTL

\* ttas_recover_with_gen never mistakes a word of its machine's earlier life for
\* its own.
THEOREM OwnLifeOnly ==
  ASSUME FalseSuspicion = FALSE
  PROVE  Spec => []NoStaleReentry
<1>1. LockInv => NoStaleReentry
  BY InsideFacts DEF LockInv
<1> QED
  BY <1>1, LockInvariant, PTL

-----------------------------------------------------------------------------
Users == {p \in Procs : pc[p] = "cs" /\ call[p] = "op"}
Recoverers == {p \in Procs : pc[p] = "cs" /\ call[p] # "op"}

\* Each step of the lock is a step of RecoverableLock, or invisible to it.
LEMMA RefinementStep ==
  LockInv /\ [Next]_vars => [Abstract!Next]_(Abstract!avars)
<1> SUFFICES ASSUME LockInv, [Next]_vars
             PROVE  [Abstract!Next]_(Abstract!avars)
  OBVIOUS
<1>a. ASSUME needsReplay' = needsReplay, Users' = Users, Recoverers' = Recoverers
      PROVE  [Abstract!Next]_(Abstract!avars)
  BY <1>a DEF Abstract!avars, Users, Recoverers
<1>b. ASSUME NEW p \in Procs, \A q \in Procs : pc[q] # "cs", pc[p] # "off",
             pc' = [pc EXCEPT ![p] = "cs"], call' = call,
             needsReplay' = needsReplay, call[p] = "op" => ~needsReplay
      PROVE  [Abstract!Next]_(Abstract!avars)
  <2>1. Users = {} /\ Recoverers = {}
    BY <1>b DEF Users, Recoverers
  <2>2. CASE call[p] = "op"
    <3>1. Users' = {p} /\ Recoverers' = {}
      BY <1>b, <2>2 DEF Users, Recoverers, LockInv, TypeOK
    <3>2. Abstract!Enter(p)
      BY <1>b, <2>1, <2>2, <3>1 DEF Abstract!Enter, Abstract!Empty, Users, Recoverers
    <3> QED
      BY <3>2 DEF Abstract!Next
  <2>3. CASE call[p] # "op"
    <3>1. Users' = {} /\ Recoverers' = {p}
      BY <1>b, <2>3 DEF Users, Recoverers, LockInv, TypeOK
    <3>2. Abstract!EnterToRecover(p)
      BY <1>b, <2>1, <3>1 DEF Abstract!EnterToRecover, Abstract!Empty, Users, Recoverers
    <3> QED
      BY <3>2 DEF Abstract!Next
  <2> QED
    BY <2>2, <2>3
<1> USE MachineOfProc DEF LockInv, TypeOK
<1>1. ASSUME NEW p \in Procs, meta_lock(p) PROVE [Abstract!Next]_(Abstract!avars)
  <2>1. Users' = Users /\ Recoverers' = Recoverers
    BY <1>1 DEF meta_lock, Goto, Users, Recoverers
  <2> QED
    BY <1>1, <2>1, <1>a DEF meta_lock
<1>2. ASSUME NEW p \in Procs, ttas_recover_with_gen(p)
      PROVE  [Abstract!Next]_(Abstract!avars)
  <2>1. Users' = Users /\ Recoverers' = Recoverers
    BY <1>2, InsideFacts DEF ttas_recover_with_gen, Goto, Users, Recoverers, NoStaleReentry
  <2> QED
    BY <1>2, <2>1, <1>a DEF ttas_recover_with_gen
<1>3. ASSUME NEW p \in Procs, ttas_enter_read(p)
      PROVE  [Abstract!Next]_(Abstract!avars)
  <2>1. Users' = Users /\ Recoverers' = Recoverers
    BY <1>3 DEF ttas_enter_read, Goto, Users, Recoverers
  <2> QED
    BY <1>3, <2>1, <1>a DEF ttas_enter_read
<1>4. ASSUME NEW p \in Procs, ttas_enter_cas(p)
      PROVE  [Abstract!Next]_(Abstract!avars)
  <2>1. CASE csst = UNLOCKED
    <3>1. (\A q \in Procs : pc[q] # "cs") /\ ~needsReplay
      BY <2>1 DEF HolderOwnsWord, ReplayUnderLock, UNLOCKED
    <3> QED
      BY <1>4, <2>1, <3>1, <1>b DEF ttas_enter_cas, Goto
  <2>2. CASE csst # UNLOCKED
    <3>1. Users' = Users /\ Recoverers' = Recoverers
      BY <1>4, <2>2 DEF ttas_enter_cas, Goto, Users, Recoverers
    <3> QED
      BY <1>4, <3>1, <1>a DEF ttas_enter_cas
  <2> QED
    BY <2>1, <2>2
<1>5. ASSUME NEW p \in Procs, ttas_exit(p) PROVE [Abstract!Next]_(Abstract!avars)
  <2>1. pc[p] = "cs" /\ \A q \in Procs : pc[q] = "cs" => q = p
    BY <1>5, InsideFacts DEF ttas_exit, MutualExclusion
  <2>2. Users' = {} /\ Recoverers' = {}
    BY <1>5, <2>1 DEF ttas_exit, Goto, Users, Recoverers
  <2>3. CASE call[p] = "op"
    <3>1. Users = {p} /\ Recoverers = {}
      BY <2>1, <2>3 DEF Users, Recoverers
    <3>2. needsReplay' = needsReplay
      BY <1>5, <2>3 DEF ttas_exit
    <3>3. Abstract!Leave(p)
      BY <2>2, <3>1, <3>2 DEF Abstract!Leave, Users, Recoverers
    <3> QED
      BY <3>3 DEF Abstract!Next
  <2>4. CASE call[p] # "op"
    <3>1. Users = {} /\ Recoverers = {p}
      BY <2>1, <2>4 DEF Users, Recoverers
    <3>2. needsReplay' = FALSE
      BY <1>5, <2>4 DEF ttas_exit
    <3>3. Abstract!LeaveRecovered(p)
      BY <2>2, <3>1, <3>2 DEF Abstract!LeaveRecovered, Users, Recoverers
    <3> QED
      BY <3>3 DEF Abstract!Next
  <2> QED
    BY <2>3, <2>4
<1>6. ASSUME NEW p \in Procs, ttas_lock_recover_read(p)
      PROVE  [Abstract!Next]_(Abstract!avars)
  <2>1. Users' = Users /\ Recoverers' = Recoverers
    BY <1>6 DEF ttas_lock_recover_read, Goto, Forget, Users, Recoverers
  <2> QED
    BY <1>6, <2>1, <1>a DEF ttas_lock_recover_read
<1>7. ASSUME NEW p \in Procs, ttas_lock_recover_cas(p)
      PROVE  [Abstract!Next]_(Abstract!avars)
  <2>1. CASE csst = exp[p]
    <3>1. pc[p] = "rcas" /\ \A q \in Procs : pc[q] # "cs"
      BY <1>7, <2>1, InsideFacts DEF ttas_lock_recover_cas
    <3>2. call[p] # "op"
      BY <3>1 DEF BootsAlone
    <3>3. pc' = [pc EXCEPT ![p] = "cs"] /\ call' = call /\ needsReplay' = needsReplay
      BY <1>7, <2>1 DEF ttas_lock_recover_cas, Goto
    <3> QED
      BY <3>1, <3>2, <3>3, <1>b
  <2>2. CASE csst # exp[p]
    <3>1. Users' = Users /\ Recoverers' = Recoverers
      BY <1>7, <2>2 DEF ttas_lock_recover_cas, Goto, Forget, Users, Recoverers
    <3> QED
      BY <1>7, <3>1, <1>a DEF ttas_lock_recover_cas
  <2> QED
    BY <2>1, <2>2
<1>8. ASSUME NEW p \in Procs, recover_meta(p) PROVE [Abstract!Next]_(Abstract!avars)
  <2>1. Users' = Users /\ Recoverers' = Recoverers
    BY <1>8 DEF recover_meta, OffMeansDown, Users, Recoverers
  <2> QED
    BY <1>8, <2>1, <1>a DEF recover_meta
<1>9. ASSUME NEW p \in Procs, NEW m \in Machines, detect_os_failure(p, m)
      PROVE  [Abstract!Next]_(Abstract!avars)
  <2>1. Users' = Users /\ Recoverers' = Recoverers
    BY <1>9 DEF detect_os_failure, Goto, Users, Recoverers
  <2> QED
    BY <1>9, <2>1, <1>a DEF detect_os_failure
<1>10. ASSUME NEW h \in Machines, NEW m \in Machines, see_heartbeat(h, m)
       PROVE  [Abstract!Next]_(Abstract!avars)
  BY <1>10, <1>a DEF see_heartbeat, Users, Recoverers
<1>11. ASSUME NEW m \in Machines, Crash(m) PROVE [Abstract!Next]_(Abstract!avars)
  <2>1. CASE \E p \in CpusOf(m) : pc[p] = "cs"
    <3>1. PICK p \in CpusOf(m) : pc[p] = "cs"
      BY <2>1
    <3>2. p \in Procs /\ \A q \in Procs : pc[q] = "cs" => q = p
      BY <3>1, InsideFacts DEF MutualExclusion, CpusOf
    <3>3. Users \cup Recoverers = {p}
      BY <3>1, <3>2 DEF Users, Recoverers
    <3>4. Users' = {} /\ Recoverers' = {}
      BY <1>11, <3>1, <3>2 DEF Crash, CpusOf, Users, Recoverers
    <3>5. needsReplay' = TRUE
      BY <1>11, <2>1 DEF Crash
    <3>6. Abstract!Die(p)
      BY <3>3, <3>4, <3>5 DEF Abstract!Die, Users, Recoverers
    <3> QED
      BY <3>2, <3>6 DEF Abstract!Next
  <2>2. CASE ~\E p \in CpusOf(m) : pc[p] = "cs"
    <3>1. Users' = Users /\ Recoverers' = Recoverers
      BY <1>11, <2>2 DEF Crash, Forget, CpusOf, Users, Recoverers
    <3>2. needsReplay' = needsReplay
      BY <1>11, <2>2 DEF Crash
    <3> QED
      BY <3>1, <3>2, <1>a
  <2> QED
    BY <2>1, <2>2
<1>12. CASE UNCHANGED vars
  BY <1>12, <1>a DEF vars, Users, Recoverers
<1> QED
  BY <1>1, <1>2, <1>3, <1>4, <1>5, <1>6, <1>7, <1>8, <1>9, <1>10, <1>11, <1>12
  DEF Next, LockStep

\* The lock word, the generations, the detectors and the reboots together
\* implement the lock the allocator needs (the refinement a run also checks).
THEOREM Refinement ==
  ASSUME FalseSuspicion = FALSE
  PROVE  Spec => ImplementsRecoverableLock
<1>1. Init => Abstract!Init
  BY DEF Init, Abstract!Init
<1>2. LockInv /\ [Next]_vars => [Abstract!Next]_(Abstract!avars)
  BY RefinementStep
<1> QED
  BY <1>1, <1>2, LockInvariant, PTL DEF Spec, Abstract!Spec, ImplementsRecoverableLock
=============================================================================
