---------------------------- MODULE RedoLogProofs ----------------------------
(***************************************************************************)
(* The redo log makes operations atomic: for any memory, any operations,   *)
(* any size of the log, any number of machines and any number of crashes   *)
(* it implements AtomicStore.                                              *)
(*                                                                         *)
(* What a recovery would do is a function of the log (Logged), and the     *)
(* invariant says what it is at every step: while an operation records,    *)
(* nothing that changes the memory, unless a commit record that was there  *)
(* before happens to fit the whole operation; from the commit on, the      *)
(* operation; and an entry that is executed changes nothing of what the    *)
(* execution of all of them leaves.                                        *)
(***************************************************************************)
EXTENDS RedoLog, SequenceTheorems, WellFoundedInduction, TLAPS

EntrySet == UNION {[S -> Val] : S \in SUBSET Loc}
OpRecords == {OpEntry(e) : e \in EntrySet}

-----------------------------------------------------------------------------
(* Executing entries *)

\* A set of numbers has a smallest one.
LEMMA Smallest ==
  ASSUME NEW T, T \subseteq Nat, T # {}
  PROVE  \E x \in T : \A y \in T : x <= y
<1> DEFINE R == OpToRel(<, Nat)
<1>1. IsWellFoundedOn(R, Nat)
  BY NatLessThanWellFounded
<1>2. \A x, y \in Nat : y < x => <<y, x>> \in R
  BY DEF OpToRel
<1> HIDE DEF R
<1>3. PICK x \in T : \A y \in T : ~ (<<y, x>> \in R)
  BY <1>1, WFMin
<1>4. \A y \in T : ~(y < x)
  BY <1>2, <1>3
<1>5. \A y \in T : x <= y
  BY <1>3, <1>4
<1> QED
  BY <1>3, <1>5

\* The last writer of a location is one.
LEMMA LastWriterIs ==
  ASSUME NEW p \in Seq(EntrySet), NEW l, NEW i \in 1..Len(p), Writes(p, i, l)
  PROVE  /\ LastWriter(p, l) \in 1..Len(p)
         /\ Writes(p, LastWriter(p, l), l)
         /\ \A j \in 1..Len(p) : Writes(p, j, l) => j <= LastWriter(p, l)
<1> DEFINE T == {k \in Nat : \E j \in 1..Len(p) : Writes(p, j, l) /\ k = Len(p) - j}
<1>1. Len(p) \in Nat
  OBVIOUS
<1>2. T \subseteq Nat /\ T # {}
  <2>1. Len(p) - i \in T
    BY <1>1
  <2> QED
    BY <2>1
<1>3. PICK k \in T : \A y \in T : k <= y
  BY <1>2, Smallest
<1>4. PICK j \in 1..Len(p) : Writes(p, j, l) /\ k = Len(p) - j
  BY <1>3
<1>5. ASSUME NEW n \in 1..Len(p), Writes(p, n, l) PROVE n <= j
  <2>1. Len(p) - n \in T
    BY <1>1, <1>5
  <2>2. k <= Len(p) - n
    BY <1>3, <2>1
  <2> QED
    BY <1>1, <1>4, <2>2
<1> HIDE DEF T
<1> QED
  BY <1>4, <1>5 DEF LastWriter

\* Executing nothing.
LEMMA ApplyNothing == ASSUME NEW m \in [Loc -> Val] PROVE Apply(<<>>, m) = m
BY DEF Apply

\* What is written does not depend on what was there.
LEMMA ApplyForgets ==
  ASSUME NEW p \in Seq(EntrySet), NEW m, NEW n, DOMAIN m = Loc, DOMAIN n = Loc,
         \A l \in Loc : (\A i \in 1..Len(p) : l \notin DOMAIN p[i]) => m[l] = n[l]
  PROVE  Apply(p, m) = Apply(p, n)
BY DEF Apply, Writes

\* Execution keeps the type of the memory.
LEMMA ApplyType ==
  ASSUME NEW p \in Seq(EntrySet), NEW m \in [Loc -> Val]
  PROVE  Apply(p, m) \in [Loc -> Val]
<1>1. ASSUME NEW l \in Loc, NEW i \in 1..Len(p), Writes(p, i, l)
      PROVE  p[LastWriter(p, l)][l] \in Val
  <2>1. LastWriter(p, l) \in 1..Len(p) /\ l \in DOMAIN p[LastWriter(p, l)]
    BY <1>1, LastWriterIs DEF Writes
  <2>2. p[LastWriter(p, l)] \in EntrySet
    BY <2>1
  <2> QED
    BY <2>1, <2>2 DEF EntrySet
<1> QED
  BY <1>1 DEF Apply

\* The first n entries have been executed: each location they write has what
\* the last of them wrote there.
Executed(p, n, m) ==
  \A l \in Loc, i \in 1..n :
    l \in DOMAIN p[i] /\ (\A j \in 1..n : l \in DOMAIN p[j] => j <= i) => m[l] = p[i][l]

\* When all have been executed, executing them again changes nothing.
LEMMA ExecutedAll ==
  ASSUME NEW p \in Seq(EntrySet), NEW m \in [Loc -> Val], Executed(p, Len(p), m)
  PROVE  Apply(p, m) = m
<1>1. ASSUME NEW l \in Loc, NEW i \in 1..Len(p), Writes(p, i, l)
      PROVE  p[LastWriter(p, l)][l] = m[l]
  BY <1>1, LastWriterIs DEF Writes, Executed
<1> QED
  BY <1>1 DEF Apply

\* One more entry.
LEMMA ExecutedOne ==
  ASSUME NEW p \in Seq(EntrySet), NEW m \in [Loc -> Val], NEW n \in Nat, n + 1 <= Len(p),
         Executed(p, n, m)
  PROVE  /\ Executed(p, n + 1, Assign(p[n + 1], m))
         /\ Assign(p[n + 1], m) \in [Loc -> Val]
         /\ Apply(p, Assign(p[n + 1], m)) = Apply(p, m)
<1>1. n + 1 \in 1..Len(p) /\ p[n + 1] \in EntrySet
  OBVIOUS
<1>2. Assign(p[n + 1], m) \in [Loc -> Val]
  BY <1>1 DEF Assign, EntrySet
<1>3. \A l \in Loc : l \notin DOMAIN p[n + 1] => Assign(p[n + 1], m)[l] = m[l]
  BY DEF Assign
<1>4. Apply(p, Assign(p[n + 1], m)) = Apply(p, m)
  BY <1>1, <1>2, <1>3, ApplyForgets
<1>5. Executed(p, n + 1, Assign(p[n + 1], m))
  <2> SUFFICES ASSUME NEW l \in Loc, NEW i \in 1 .. n + 1, l \in DOMAIN p[i],
                      \A j \in 1 .. n + 1 : l \in DOMAIN p[j] => j <= i
               PROVE  Assign(p[n + 1], m)[l] = p[i][l]
    BY DEF Executed
  <2>1. CASE l \in DOMAIN p[n + 1]
    <3>1. i = n + 1
      BY <2>1
    <3> QED
      BY <2>1, <3>1 DEF Assign
  <2>2. CASE l \notin DOMAIN p[n + 1]
    <3>1. i \in 1..n /\ \A j \in 1..n : l \in DOMAIN p[j] => j <= i
      BY <2>2
    <3> QED
      BY <1>3, <2>2, <3>1 DEF Executed
  <2> QED
    BY <2>1, <2>2
<1> QED
  BY <1>2, <1>4, <1>5

-----------------------------------------------------------------------------
(* Scanning the log *)

\* A commit record has the checksum of the entries before it, or none yet.
SumOK(sum, n) == sum = NoSum \/ (sum \in Seq(OpRecords) /\ Len(sum) = n)

SlotOK(x, i) ==
  \/ x \in OpRecords \union {EMPTY_LOG_ENTRY, Torn}
  \/ i >= 2 /\ x.tp = "COMMIT" /\ SumOK(x.check_sum, i - 1)

LogOK(lg) ==
  /\ lg = [i \in Slots |-> lg[i]]
  /\ \A i \in Slots : SlotOK(lg[i], i)

\* Every plan leaves room for its commit record.
LEMMA Sizes ==
  ASSUME PlansFit
  PROVE  /\ REDOLOG_ENTRIES \in Nat /\ REDOLOG_ENTRIES > 0
         /\ \A p \in Plans : /\ p \in Seq(EntrySet) /\ Len(p) \in Nat
                            /\ 1 <= Len(p) /\ Len(p) + 1 <= REDOLOG_ENTRIES
         /\ \A i : i \in Slots <=> i \in Nat /\ 1 <= i /\ i <= REDOLOG_ENTRIES
<1>0. REDOLOG_ENTRIES \in Nat \ {0}
  BY Zenon DEF PlansFit
<1>1. REDOLOG_ENTRIES \in Nat /\ REDOLOG_ENTRIES > 0
  BY <1>0
<1>2. \A p \in Plans : p \in Seq(EntrySet) /\ Len(p) \in 1 .. REDOLOG_ENTRIES - 1
  BY DEF PlansFit, EntrySet
<1>3. \A i : i \in Slots <=> i \in Nat /\ 1 <= i /\ i <= REDOLOG_ENTRIES
  BY <1>1 DEF Slots
<1> QED
  BY <1>1, <1>2, <1>3

\* The prefixes of the log.
LEMMA PrefixIs ==
  ASSUME PlansFit, NEW lg, LogOK(lg), NEW n \in 0..REDOLOG_ENTRIES
  PROVE  SubSeq(lg, 1, n) = [i \in 1..n |-> lg[i]] /\ Len(SubSeq(lg, 1, n)) = n
<1> DEFINE R == {lg[i] : i \in Slots}
<1>1. REDOLOG_ENTRIES \in Nat
  BY Sizes
<1>2. lg \in [1..REDOLOG_ENTRIES -> R]
  BY DEF LogOK, Slots
<1> HIDE DEF R
<1>3. lg \in Seq(R) /\ Len(lg) = REDOLOG_ENTRIES
  BY <1>1, <1>2
<1> QED
  BY <1>1, <1>3

\* The kinds of a slot.
LEMMA SlotKinds ==
  /\ \A x \in OpRecords : x.tp = "OP" /\ x.e \in EntrySet
  /\ EMPTY_LOG_ENTRY.tp = "EMPTY" /\ Torn.tp = "TORN"
  /\ \A sum : CommitRecord(sum).tp = "COMMIT" /\ CommitRecord(sum).check_sum = sum
  /\ \A e \in EntrySet : OpEntry(e) \in OpRecords /\ OpEntry(e).e = e
  /\ EMPTY_LOG_ENTRY \notin OpRecords /\ Torn \notin OpRecords
<1>1. \A x \in OpRecords : x.tp = "OP" /\ x.e \in EntrySet
  BY DEF OpRecords, OpEntry
<1>2. EMPTY_LOG_ENTRY.tp = "EMPTY" /\ Torn.tp = "TORN"
  BY DEF EMPTY_LOG_ENTRY, Torn
<1>3. \A sum : CommitRecord(sum).tp = "COMMIT" /\ CommitRecord(sum).check_sum = sum
  BY DEF CommitRecord
<1>4. \A e \in EntrySet : OpEntry(e) \in OpRecords /\ OpEntry(e).e = e
  BY DEF OpRecords, OpEntry
<1>5. EMPTY_LOG_ENTRY \notin OpRecords /\ Torn \notin OpRecords
  BY <1>1, <1>2
<1> QED
  BY <1>1, <1>2, <1>3, <1>4, <1>5

\* A valid commit record at i is the first, and everything before it is an entry.
ValidAt(lg, i) ==
  /\ i >= 2 /\ lg[i].tp = "COMMIT" /\ lg[i].check_sum = SubSeq(lg, 1, i - 1)
  /\ \A j \in 1 .. i - 1 : lg[j] \in OpRecords

LoggedAt(lg, i) == [j \in 1 .. i - 1 |-> lg[j].e]

\* What recover_with_redolog finds: nothing, or the entries before the first
\* commit record.
LEMMA LoggedShape ==
  ASSUME PlansFit
  PROVE  LogOK(log) => \/ Logged = <<>>
                       \/ \E i \in Slots : ValidAt(log, i) /\ Logged = LoggedAt(log, i)
<1> SUFFICES ASSUME LogOK(log), Logged # <<>>
             PROVE  \E i \in Slots : ValidAt(log, i) /\ Logged = LoggedAt(log, i)
  OBVIOUS
<1>1. Scan = "valid"
  BY DEF Logged
<1>2. Commits # {} /\ Commits \subseteq Nat
  BY <1>1 DEF Scan, Commits, Slots
<1>3. FirstCommit \in Commits
  BY <1>2, Smallest DEF FirstCommit
<1> DEFINE f == FirstCommit
<1>4. f \in Slots /\ f \in Nat /\ log[f].tp = "COMMIT" /\ f <= REDOLOG_ENTRIES
  BY <1>3, Sizes DEF Commits
<1>5. log[f].check_sum = SubSeq(log, 1, f - 1)
  BY <1>1, <1>2 DEF Scan, Prefix
<1>6. f >= 2 /\ SumOK(log[f].check_sum, f - 1)
  BY <1>4, SlotKinds DEF LogOK, SlotOK
<1>7. f - 1 \in 0..REDOLOG_ENTRIES
  BY <1>4, <1>6, Sizes
<1>8. /\ SubSeq(log, 1, f - 1) = [i \in 1 .. f - 1 |-> log[i]]
      /\ Len(SubSeq(log, 1, f - 1)) = f - 1
  BY <1>7, PrefixIs
<1>9. log[f].check_sum \in Seq(OpRecords)
  <2>1. Len(NoSum) = 0
    BY DEF NoSum
  <2>2. Len(log[f].check_sum) # 0
    BY <1>4, <1>5, <1>6, <1>8
  <2> QED
    BY <1>6, <2>1, <2>2 DEF SumOK
<1>10. \A j \in 1 .. f - 1 : log[j] \in OpRecords
  <2> SUFFICES ASSUME NEW j \in 1 .. f - 1 PROVE log[j] \in OpRecords
    OBVIOUS
  <2>1. SubSeq(log, 1, f - 1)[j] \in OpRecords
    BY <1>5, <1>8, <1>9
  <2> QED
    BY <1>8, <2>1
<1>11. EntriesOf(Prefix(f - 1)) = LoggedAt(log, f)
  BY <1>4, <1>8 DEF EntriesOf, LoggedAt, Prefix
<1> QED
  BY <1>1, <1>4, <1>5, <1>6, <1>10, <1>11 DEF Logged, ValidAt

\* Conversely, a commit record that fits and is the first one is found.
LEMMA LoggedHere ==
  ASSUME PlansFit
  PROVE  LogOK(log) => \A i \in Slots : ValidAt(log, i) => Logged = LoggedAt(log, i)
<1> SUFFICES ASSUME LogOK(log), NEW i \in Slots, ValidAt(log, i)
             PROVE  Logged = LoggedAt(log, i)
  OBVIOUS
<1>1. i \in Nat /\ i <= REDOLOG_ENTRIES /\ i \in Commits
  BY Sizes DEF ValidAt, Commits
<1>2. \A j \in Commits : i <= j
  <2> SUFFICES ASSUME NEW j \in Commits, j < i PROVE FALSE
    BY <1>1 DEF Commits, Slots
  <2>1. j \in 1 .. i - 1
    BY <1>1 DEF Commits, Slots
  <2> QED
    BY <2>1, SlotKinds DEF ValidAt, Commits
<1>3. FirstCommit = i
  BY <1>1, <1>2 DEF FirstCommit, Commits, Slots
<1>4. Logged = EntriesOf(SubSeq(log, 1, i - 1))
  BY <1>1, <1>3 DEF Logged, Scan, ValidAt, Prefix
<1>5. i - 1 \in 0..REDOLOG_ENTRIES
  BY <1>1, Sizes DEF ValidAt
<1>6. /\ SubSeq(log, 1, i - 1) = [j \in 1 .. i - 1 |-> log[j]]
      /\ Len(SubSeq(log, 1, i - 1)) = i - 1
  BY <1>5, PrefixIs
<1> QED
  BY <1>1, <1>4, <1>6 DEF EntriesOf, LoggedAt

\* A recovery finds entries.
LEMMA LoggedType ==
  ASSUME PlansFit
  PROVE  LogOK(log) => Logged \in Seq(EntrySet)
<1> SUFFICES ASSUME LogOK(log) PROVE Logged \in Seq(EntrySet)
  OBVIOUS
<1>1. ASSUME NEW i \in Slots, ValidAt(log, i) PROVE LoggedAt(log, i) \in Seq(EntrySet)
  <2>1. i - 1 \in Nat
    BY <1>1, Sizes DEF ValidAt
  <2>2. \A j \in 1 .. i - 1 : log[j].e \in EntrySet
    BY <1>1, SlotKinds DEF ValidAt
  <2>3. LoggedAt(log, i) \in [1 .. i - 1 -> EntrySet]
    BY <2>2 DEF LoggedAt
  <2> QED
    BY <2>1, <2>3
<1>2. <<>> \in Seq(EntrySet)
  OBVIOUS
<1> QED
  BY <1>1, <1>2, LoggedShape, Zenon

\* A slot that is empty, torn or not yet summed, with only entries before it.
Blocked(lg, k) ==
  /\ \A j \in 1 .. k - 1 : lg[j] \in OpRecords
  /\ lg[k] \in {EMPTY_LOG_ENTRY, Torn, CommitRecord(NoSum)}

\* Behind such a slot a recovery finds nothing.
LEMMA BlockedFindsNothing ==
  ASSUME PlansFit
  PROVE  LogOK(log) => \A k \in Slots : Blocked(log, k) => Logged = <<>>
<1> SUFFICES ASSUME LogOK(log), NEW k \in Slots, Blocked(log, k)
             PROVE  Logged = <<>>
  OBVIOUS
<1> SUFFICES ASSUME Logged # <<>> PROVE FALSE
  OBVIOUS
<1>0. PICK i \in Slots : ValidAt(log, i)
  BY LoggedShape
<1>1. i \in Nat /\ k \in Nat /\ i >= 2 /\ k >= 1 /\ i <= REDOLOG_ENTRIES /\ REDOLOG_ENTRIES \in Nat
  BY <1>0, Sizes DEF ValidAt
<1>2. log[k] \notin OpRecords
  BY SlotKinds DEF Blocked
<1>3. ~(k < i)
  BY <1>0, <1>1, <1>2 DEF ValidAt
<1>4. ~(i < k)
  <2> SUFFICES ASSUME i < k PROVE FALSE
    OBVIOUS
  <2>1. log[i] \in OpRecords
    BY <1>1 DEF Blocked
  <2> QED
    BY <1>0, <2>1, SlotKinds DEF ValidAt
<1>5. i = k
  BY <1>1, <1>3, <1>4
<1>6. log[k].check_sum = NoSum
  BY <1>0, <1>5, SlotKinds DEF Blocked, ValidAt
<1>7. SubSeq(log, 1, i - 1) = NoSum
  BY <1>0, <1>5, <1>6 DEF ValidAt
<1>8. Len(SubSeq(log, 1, i - 1)) = i - 1
  BY <1>1, PrefixIs
<1>9. Len(NoSum) = 0
  BY DEF NoSum
<1> QED
  BY <1>1, <1>7, <1>8, <1>9

-----------------------------------------------------------------------------
(* Recording over an old log *)

\* The first n slots are the entries of p.
Recorded(lg, p, n) == \A i \in 1..n : lg[i] = OpEntry(p[i])

\* Fresh(p), for what is still to be recorded: from the entry k on.
Covered(lg, p, n) == [i \in Slots |-> IF i <= n THEN OpEntry(p[i]) ELSE lg[i]]

FreshFrom(lg, m, p, k) ==
  \A i \in Slots, n \in k .. Len(p) :
    lg[i].tp = "COMMIT" /\ n < i /\ SubSeq(Covered(lg, p, n), 1, i - 1) = lg[i].check_sum
      => Apply(EntriesOf(lg[i].check_sum), m) = m \/ EntriesOf(lg[i].check_sum) = p

\* An operation begins on a log that is fresh for it.
LEMMA FreshStart == ASSUME NEW p, Fresh(p) PROVE FreshFrom(log, mem, p, 1)
<1>1. \A n : Overlay(p, n) = Covered(log, p, n)
  BY Zenon DEF Overlay, Covered
<1> SUFFICES ASSUME NEW i \in Slots, NEW n \in 1..Len(p), log[i].tp = "COMMIT", n < i,
                    SubSeq(Covered(log, p, n), 1, i - 1) = log[i].check_sum
             PROVE  \/ Apply(EntriesOf(log[i].check_sum), mem) = mem
                    \/ EntriesOf(log[i].check_sum) = p
  BY DEF FreshFrom
<1>2. i \in Commits
  BY DEF Commits
<1>3. SubSeq(Overlay(p, n), 1, i - 1) = log[i].check_sum
  BY <1>1
<1>4. Neutral(log[i].check_sum) \/ EntriesOf(log[i].check_sum) = p
  BY <1>2, <1>3, Zenon DEF Fresh
<1> QED
  BY <1>4 DEF Neutral

\* What is recorded of a plan are entries.
LEMMA RecordedAre ==
  ASSUME PlansFit, NEW p \in Plans, NEW lg, NEW n \in 0..Len(p), Recorded(lg, p, n)
  PROVE  \A i \in 1..n : lg[i] \in OpRecords /\ lg[i].e = p[i]
<1> SUFFICES ASSUME NEW i \in 1..n PROVE lg[i] \in OpRecords /\ lg[i].e = p[i]
  OBVIOUS
<1>1. p \in Seq(EntrySet) /\ i \in 1..Len(p)
  BY Sizes
<1>2. p[i] \in EntrySet
  BY <1>1
<1> QED
  BY <1>2, SlotKinds DEF Recorded

\* After the entry k, before the slot behind it is erased, an old commit record
\* may fit: then it changes nothing, or stands for the whole operation.
LEMMA OldCommitFits ==
  ASSUME PlansFit, LogOK(log), mem \in [Loc -> Val],
         NEW p \in Plans, NEW k \in 1..Len(p), Recorded(log, p, k), FreshFrom(log, mem, p, k)
  PROVE  View = mem \/ Logged = p
<1>1. CASE Logged = <<>>
  BY <1>1, ApplyNothing DEF View
<1>2. CASE \E i \in Slots : ValidAt(log, i) /\ Logged = LoggedAt(log, i)
  <2>1. PICK i \in Slots : ValidAt(log, i) /\ Logged = LoggedAt(log, i)
    BY <1>2
  <2>2. /\ i \in Nat /\ i >= 2 /\ i <= REDOLOG_ENTRIES /\ REDOLOG_ENTRIES \in Nat
        /\ k \in Nat /\ 1 <= k /\ k <= Len(p) /\ Len(p) \in Nat
    BY <2>1, Sizes DEF ValidAt
  <2>3. k < i
    <3> SUFFICES ASSUME i <= k PROVE FALSE
      BY <2>2
    <3>1. log[i] \in OpRecords
      BY <2>2, RecordedAre
    <3> QED
      BY <2>1, <3>1, SlotKinds DEF ValidAt
  <2>4. Covered(log, p, k) = log
    <3>1. \A j \in Slots : j <= k => log[j] = OpEntry(p[j])
      BY <2>2, Sizes DEF Recorded
    <3> QED
      BY <3>1 DEF Covered, LogOK
  <2>5. \/ Apply(EntriesOf(log[i].check_sum), mem) = mem
        \/ EntriesOf(log[i].check_sum) = p
    <3>1. log[i].tp = "COMMIT" /\ SubSeq(Covered(log, p, k), 1, i - 1) = log[i].check_sum
      BY <2>1, <2>4 DEF ValidAt
    <3>2. k \in k .. Len(p)
      BY <2>2
    <3> QED
      BY <2>3, <3>1, <3>2, Zenon DEF FreshFrom
  <2>6. /\ SubSeq(log, 1, i - 1) = [j \in 1 .. i - 1 |-> log[j]]
        /\ Len(SubSeq(log, 1, i - 1)) = i - 1
    BY <2>2, PrefixIs
  <2>7. EntriesOf(log[i].check_sum) = Logged
    BY <2>1, <2>2, <2>6 DEF EntriesOf, LoggedAt, ValidAt
  <2> QED
    BY <2>5, <2>7 DEF View
<1> QED
  BY <1>1, <1>2, LoggedShape

\* One slot is written.
LEMMA LogWrite ==
  ASSUME LogOK(log), NEW q \in Slots, NEW x, SlotOK(x, q), log' = [log EXCEPT ![q] = x]
  PROVE  LogOK(log') /\ log'[q] = x /\ \A i \in Slots : i # q => log'[i] = log[i]
<1>1. log'[q] = x /\ \A i \in Slots : i # q => log'[i] = log[i]
  BY DEF LogOK
<1>2. log' = [i \in Slots |-> log'[i]]
  BY DEF LogOK
<1>3. \A i \in Slots : SlotOK(log'[i], i)
  BY <1>1, Zenon DEF LogOK
<1> QED
  BY <1>1, <1>2, <1>3 DEF LogOK

\* What is written among the first k slots does not spoil what is fresh from k.
LEMMA FreshKept ==
  ASSUME PlansFit, NEW p \in Plans, NEW m, NEW q \in Slots, NEW k \in Nat, q <= k,
         log'[q].tp # "COMMIT", \A i \in Slots : i # q => log'[i] = log[i],
         FreshFrom(log, m, p, k)
  PROVE  FreshFrom(log', m, p, k)
<1>1. \A n \in k .. Len(p) : Covered(log', p, n) = Covered(log, p, n)
  <2> SUFFICES ASSUME NEW n \in k .. Len(p) PROVE Covered(log', p, n) = Covered(log, p, n)
    OBVIOUS
  <2>1. \A i \in Slots : ~(i <= n) => log'[i] = log[i]
    BY Sizes
  <2> QED
    BY <2>1 DEF Covered
<1> SUFFICES ASSUME NEW i \in Slots, NEW n \in k .. Len(p), log'[i].tp = "COMMIT", n < i,
                    SubSeq(Covered(log', p, n), 1, i - 1) = log'[i].check_sum
             PROVE  \/ Apply(EntriesOf(log'[i].check_sum), m) = m
                    \/ EntriesOf(log'[i].check_sum) = p
  BY Zenon DEF FreshFrom
<1>2. log'[i] = log[i]
  OBVIOUS
<1>3. SubSeq(Covered(log, p, n), 1, i - 1) = log[i].check_sum
  BY <1>1, <1>2
<1> QED
  BY <1>2, <1>3, Zenon DEF FreshFrom

\* A log that is not written is read the same.
LEMMA SameLog == ASSUME log' = log PROVE Logged' = Logged /\ (mem' = mem => View' = View)
BY DEF Logged, Scan, Commits, FirstCommit, Prefix, View

-----------------------------------------------------------------------------
(* The inductive invariant: what a recovery would find, at every label *)

EntryOK ==
  /\ plan \in Plans
  /\ pos \in 1 .. Len(plan)
  /\ Recorded(log, plan, pos - 1)
  /\ FreshFrom(log, mem, plan, pos)
  /\ IF pos = 1 THEN View = mem ELSE log[pos] = EMPTY_LOG_ENTRY

EraseOK ==
  /\ plan \in Plans
  /\ pos \in 2 .. Len(plan) + 1
  /\ Recorded(log, plan, pos - 1)
  /\ FreshFrom(log, mem, plan, pos - 1)

CommitOK(x) ==
  /\ plan \in Plans
  /\ pos = Len(plan) + 1
  /\ Recorded(log, plan, pos - 1)
  /\ log[pos] = x

LastOK ==
  /\ plan \in Plans
  /\ pos = Len(plan) + 2
  /\ Recorded(log, plan, pos - 2)
  /\ ValidAt(log, pos - 1)

ExecOK ==
  /\ plan = Logged
  /\ pos \in 1 .. Len(plan) + 1
  /\ Executed(plan, pos - 1, mem)

LogInv ==
  /\ mem \in [Loc -> Val]
  /\ LogOK(log)
  /\ pc \in Labels
  /\ Lock!Empty => pc = "out"
  /\ QuiescentView
  /\ pc = "entry" => EntryOK
  /\ pc = "erase" => EraseOK
  /\ pc = "commit" => CommitOK(EMPTY_LOG_ENTRY)
  /\ pc = "checksum" => CommitOK(CommitRecord(NoSum))
  /\ pc = "eraselast" => LastOK
  /\ pc = "exec" => ExecOK
  /\ pc = "failed" => Logged = <<>>

Implements == [Abstract!Next]_(Abstract!vars)

\* From the commit on a recovery finds the operation.
LEMMA LastFinds == ASSUME PlansFit PROVE LogOK(log) /\ LastOK => Logged = plan
<1> SUFFICES ASSUME LogOK(log), LastOK PROVE Logged = plan
  OBVIOUS
<1>1. /\ plan \in Plans /\ plan \in Seq(EntrySet) /\ Len(plan) \in Nat
      /\ pos - 1 = Len(plan) + 1 /\ pos - 2 = Len(plan) /\ pos - 1 \in Slots
  BY Sizes DEF LastOK
<1>2. Logged = LoggedAt(log, pos - 1)
  BY <1>1, LoggedHere DEF LastOK
<1>3. \A i \in 1..Len(plan) : log[i].e = plan[i]
  BY <1>1, RecordedAre DEF LastOK
<1>4. LoggedAt(log, pos - 1) = [j \in 1..Len(plan) |-> plan[j]]
  BY <1>1, <1>3 DEF LoggedAt
<1>5. plan = [j \in 1..Len(plan) |-> plan[j]]
  BY <1>1
<1> QED
  BY <1>2, <1>4, <1>5

\* The steps of the abstract store.
LEMMA StoreSteps ==
  /\ Recording /\ Recording' /\ mem' = mem /\ plan' = plan => Implements
  /\ ~Recording /\ ~Recording' /\ View' = View => Implements
  /\ Recording /\ ~Recording' /\ plan # <<>> /\ View' = Apply(plan, mem) => Implements
  /\ Recording /\ ~Recording' /\ plan # <<>> /\ View' = mem => Implements
  /\ ~Recording /\ Recording' /\ plan' \in Plans /\ mem' = View => Implements
<1>1. Recording /\ Recording' /\ mem' = mem /\ plan' = plan => Implements
  BY DEF Implements, Abstract!vars
<1>2. ~Recording /\ ~Recording' /\ View' = View => Implements
  BY DEF Implements, Abstract!vars
<1>3. Recording /\ ~Recording' /\ plan # <<>> /\ View' = Apply(plan, mem) => Implements
  <2>1. Abstract!Apply(plan, mem) = Apply(plan, mem)
    BY DEF Abstract!Apply, Abstract!Writes, Abstract!LastWriter, Apply, Writes, LastWriter
  <2> QED
    BY <2>1 DEF Implements, Abstract!Next, Abstract!Commit
<1>4. Recording /\ ~Recording' /\ plan # <<>> /\ View' = mem => Implements
  BY DEF Implements, Abstract!Next, Abstract!Abort
<1>5. ~Recording /\ Recording' /\ plan' \in Plans /\ mem' = View => Implements
  BY DEF Implements, Abstract!Next, Abstract!Begin
<1> QED
  BY <1>1, <1>2, <1>3, <1>4, <1>5

-----------------------------------------------------------------------------
(* Every step keeps the invariant and is a step of the abstract store *)

\* An operation begins on metadata from which nothing is missing.
LEMMA BeginStep ==
  ASSUME PlansFit, LogInv, NEW m \in Machines, NEW p \in Plans, Fresh(p), Begin(m, p)
  PROVE  LogInv' /\ Implements
<1>1. /\ pc = "out" /\ View = mem /\ ~Lock!Empty' /\ pc' = "entry" /\ plan' = p /\ pos' = 1
      /\ mem' = mem /\ log' = log
  BY DEF Begin, Lock!Enter, Lock!Empty, LogInv, QuiescentView
<1>2. View' = View
  BY <1>1, SameLog
<1>3. 1 \in 1 .. Len(p) /\ p \in Plans
  BY Sizes
<1>4. FreshFrom(log, mem, p, 1)
  BY FreshStart
<1>5. Recorded(log, p, 1 - 1)
  BY DEF Recorded
<1>6. EntryOK'
  BY <1>1, <1>2, <1>3, <1>4, <1>5 DEF EntryOK
<1>7. LogInv'
  BY <1>1, <1>6 DEF LogInv, QuiescentView, Labels
<1>8. Implements
  BY <1>1, <1>3, StoreSteps DEF Recording
<1> QED
  BY <1>7, <1>8

\* set_log_entry overwrites the slot at which an old log stopped being valid.
LEMMA EntryStep ==
  ASSUME PlansFit, LogInv, set_log_entry
  PROVE  LogInv' /\ Implements
<1>1. /\ pc = "entry" /\ pc' = "erase" /\ pos' = pos + 1 /\ plan' = plan /\ mem' = mem
      /\ log' = [log EXCEPT ![pos] = OpEntry(plan[pos])]
      /\ ~Lock!Empty' /\ EntryOK /\ LogOK(log) /\ mem \in [Loc -> Val]
  BY DEF set_log_entry, LogInv, lockVars, Lock!Empty
<1>2. /\ plan \in Plans /\ plan \in Seq(EntrySet) /\ Len(plan) \in Nat /\ pos \in Nat /\ pos >= 1
      /\ pos <= Len(plan) /\ pos \in Slots
  BY <1>1, Sizes DEF EntryOK
<1>3. plan[pos] \in EntrySet
  BY <1>2
<1>4. OpEntry(plan[pos]) \in OpRecords /\ SlotOK(OpEntry(plan[pos]), pos)
  BY <1>3, SlotKinds DEF SlotOK
<1>5. /\ LogOK(log') /\ log'[pos] = OpEntry(plan[pos])
      /\ \A i \in Slots : i # pos => log'[i] = log[i]
  BY <1>1, <1>2, <1>4, LogWrite
<1>6. log'[pos].tp # "COMMIT"
  BY <1>4, <1>5, SlotKinds
<1>7. FreshFrom(log', mem, plan, pos)
  <2>1. pos <= pos /\ FreshFrom(log, mem, plan, pos)
    BY <1>1, <1>2 DEF EntryOK
  <2> QED
    BY <1>2, <1>5, <1>6, <2>1, FreshKept, Zenon
<1>8. Recorded(log', plan, pos)
  <2> SUFFICES ASSUME NEW i \in 1..pos PROVE log'[i] = OpEntry(plan[i])
    BY DEF Recorded
  <2>1. CASE i = pos
    BY <1>5, <2>1
  <2>2. CASE i # pos
    <3>1. i \in 1 .. pos - 1 /\ i \in Slots
      BY <1>2, <2>2, Sizes
    <3> QED
      BY <1>1, <1>5, <2>2, <3>1 DEF EntryOK, Recorded
  <2> QED
    BY <2>1, <2>2
<1>9. EraseOK'
  <2>1. pos' - 1 = pos /\ pos' \in 2 .. Len(plan) + 1
    BY <1>1, <1>2
  <2> QED
    BY <1>1, <1>2, <1>7, <1>8, <2>1 DEF EraseOK
<1>10. LogInv'
  BY <1>1, <1>5, <1>9 DEF LogInv, QuiescentView, Labels
<1>11. Implements
  BY <1>1, StoreSteps DEF Recording
<1> QED
  BY <1>10, <1>11

\* Erasing the slot behind an entry: no old commit record beyond it counts.
LEMMA EraseStep ==
  ASSUME PlansFit, LogInv, erase_next, pc = "erase"
  PROVE  LogInv' /\ Implements
<1>1. /\ pc' = (IF pos <= Len(plan) THEN "entry" ELSE "commit")
      /\ pos' = pos /\ plan' = plan /\ mem' = mem
      /\ ~Lock!Empty' /\ EraseOK /\ LogOK(log) /\ mem \in [Loc -> Val]
  BY DEF erase_next, LogInv, lockVars, Lock!Empty
<1>2. /\ plan \in Plans /\ Len(plan) \in Nat /\ pos \in Nat /\ pos >= 2
      /\ pos <= Len(plan) + 1 /\ pos \in Slots
  BY <1>1, Sizes DEF EraseOK
<1>3. log' = [log EXCEPT ![pos] = EMPTY_LOG_ENTRY]
  BY <1>2 DEF erase_next
<1>4. SlotOK(EMPTY_LOG_ENTRY, pos)
  BY DEF SlotOK
<1>5. /\ LogOK(log') /\ log'[pos] = EMPTY_LOG_ENTRY
      /\ \A i \in Slots : i # pos => log'[i] = log[i]
  BY <1>1, <1>2, <1>3, <1>4, LogWrite
<1>6. Recorded(log', plan, pos - 1)
  <2> SUFFICES ASSUME NEW i \in 1 .. pos - 1 PROVE log'[i] = OpEntry(plan[i])
    BY DEF Recorded
  <2>1. i \in Slots /\ i # pos
    BY <1>2, Sizes
  <2> QED
    BY <1>1, <1>5, <2>1 DEF EraseOK, Recorded
<1>7. FreshFrom(log', mem, plan, pos)
  <2>1. FreshFrom(log, mem, plan, pos)
    <3>1. FreshFrom(log, mem, plan, pos - 1)
      BY <1>1 DEF EraseOK
    <3>2. \A n \in pos .. Len(plan) : n \in pos - 1 .. Len(plan)
      BY <1>2
    <3> QED
      BY <3>1, <3>2, Zenon DEF FreshFrom
  <2>2. pos <= pos /\ log'[pos].tp # "COMMIT"
    BY <1>2, <1>5, SlotKinds
  <2> QED
    BY <1>2, <1>5, <2>1, <2>2, FreshKept, Zenon
<1>8. CASE pos <= Len(plan)
  <2>1. EntryOK'
    BY <1>1, <1>2, <1>5, <1>6, <1>7, <1>8 DEF EntryOK
  <2> QED
    BY <1>1, <1>5, <1>8, <2>1, StoreSteps DEF LogInv, QuiescentView, Labels, Recording
<1>9. CASE ~(pos <= Len(plan))
  <2>1. CommitOK(EMPTY_LOG_ENTRY)'
    BY <1>1, <1>2, <1>5, <1>6, <1>9 DEF CommitOK, EMPTY_LOG_ENTRY
  <2> QED
    BY <1>1, <1>5, <1>9, <2>1, StoreSteps DEF LogInv, QuiescentView, Labels, Recording
<1> QED
  BY <1>8, <1>9

\* set_commit_log_entry writes the type: the record has no sum yet.
LEMMA CommitTypeStep ==
  ASSUME PlansFit, LogInv, set_commit_type
  PROVE  LogInv' /\ Implements
<1>1. /\ pc = "commit" /\ pc' = "checksum" /\ pos' = pos /\ plan' = plan /\ mem' = mem
      /\ log' = [log EXCEPT ![pos] = CommitRecord(NoSum)]
      /\ ~Lock!Empty' /\ CommitOK(EMPTY_LOG_ENTRY) /\ LogOK(log) /\ mem \in [Loc -> Val]
  BY DEF set_commit_type, LogInv, lockVars, Lock!Empty
<1>2. /\ plan \in Plans /\ Len(plan) \in Nat /\ pos \in Nat /\ pos >= 2
      /\ pos = Len(plan) + 1 /\ pos \in Slots
  BY <1>1, Sizes DEF CommitOK
<1>3. SlotOK(CommitRecord(NoSum), pos)
  BY <1>2, SlotKinds DEF SlotOK, SumOK
<1>4. /\ LogOK(log') /\ log'[pos] = CommitRecord(NoSum)
      /\ \A i \in Slots : i # pos => log'[i] = log[i]
  BY <1>1, <1>2, <1>3, LogWrite
<1>5. Recorded(log', plan, pos - 1)
  <2> SUFFICES ASSUME NEW i \in 1 .. pos - 1 PROVE log'[i] = OpEntry(plan[i])
    BY DEF Recorded
  <2>1. i \in Slots /\ i # pos
    BY <1>2, Sizes
  <2> QED
    BY <1>1, <1>4, <2>1 DEF CommitOK, Recorded
<1>6. CommitOK(CommitRecord(NoSum))'
  BY <1>1, <1>2, <1>4, <1>5 DEF CommitOK, CommitRecord, NoSum
<1>7. LogInv'
  BY <1>1, <1>4, <1>6 DEF LogInv, QuiescentView, Labels
<1>8. Implements
  BY <1>1, StoreSteps DEF Recording
<1> QED
  BY <1>7, <1>8

\* The facts on what a recovery finds, after a step.
LEMMA FoundNext ==
  ASSUME PlansFit
  PROVE  /\ (LogOK(log) /\ LastOK => Logged = plan)'
         /\ (LogOK(log) => \A i \in Slots : ValidAt(log, i) => Logged = LoggedAt(log, i))'
         /\ (LogOK(log) => Logged \in Seq(EntrySet))'
         /\ (LogOK(log) => \A k \in Slots : Blocked(log, k) => Logged = <<>>)'
<1>1. LogOK(log) /\ LastOK => Logged = plan
  BY LastFinds
<1>2. LogOK(log) => Logged \in Seq(EntrySet)
  BY LoggedType
<1>3. LogOK(log) => \A k \in Slots : Blocked(log, k) => Logged = <<>>
  BY BlockedFindsNothing
<1>4. LogOK(log) => \A i \in Slots : ValidAt(log, i) => Logged = LoggedAt(log, i)
  BY LoggedHere
<1> QED
  BY <1>1, <1>2, <1>3, <1>4, PTL

\* The checksum of the commit record commits the operation.
LEMMA ChecksumStep ==
  ASSUME PlansFit, LogInv, set_commit_checksum
  PROVE  LogInv' /\ Implements
<1>1. /\ pc = "checksum" /\ pc' = "eraselast" /\ pos' = pos + 1 /\ plan' = plan /\ mem' = mem
      /\ log' = [log EXCEPT ![pos] = CommitRecord(SubSeq(log, 1, pos - 1))]
      /\ ~Lock!Empty' /\ CommitOK(CommitRecord(NoSum)) /\ LogOK(log) /\ mem \in [Loc -> Val]
  BY DEF set_commit_checksum, LogInv, lockVars, Lock!Empty, Prefix
<1>2. /\ plan \in Plans /\ Len(plan) \in Nat /\ pos \in Nat /\ pos >= 2
      /\ pos = Len(plan) + 1 /\ pos \in Slots /\ pos - 1 \in 0..REDOLOG_ENTRIES
      /\ Recorded(log, plan, pos - 1) /\ pos - 1 \in 0 .. Len(plan)
  BY <1>1, Sizes DEF CommitOK
<1> DEFINE sum == SubSeq(log, 1, pos - 1)
<1>3. sum = [i \in 1 .. pos - 1 |-> log[i]] /\ Len(sum) = pos - 1
  BY <1>1, <1>2, PrefixIs
<1>3a. /\ log' = [log EXCEPT ![pos] = CommitRecord(sum)]
       /\ sum = SubSeq(log, 1, pos - 1)
  BY <1>1
<1> HIDE DEF sum
<1>4. \A i \in 1 .. pos - 1 : log[i] \in OpRecords
  BY <1>2, RecordedAre
<1>5. sum \in Seq(OpRecords)
  <2>1. sum \in [1 .. pos - 1 -> OpRecords] /\ pos - 1 \in Nat
    BY <1>2, <1>3, <1>4
  <2> QED
    BY <2>1
<1>6. SlotOK(CommitRecord(sum), pos)
  BY <1>2, <1>3, <1>5, SlotKinds DEF SlotOK, SumOK
<1>7. /\ LogOK(log') /\ log'[pos] = CommitRecord(sum)
      /\ \A i \in Slots : i # pos => log'[i] = log[i]
  BY <1>1, <1>2, <1>3a, <1>6, LogWrite
<1>8. \A i \in 1 .. pos - 1 : i \in Slots /\ log'[i] = log[i]
  BY <1>2, <1>7, Sizes
<1>9. SubSeq(log', 1, pos - 1) = sum
  <2>1. SubSeq(log', 1, pos - 1) = [i \in 1 .. pos - 1 |-> log'[i]]
    BY <1>2, <1>7, PrefixIs
  <2> QED
    BY <1>3, <1>8, <2>1
<1>10. ValidAt(log', pos)
  BY <1>2, <1>4, <1>7, <1>8, <1>9, SlotKinds DEF ValidAt
<1>11. Recorded(log', plan, pos - 1)
  BY <1>2, <1>8 DEF Recorded
<1>12. LastOK'
  <2>1. pos' - 1 = pos /\ pos' - 2 = pos - 1 /\ pos' = Len(plan) + 2
    BY <1>1, <1>2
  <2> QED
    BY <1>1, <1>2, <1>10, <1>11, <2>1 DEF LastOK
<1>13. Logged' = plan
  BY <1>1, <1>7, <1>12, FoundNext
<1>14. LogInv'
  BY <1>1, <1>7, <1>12 DEF LogInv, QuiescentView, Labels
<1>15. plan # <<>>
  BY <1>2
<1>16. View' = Apply(plan, mem)
  BY <1>1, <1>13 DEF View
<1>17. Implements
  BY <1>1, <1>15, <1>16, StoreSteps DEF Recording
<1> QED
  BY <1>14, <1>17

\* Erasing the slot behind the commit record.
LEMMA EraseLastStep ==
  ASSUME PlansFit, LogInv, erase_next, pc = "eraselast"
  PROVE  LogInv' /\ Implements
<1>1. /\ pc' = "exec" /\ pos' = 1 /\ plan' = plan /\ mem' = mem
      /\ ~Lock!Empty' /\ LastOK /\ LogOK(log) /\ mem \in [Loc -> Val]
  BY DEF erase_next, LogInv, lockVars, Lock!Empty
<1>2. /\ plan \in Plans /\ plan \in Seq(EntrySet) /\ Len(plan) \in Nat /\ Len(plan) >= 1
      /\ pos = Len(plan) + 2 /\ pos - 1 \in Slots /\ pos \in Nat
      /\ pos - 1 = Len(plan) + 1 /\ pos - 2 = Len(plan)
      /\ Recorded(log, plan, Len(plan)) /\ ValidAt(log, Len(plan) + 1)
  BY <1>1, Sizes DEF LastOK
<1>3. /\ LogOK(log')
      /\ \A i \in Slots : i # pos => log'[i] = log[i]
  <2>1. CASE pos \in Slots
    <3>1. log' = [log EXCEPT ![pos] = EMPTY_LOG_ENTRY] /\ SlotOK(EMPTY_LOG_ENTRY, pos)
      BY <2>1 DEF erase_next, SlotOK
    <3> QED
      BY <1>1, <2>1, <3>1, LogWrite
  <2>2. CASE pos \notin Slots
    BY <1>1, <2>2 DEF erase_next
  <2> QED
    BY <2>1, <2>2
<1>4. \A i \in 1 .. Len(plan) + 1 : i \in Slots /\ log'[i] = log[i]
  BY <1>2, <1>3, Sizes
<1> DEFINE c == Len(plan) + 1
<1>5. SubSeq(log', 1, c - 1) = SubSeq(log, 1, c - 1)
  <2>1. c - 1 \in 0..REDOLOG_ENTRIES /\ c - 1 = Len(plan)
    BY <1>2, Sizes
  <2>2. SubSeq(log', 1, c - 1) = [i \in 1 .. c - 1 |-> log'[i]]
    BY <1>3, <2>1, PrefixIs
  <2>3. SubSeq(log, 1, c - 1) = [i \in 1 .. c - 1 |-> log[i]]
    BY <1>1, <2>1, PrefixIs
  <2>4. \A i \in 1 .. c - 1 : log'[i] = log[i]
    BY <1>2, <1>4
  <2> QED
    BY <2>2, <2>3, <2>4
<1>6. ValidAt(log', c)
  <2>1. c \in 1 .. Len(plan) + 1 /\ \A i \in 1 .. c - 1 : i \in 1 .. Len(plan) + 1
    BY <1>2
  <2> QED
    BY <1>2, <1>4, <1>5, <2>1 DEF ValidAt
<1>7. Logged = plan
  BY <1>1, LastFinds
<1>8. Logged' = plan
  <2>1. Logged' = LoggedAt(log', c)
    BY <1>2, <1>3, <1>6, FoundNext
  <2>2. Logged = LoggedAt(log, c)
    BY <1>1, <1>2, LoggedHere
  <2>3. LoggedAt(log', c) = LoggedAt(log, c)
    BY <1>2, <1>4 DEF LoggedAt
  <2> QED
    BY <1>7, <2>1, <2>2, <2>3
<1>9. ExecOK'
  <2>1. Executed(plan, 1 - 1, mem)
    BY DEF Executed
  <2> QED
    BY <1>1, <1>2, <1>8, <2>1 DEF ExecOK
<1>10. LogInv'
  BY <1>1, <1>3, <1>9 DEF LogInv, QuiescentView, Labels
<1>11. View' = View
  BY <1>1, <1>7, <1>8 DEF View
<1>12. Implements
  BY <1>1, <1>11, StoreSteps DEF Recording
<1> QED
  BY <1>10, <1>12

\* An entry is executed: what executing all of them leaves stays the same.
LEMMA ExecuteStep ==
  ASSUME PlansFit, LogInv, execute_log
  PROVE  LogInv' /\ Implements
<1>1. /\ pc = "exec" /\ pc' = "exec" /\ pos' = pos + 1 /\ plan' = plan /\ log' = log
      /\ mem' = Assign(plan[pos], mem) /\ pos <= Len(plan)
      /\ ~Lock!Empty' /\ ExecOK /\ LogOK(log) /\ mem \in [Loc -> Val]
  BY DEF execute_log, LogInv, lockVars, Lock!Empty
<1>2. plan = Logged /\ Logged' = Logged /\ plan \in Seq(EntrySet) /\ Len(plan) \in Nat
  BY <1>1, SameLog, LoggedType DEF ExecOK
<1>3. pos - 1 \in Nat /\ (pos - 1) + 1 = pos /\ (pos + 1) - 1 = pos /\ pos + 1 \in 1 .. Len(plan) + 1
  BY <1>1, <1>2 DEF ExecOK
<1>4. /\ Executed(plan, pos, mem') /\ mem' \in [Loc -> Val]
      /\ Apply(plan, mem') = Apply(plan, mem)
  <2> DEFINE n == pos - 1
  <2>1. n \in Nat /\ n + 1 = pos /\ n + 1 <= Len(plan) /\ Executed(plan, n, mem)
    BY <1>1, <1>3 DEF ExecOK
  <2> HIDE DEF n
  <2> QED
    BY <1>1, <1>2, <2>1, ExecutedOne
<1>5. ExecOK'
  BY <1>1, <1>2, <1>3, <1>4 DEF ExecOK
<1>6. LogInv'
  BY <1>1, <1>4, <1>5 DEF LogInv, QuiescentView, Labels
<1>7. View' = View
  BY <1>2, <1>4 DEF View
<1>8. Implements
  BY <1>1, <1>7, StoreSteps DEF Recording
<1> QED
  BY <1>6, <1>8

\* meta_unlock: nothing is missing in the metadata.
LEMMA UnlockStep ==
  ASSUME PlansFit, LogInv, NEW m \in Machines, Unlock(m)
  PROVE  LogInv' /\ Implements
<1>1. /\ (pc = "exec" /\ pos > Len(plan)) \/ pc = "failed"
      /\ pc' = "out" /\ mem' = mem /\ log' = log /\ LogOK(log) /\ mem \in [Loc -> Val]
      /\ pc = "exec" => ExecOK
      /\ pc = "failed" => Logged = <<>>
  BY DEF Unlock, LogInv
<1>2. View = mem
  <2>1. CASE pc = "exec" /\ pos > Len(plan)
    <3>1. plan = Logged /\ plan \in Seq(EntrySet) /\ Len(plan) \in Nat
      BY <1>1, <2>1, LoggedType DEF ExecOK
    <3>2. pos - 1 = Len(plan) /\ Executed(plan, pos - 1, mem)
      BY <1>1, <2>1, <3>1 DEF ExecOK
    <3> QED
      BY <1>1, <3>1, <3>2, ExecutedAll DEF View
  <2>2. CASE pc = "failed"
    BY <1>1, <2>2, ApplyNothing DEF View
  <2> QED
    BY <1>1, <2>1, <2>2
<1>3. View' = View
  BY <1>1, SameLog
<1>4. LogInv'
  BY <1>1, <1>2, <1>3 DEF LogInv, QuiescentView, Labels
<1>5. Implements
  BY <1>1, <1>3, StoreSteps DEF Recording
<1> QED
  BY <1>4, <1>5

\* recover_with_redolog starts to execute what the log holds.
LEMMA RecoverStep ==
  ASSUME PlansFit, LogInv, NEW m \in Machines, recover_with_redolog(m)
  PROVE  LogInv' /\ Implements
<1>1. /\ pc = "out" /\ plan' = Logged /\ pos' = 1 /\ mem' = mem /\ log' = log
      /\ pc' = (IF Scan = "malformed" THEN "failed" ELSE "exec")
      /\ ~Lock!Empty' /\ LogOK(log) /\ mem \in [Loc -> Val]
  BY DEF recover_with_redolog, LogInv, Lock!EnterToRecover, Lock!Empty
<1>2. Logged' = Logged /\ View' = View /\ Logged \in Seq(EntrySet) /\ Len(Logged) \in Nat
  BY <1>1, SameLog, LoggedType
<1>3. Scan = "malformed" => Logged = <<>>
  BY DEF Logged
<1>4. Executed(Logged, 1 - 1, mem)
  BY DEF Executed
<1>5. ExecOK'
  BY <1>1, <1>2, <1>4 DEF ExecOK
<1>6. LogInv'
  BY <1>1, <1>2, <1>3, <1>5 DEF LogInv, QuiescentView, Labels
<1>7. Implements
  BY <1>1, <1>2, StoreSteps DEF Recording
<1> QED
  BY <1>6, <1>7

\* A machine dies while it records: the operation is lost, or an old commit
\* record commits all of it.
LEMMA CrashRecording ==
  ASSUME PlansFit, LogInv, NEW m \in Machines, Crash(m), Recording
  PROVE  LogInv' /\ Implements
<1>1. /\ pc' = "out" /\ needsReplay' = TRUE /\ mem' = mem /\ LogOK(log) /\ mem \in [Loc -> Val]
      /\ log' = log \/ (pc = "entry" /\ log' = [log EXCEPT ![pos] = Torn])
  BY DEF Crash, Recording, LogInv, Lock!Die
<1>2. /\ pc \in {"entry", "erase", "commit", "checksum"}
      /\ plan \in Plans /\ Len(plan) \in Nat /\ pos \in Nat /\ pos >= 1
      /\ pos - 1 \in 0 .. Len(plan) /\ Recorded(log, plan, pos - 1) /\ pos \in Slots
  BY Sizes DEF Recording, LogInv, EntryOK, EraseOK, CommitOK
<1>3. \A i \in 1 .. pos - 1 : log[i] \in OpRecords /\ i \in Slots /\ i # pos
  BY <1>2, RecordedAre, Sizes
<1>4. plan # <<>> /\ ~Recording'
  BY <1>1, <1>2, Sizes DEF Recording
<1>5. LogOK(log') /\ (View' = mem \/ View' = Apply(plan, mem))
  <2>1. CASE log' = [log EXCEPT ![pos] = Torn]
    <3>1. /\ LogOK(log') /\ log'[pos] = Torn
          /\ \A i \in Slots : i # pos => log'[i] = log[i]
      <4>1. SlotOK(Torn, pos)
        BY DEF SlotOK
      <4> QED
        BY <1>1, <1>2, <2>1, <4>1, LogWrite
    <3>2. Blocked(log', pos)
      BY <1>3, <3>1 DEF Blocked
    <3>3. Logged' = <<>>
      BY <1>2, <3>1, <3>2, FoundNext
    <3> QED
      BY <1>1, <3>1, <3>3, ApplyNothing DEF View
  <2>2. CASE log' = log /\ pc = "erase"
    <3>1. View = mem \/ Logged = plan
      <4> DEFINE k == pos - 1
      <4>1. k \in 1..Len(plan) /\ Recorded(log, plan, k) /\ FreshFrom(log, mem, plan, k)
        BY <1>2, <2>2 DEF LogInv, EraseOK
      <4> HIDE DEF k
      <4> QED
        BY <1>1, <1>2, <4>1, OldCommitFits
    <3> QED
      BY <1>1, <2>2, <3>1, SameLog DEF View
  <2>3. CASE log' = log /\ pc = "entry" /\ pos = 1
    BY <1>1, <2>3, SameLog DEF LogInv, EntryOK
  <2>4. CASE log' = log /\ ~(pc = "erase") /\ ~(pc = "entry" /\ pos = 1)
    <3>1. log[pos] = EMPTY_LOG_ENTRY \/ log[pos] = CommitRecord(NoSum)
      BY <1>2, <2>4 DEF LogInv, EntryOK, CommitOK
    <3>2. Blocked(log, pos)
      BY <1>3, <3>1 DEF Blocked
    <3>3. Logged = <<>>
      BY <1>1, <1>2, <3>2, BlockedFindsNothing
    <3>4. View = mem
      BY <1>1, <3>3, ApplyNothing DEF View
    <3> QED
      BY <1>1, <2>4, <3>4, SameLog
  <2> QED
    BY <1>1, <2>1, <2>2, <2>3, <2>4
<1>6. LogInv'
  BY <1>1, <1>5 DEF LogInv, QuiescentView, Labels
<1>7. Implements
  BY <1>4, <1>5, StoreSteps
<1> QED
  BY <1>6, <1>7

\* A machine dies after the commit, perhaps halfway through an entry: a
\* recovery leaves what it would have left before.
LEMMA CrashCommitted ==
  ASSUME PlansFit, LogInv, NEW m \in Machines, Crash(m), ~Recording
  PROVE  LogInv' /\ Implements
<1>1. /\ pc' = "out" /\ needsReplay' = TRUE /\ log' = log /\ LogOK(log) /\ mem \in [Loc -> Val]
  BY DEF Crash, Recording, LogInv, Lock!Die
<1>2. mem' \in [Loc -> Val] /\ View' = View
  <2>1. CASE mem' = mem
    BY <1>1, <2>1, SameLog
  <2>2. CASE pc = "exec" /\ pos <= Len(plan) /\ mem' # mem
    <3>1. PICK done \in SUBSET (DOMAIN plan[pos] \cap Loc) :
            mem' = Assign([l \in done |-> plan[pos][l]], mem)
      BY <1>1, <2>2 DEF Crash
    <3>2. plan = Logged /\ plan \in Seq(EntrySet) /\ pos \in 1..Len(plan)
      BY <1>1, <2>2, LoggedType DEF LogInv, ExecOK
    <3>3. plan[pos] \in EntrySet
      BY <3>2
    <3>4. \A l \in done : plan[pos][l] \in Val
      BY <3>1, <3>3 DEF EntrySet
    <3>5. mem' = [l \in Loc |-> IF l \in done THEN plan[pos][l] ELSE mem[l]]
      BY <1>1, <3>1 DEF Assign
    <3>6. mem' \in [Loc -> Val]
      BY <1>1, <3>4, <3>5
    <3>7. \A l \in Loc : (\A i \in 1..Len(plan) : l \notin DOMAIN plan[i]) => mem'[l] = mem[l]
      BY <3>1, <3>2, <3>5
    <3>8. Apply(plan, mem') = Apply(plan, mem)
      BY <1>1, <3>2, <3>6, <3>7, ApplyForgets
    <3> QED
      BY <1>1, <3>2, <3>6, <3>8, SameLog DEF View
  <2> QED
    BY <2>1, <2>2 DEF Crash
<1>3. LogInv'
  BY <1>1, <1>2 DEF LogInv, QuiescentView, Labels
<1>4. Implements
  BY <1>1, <1>2, StoreSteps DEF Recording
<1> QED
  BY <1>3, <1>4

\* Nothing happens.
LEMMA LogStutters == ASSUME LogInv, UNCHANGED vars PROVE LogInv' /\ Implements
<1>1. /\ mem' = mem /\ log' = log /\ plan' = plan /\ pos' = pos /\ pc' = pc
      /\ needsReplay' = needsReplay /\ users' = users /\ recoverers' = recoverers
  BY DEF vars
<1>2. Logged' = Logged /\ View' = View
  BY <1>1, SameLog
<1>3. LogInv'
  BY <1>1, <1>2
     DEF LogInv, EntryOK, EraseOK, CommitOK, LastOK, ExecOK, QuiescentView, Lock!Empty,
         EMPTY_LOG_ENTRY, CommitRecord, NoSum
<1>4. Implements
  BY <1>1, <1>2 DEF Implements, Abstract!vars, Recording
<1> QED
  BY <1>3, <1>4

\* At the start the log is empty.
LEMMA LogStarts == ASSUME PlansFit, Init PROVE LogInv /\ Abstract!Init
<1>1. /\ log = [i \in Slots |-> EMPTY_LOG_ENTRY] /\ mem \in [Loc -> Val] /\ pc = "out"
  BY DEF Init
<1>2. LogOK(log)
  BY <1>1 DEF LogOK, SlotOK
<1>3. Logged = <<>>
  <2>1. Commits = {}
    BY <1>1, SlotKinds DEF Commits
  <2> QED
    BY <2>1 DEF Logged, Scan
<1>4. View = mem
  BY <1>1, <1>3, ApplyNothing DEF View
<1>5. LogInv
  BY <1>1, <1>2, <1>4 DEF LogInv, QuiescentView, Labels
<1>6. Abstract!Init
  BY <1>1, <1>4 DEF Abstract!Init, Recording
<1> QED
  BY <1>5, <1>6

\* Every step.
LEMMA LogNext == ASSUME PlansFit, LogInv, [Next]_vars PROVE LogInv' /\ Implements
<1>1. ASSUME NEW m \in Machines, NEW p \in Plans, Fresh(p), Begin(m, p)
      PROVE  LogInv' /\ Implements
  BY <1>1, BeginStep
<1>2. ASSUME NEW m \in Machines, Step(m) PROVE LogInv' /\ Implements
  <2>1. CASE set_log_entry
    BY <2>1, EntryStep
  <2>2. CASE erase_next
    <3>1. pc = "erase" \/ pc = "eraselast"
      BY <2>2 DEF erase_next
    <3> QED
      BY <2>2, <3>1, EraseStep, EraseLastStep
  <2>3. CASE set_commit_type
    BY <2>3, CommitTypeStep
  <2>4. CASE set_commit_checksum
    BY <2>4, ChecksumStep
  <2>5. CASE execute_log
    BY <2>5, ExecuteStep
  <2>6. CASE Unlock(m)
    BY <2>6, UnlockStep
  <2>7. CASE Crash(m)
    BY <2>7, CrashRecording, CrashCommitted
  <2>8. CASE recover_with_redolog(m)
    BY <2>8, RecoverStep
  <2> QED
    BY <1>2, <2>1, <2>2, <2>3, <2>4, <2>5, <2>6, <2>7, <2>8 DEF Step
<1>3. CASE UNCHANGED vars
  BY <1>3, LogStutters
<1> QED
  BY <1>1, <1>2, <1>3 DEF Next

-----------------------------------------------------------------------------
\* Whoever takes the lock when no recovery is due reads complete metadata:
\* set_commit_log_entry, execute_log and recover_with_redolog leave nothing to
\* be replayed, for every memory, every operation and every crash.
THEOREM NothingMissing == ASSUME PlansFit PROVE Spec => []QuiescentView
<1>1. Init => LogInv
  BY LogStarts
<1>2. LogInv /\ [Next]_vars => LogInv'
  BY LogNext
<1>3. LogInv => QuiescentView
  BY DEF LogInv
<1> QED
  BY <1>1, <1>2, <1>3, PTL DEF Spec

\* The redo log implements the atomic store: whatever store of log.c a machine
\* dies at, recover_with_redolog finds the operation done or not begun.
THEOREM LogIsAtomic == ASSUME PlansFit PROVE Spec => AtomicOperations
<1>1. Init => LogInv /\ Abstract!Init
  BY LogStarts
<1>2. LogInv /\ [Next]_vars => LogInv' /\ [Abstract!Next]_(Abstract!vars)
  BY LogNext DEF Implements
<1> QED
  BY <1>1, <1>2, PTL DEF Spec, AtomicOperations, Abstract!Spec
=============================================================================
