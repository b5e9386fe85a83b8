---------------------------- MODULE IvpciProofs ----------------------------
(***************************************************************************)
(* Proofs about IvpciDriver: whatever fails in a probe, and whenever a     *)
(* device is removed, a device is the driver's completely or not at all.   *)
(*                                                                         *)
(* The property needs three facts more.  The probe or removal that is      *)
(* running has the device and the slot to itself: its slot is free in      *)
(* g_ivpci_devs, no slot names its device, and mem_start of the slot is of *)
(* this probe.  A device with driver data                                  *)
(* is bound, so that only a device without any is probed.  And the slots   *)
(* in use are never more than g_ivpci_count, which vcxl_ivpci_remove does  *)
(* not lower: so vcxl_ivpci_get_device finds a free slot whenever the      *)
(* count is below g_max_devices.                                           *)
(***************************************************************************)
EXTENDS IvpciDriver, FiniteSetTheorems, TLAPS

\* The slots in use.
Named == {s \in SLOTS : g_ivpci_devs[s].dev # null}

Unnamed(d) == \A s \in SLOTS : g_ivpci_devs[s].dev # d

MemType == {null, "mapped", "stale", "error"}

SlotType ==
    [dev : DEVICES \union {null}, nvectors : {0, NrVectors},
     msix : {"none", "allocated", "freed"}, mem_start : MemType]

PciType ==
    [st : {"new", "failed", "bound"}, res : SUBSET (Range(ProbeSteps) \union {"msix"}),
     drvdata : SLOTS \union {null}]

DriverTypes ==
    /\ g_ivpci_count \in Nat
    /\ g_ivpci_devs \in [SLOTS -> SlotType]
    /\ pci \in [DEVICES -> PciType]

\* What mem_start is for a device that holds res.
MemStart(res) == IF "bar2" \in res THEN "mapped" ELSE "error"

\* What a device without driver data, or with it, is.
Whole(d) ==
    IF pci[d].drvdata # null
      THEN /\ pci[d].res \union ErrorPointers = Range(ProbeSteps) \union Vectors(d)
           /\ {s \in SLOTS : g_ivpci_devs[s].dev = d} = {pci[d].drvdata}
           /\ g_ivpci_devs[pci[d].drvdata].mem_start = MemStart(pci[d].res)
           /\ pci[d].st = "bound"
      ELSE /\ pci[d].res = {}
           /\ Unnamed(d)

WorkInv ==
    \/ work = NoWork
    \/ /\ work \in [op : {"probe"}, dev : DEVICES, slot : SLOTS]
       /\ pci[work.dev].drvdata = null
       /\ pci[work.dev].res \subseteq Range(ProbeSteps)
       /\ pci[work.dev].res \union ErrorPointers = Range(ProbeSteps)
       /\ g_ivpci_devs[work.slot].mem_start = MemStart(pci[work.dev].res)
       /\ g_ivpci_devs[work.slot].dev = null /\ Unnamed(work.dev)
    \/ /\ work \in [op : {"remove"}, dev : DEVICES, slot : SLOTS]
       /\ g_ivpci_devs[work.slot].dev = null /\ Unnamed(work.dev)

DriverInv ==
    /\ DriverTypes /\ WorkInv
    /\ \A d \in DEVICES : work.dev # d => Whole(d)
    /\ Cardinality(Named) <= g_ivpci_count

-----------------------------------------------------------------------------
(* Labels *)

\* The steps of the probe and its error labels, as sets.
LEMMA StepsAre ==
    /\ Range(ProbeSteps) = {"enabled", "regions", "bar0", "bar2", "cdev", "file"}
    /\ DOMAIN ProbeSteps = 1 .. 6 /\ DOMAIN ProbeLabels = 1 .. 7
<1>1. DOMAIN ProbeSteps = 1 .. 6 /\ DOMAIN ProbeLabels = 1 .. 7
  BY DEF ProbeSteps, ProbeLabels
<1>2. Range(ProbeSteps) = {ProbeSteps[j] : j \in 1 .. 6}
  BY <1>1 DEF Range
<1>3. 1 .. 6 = {1, 2, 3, 4, 5, 6}
  OBVIOUS
<1>4. Range(ProbeSteps) = {ProbeSteps[1], ProbeSteps[2], ProbeSteps[3], ProbeSteps[4], ProbeSteps[5], ProbeSteps[6]}
  BY <1>2, <1>3
<1>5. /\ ProbeSteps[1] = "enabled" /\ ProbeSteps[2] = "regions" /\ ProbeSteps[3] = "bar0"
      /\ ProbeSteps[4] = "bar2" /\ ProbeSteps[5] = "cdev" /\ ProbeSteps[6] = "file"
  BY DEF ProbeSteps
<1> QED
  BY <1>1, <1>4, <1>5

\* Falling through from a label undoes what the labels below it undo.
LEMMA FallsThrough ==
    ASSUME NEW k \in 1 .. 7, NEW j \in k .. 7
    PROVE  ProbeLabels[j][2] \in UndoneFrom(ProbeLabels, ProbeLabels[k][1])
<1>1. j \in 1 .. 7 /\ k \in 1 .. j
  OBVIOUS
<1> QED
  BY <1>1, StepsAre DEF UndoneFrom

\* A step of the probe whose failure is noticed goes to the label that undoes all that was done.
LEMMA FailureUndoes ==
    /\ \A k \in 1 .. 6 : ProbeSteps[k] \notin ErrorPointers =>
         {ProbeSteps[j] : j \in 1 .. k - 1} \ UndoneFrom(ProbeLabels, ProbeGoto[ProbeSteps[k]]) = {}
    /\ Range(ProbeSteps) \ UndoneFrom(ProbeLabels, "destroy_device") = {}
<1>1. /\ ProbeSteps[1] = "enabled" /\ ProbeSteps[2] = "regions" /\ ProbeSteps[3] = "bar0"
      /\ ProbeSteps[4] = "bar2" /\ ProbeSteps[5] = "cdev" /\ ProbeSteps[6] = "file"
  BY DEF ProbeSteps
<1>2. /\ ProbeLabels[1] = <<"destroy_device", "file">> /\ ProbeLabels[2] = <<"delete_chrdev", "cdev">>
      /\ ProbeLabels[3] = <<"memunmap_bar2", "bar2">> /\ ProbeLabels[4] = <<"iounmap_bar0", "bar0">>
      /\ ProbeLabels[5] = <<"release_regions", "regions">>
      /\ ProbeLabels[6] = <<"disable_device", "enabled">> /\ ProbeLabels[7] = <<"out", "nothing">>
  BY DEF ProbeLabels
<1>3. ASSUME NEW j \in 1 .. 6 PROVE ProbeLabels[7 - j][2] = ProbeSteps[j]
  BY <1>1, <1>2
<1>4. ASSUME NEW k \in 1 .. 6, ProbeSteps[k] \notin ErrorPointers
      PROVE  ProbeGoto[ProbeSteps[k]] = ProbeLabels[8 - k][1]
  BY <1>1, <1>2, <1>4 DEF ProbeGoto, ErrorPointers
<1>5. ASSUME NEW k \in 1 .. 6, ProbeSteps[k] \notin ErrorPointers, NEW j \in 1 .. k - 1
      PROVE  ProbeSteps[j] \in UndoneFrom(ProbeLabels, ProbeGoto[ProbeSteps[k]])
  <2>1. 8 - k \in 1 .. 7 /\ 7 - j \in 8 - k .. 7 /\ j \in 1 .. 6
    OBVIOUS
  <2>2. ProbeLabels[7 - j][2] \in UndoneFrom(ProbeLabels, ProbeLabels[8 - k][1])
    BY <2>1, FallsThrough
  <2> QED
    BY <1>3, <1>4, <1>5, <2>1, <2>2
<1>6. ASSUME NEW j \in 1 .. 6 PROVE ProbeSteps[j] \in UndoneFrom(ProbeLabels, "destroy_device")
  <2>1. 1 \in 1 .. 7 /\ 7 - j \in 1 .. 7
    OBVIOUS
  <2>2. ProbeLabels[7 - j][2] \in UndoneFrom(ProbeLabels, ProbeLabels[1][1])
    BY <2>1, FallsThrough
  <2> QED
    BY <1>2, <1>3, <2>2
<1>7. Range(ProbeSteps) \subseteq UndoneFrom(ProbeLabels, "destroy_device")
  BY <1>6, StepsAre DEF Range
<1> QED
  BY <1>5, <1>7

-----------------------------------------------------------------------------
(* Slots *)

\* There are g_max_devices slots, so finitely many are named.
LEMMA NamedFinite ==
    ASSUME DriverTypes
    PROVE  /\ Named \subseteq SLOTS /\ IsFiniteSet(SLOTS) /\ Cardinality(SLOTS) = g_max_devices
           /\ IsFiniteSet(Named) /\ Cardinality(Named) \in Nat
<1>1. g_max_devices \in Nat /\ 1 \in Int /\ g_max_devices \in Int
  BY DriverAssumption
<1>2. IsFiniteSet(1 .. g_max_devices) /\
      Cardinality(1 .. g_max_devices) = IF 1 > g_max_devices THEN 0 ELSE g_max_devices - 1 + 1
  BY <1>1, FS_Interval
<1>3. IsFiniteSet(SLOTS) /\ Cardinality(SLOTS) = g_max_devices
  BY <1>1, <1>2 DEF SLOTS
<1>4. Named \subseteq SLOTS
  BY DEF Named
<1>5. IsFiniteSet(Named)
  BY <1>3, <1>4, FS_Subset
<1> QED
  BY <1>3, <1>4, <1>5, FS_CardinalityType

\* vcxl_ivpci_get_device finds a free slot while the count allows a probe.
LEMMA SlotFound ==
    ASSUME DriverInv, ~(g_ivpci_count >= g_max_devices)
    PROVE  vcxl_ivpci_get_device \in SLOTS /\ g_ivpci_devs[vcxl_ivpci_get_device].dev = null
<1>1. g_max_devices \in Nat /\ g_ivpci_count \in Nat /\ DriverTypes
  BY DriverAssumption DEF DriverInv, DriverTypes
<1>2. /\ Named \subseteq SLOTS /\ IsFiniteSet(SLOTS) /\ Cardinality(SLOTS) = g_max_devices
      /\ IsFiniteSet(Named) /\ Cardinality(Named) \in Nat
  BY <1>1, NamedFinite
<1>3. Cardinality(Named) <= g_ivpci_count
  BY DEF DriverInv
<1>4. Named # SLOTS
  BY <1>1, <1>2, <1>3
<1> DEFINE Free == {s \in SLOTS : g_ivpci_devs[s].dev = null}
<1>5. PICK s \in SLOTS : g_ivpci_devs[s].dev = null
  BY <1>2, <1>4 DEF Named
<1>6. SLOTS \subseteq Nat
  BY DEF SLOTS
<1>7. \E r \in Free : \A t \in Free : r <= t
  <2> DEFINE R == OpToRel(<, Nat)
  <2>1. IsWellFoundedOn(R, Nat)
    BY NatLessThanWellFounded
  <2>2. \A x, y \in Nat : y < x => <<y, x>> \in R
    BY DEF OpToRel
  <2>3. Free \subseteq Nat /\ Free # {}
    BY <1>5, <1>6
  <2> HIDE DEF R, Free
  <2>4. PICK r \in Free : \A t \in Free : ~ (<<t, r>> \in R)
    BY <2>1, <2>3, WFMin
  <2>5. \A t \in Free : ~(t < r)
    BY <2>2, <2>3, <2>4
  <2> QED
    BY <2>3, <2>4, <2>5
<1>8. PICK r \in Free : \A t \in Free : r <= t
  BY <1>7
<1>9. /\ r \in SLOTS /\ g_ivpci_devs[r].dev = null
      /\ \A q \in 1 .. r - 1 : g_ivpci_devs[q].dev # null
  <2>1. ASSUME NEW q \in 1 .. r - 1 PROVE q \notin Free /\ q \in SLOTS
    BY <1>1, <1>8 DEF SLOTS
  <2> QED
    BY <1>8, <2>1
<1> HIDE DEF Free
<1> QED
  BY <1>9 DEF vcxl_ivpci_get_device

-----------------------------------------------------------------------------
(* Steps *)

\* A device that a step leaves alone stays whole.
LEMMA StaysWhole ==
    ASSUME NEW e, Whole(e), pci'[e] = pci[e],
           \A s \in SLOTS : g_ivpci_devs'[s].dev = e \/ g_ivpci_devs[s].dev = e => g_ivpci_devs'[s] = g_ivpci_devs[s]
    PROVE  Whole(e)'
<1>1. Unnamed(e)' <=> Unnamed(e)
  BY DEF Unnamed
<1>2. {s \in SLOTS : g_ivpci_devs'[s].dev = e} = {s \in SLOTS : g_ivpci_devs[s].dev = e}
  OBVIOUS
<1>3. CASE pci[e].drvdata = null
  BY <1>1, <1>3 DEF Whole
<1>4. CASE pci[e].drvdata # null
  <2>1. pci[e].drvdata \in SLOTS /\ g_ivpci_devs[pci[e].drvdata].dev = e
    BY <1>4 DEF Whole
  <2>2. g_ivpci_devs'[pci'[e].drvdata].mem_start = MemStart(pci'[e].res)
    BY <1>4, <2>1 DEF Whole
  <2> QED
    BY <1>2, <1>4, <2>2 DEF Whole, Vectors, MemStart
<1> QED
  BY <1>3, <1>4

\* vcxl_ivpci_init starts without devices.
LEMMA InvInit == Init => DriverInv
<1> SUFFICES ASSUME Init PROVE DriverInv
  OBVIOUS
<1>1. DriverTypes
  <2>1. NewSlot \in SlotType
    BY DEF NewSlot, SlotType, MemType
  <2>2. [st |-> "new", res |-> {}, drvdata |-> null] \in PciType
    BY DEF PciType
  <2> QED
    BY <2>1, <2>2 DEF Init, DriverTypes
<1>2. \A s \in SLOTS : g_ivpci_devs[s].dev = null
  BY DEF Init, NewSlot
<1>3. ASSUME NEW d \in DEVICES PROVE Whole(d)
  <2>1. Unnamed(d)
    BY <1>2, DriverAssumption DEF Unnamed
  <2> QED
    BY <2>1 DEF Whole, Init
<1>4. Named = {}
  BY <1>2 DEF Named
<1>5. Cardinality(Named) <= g_ivpci_count
  BY <1>4, FS_EmptySet DEF Init
<1> QED
  BY <1>1, <1>3, <1>5 DEF DriverInv, WorkInv, Init

\* Steps that touch neither devices nor slots.
LEMMA InvSame ==
    ASSUME DriverInv, UNCHANGED <<g_ivpci_count, g_ivpci_devs, pci, work>> PROVE DriverInv'
<1>1. DriverTypes' /\ WorkInv'
  BY DEF DriverInv, DriverTypes, WorkInv, Unnamed
<1>2. Named' = Named
  BY DEF Named
<1>3. ASSUME NEW d \in DEVICES, work'.dev # d PROVE Whole(d)'
  <2>1. Whole(d)
    BY <1>3 DEF DriverInv
  <2> QED
    BY <2>1, StaysWhole
<1> QED
  BY <1>1, <1>2, <1>3 DEF DriverInv

\* vcxl_ivpci_exit, once every device is gone.
LEMMA InvExit == ASSUME DriverInv, vcxl_ivpci_exit PROVE DriverInv'
<1>1. /\ work = NoWork /\ work' = work /\ g_ivpci_count' = 0
      /\ g_ivpci_devs' = [s \in SLOTS |-> NewSlot]
      /\ pci' = [d \in DEVICES |-> [pci[d] EXCEPT !.st = "new"]]
      /\ \A d \in DEVICES : pci[d].st # "bound"
  BY DEF vcxl_ivpci_exit
<1>2. DriverTypes'
  <2>1. NewSlot \in SlotType
    BY DEF NewSlot, SlotType, MemType
  <2>2. ASSUME NEW d \in DEVICES PROVE [pci[d] EXCEPT !.st = "new"] \in PciType
    <3>1. pci[d] \in PciType
      BY DEF DriverInv, DriverTypes
    <3> QED
      BY <3>1 DEF PciType
  <2> QED
    BY <1>1, <2>1, <2>2 DEF DriverTypes
<1>3. \A s \in SLOTS : g_ivpci_devs'[s].dev = null
  BY <1>1 DEF NewSlot
<1>4. ASSUME NEW d \in DEVICES PROVE Whole(d)'
  <2>1. Whole(d) /\ pci[d].st # "bound" /\ pci[d] \in PciType
    BY <1>1, DriverAssumption DEF DriverInv, DriverTypes, NoWork
  <2>2. pci[d].drvdata = null /\ pci[d].res = {}
    BY <2>1 DEF Whole
  <2>3. pci'[d].drvdata = null /\ pci'[d].res = {}
    BY <1>1, <2>1, <2>2 DEF PciType
  <2>4. Unnamed(d)'
    BY <1>3, DriverAssumption DEF Unnamed
  <2> QED
    BY <2>3, <2>4 DEF Whole
<1>5. Named' = {}
  BY <1>3 DEF Named
<1>6. Cardinality(Named') <= g_ivpci_count'
  BY <1>1, <1>5, FS_EmptySet
<1> QED
  BY <1>1, <1>2, <1>4, <1>6 DEF DriverInv, WorkInv

\* A probe that ends without the device.
LEMMA FailsWhole ==
    ASSUME NEW d \in DEVICES, pci \in [DEVICES -> PciType], NEW held, NEW label, NEW ret,
           ProbeFails(d, held, label, ret), held \ UndoneFrom(ProbeLabels, label) = {},
           Unnamed(d)'
    PROVE  /\ Whole(d)' /\ pci' \in [DEVICES -> PciType]
           /\ \A e \in DEVICES \ {d} : pci'[e] = pci[e]
           /\ work' = NoWork
<1>1. /\ pci' = [pci EXCEPT ![d] = [st |-> IF ret = 0 THEN "bound" ELSE "failed",
                                    res |-> {}, drvdata |-> null]]
      /\ work' = NoWork
  BY DEF ProbeFails
<1>2. [st |-> IF ret = 0 THEN "bound" ELSE "failed", res |-> {}, drvdata |-> null] \in PciType
  BY DEF PciType
<1>3. pci'[d].res = {} /\ pci'[d].drvdata = null
  BY <1>1
<1>4. Whole(d)'
  BY <1>3 DEF Whole
<1> QED
  BY <1>1, <1>2, <1>4

\* The slot of a probe changes its memory, not its device.
LEMMA InvProbeStart == ASSUME DriverInv, NEW d \in DEVICES, ProbeStart(d) PROVE DriverInv'
<1>1. /\ work = NoWork /\ pci[d].st = "new" /\ g_ivpci_count' = g_ivpci_count
  BY DEF ProbeStart
<1>2. DriverTypes /\ Cardinality(Named) <= g_ivpci_count
  BY DEF DriverInv
<1>3. ASSUME NEW e \in DEVICES PROVE Whole(e)
  BY <1>1, DriverAssumption DEF DriverInv, NoWork
<1>4. pci[d].drvdata = null /\ pci[d].res = {} /\ Unnamed(d)
  BY <1>1, <1>3 DEF Whole
<1>5. g_ivpci_count \in Nat /\ g_ivpci_devs \in [SLOTS -> SlotType] /\ pci \in [DEVICES -> PciType]
  BY <1>2 DEF DriverTypes
<1> DEFINE Kept == \A s \in SLOTS : /\ g_ivpci_devs'[s].dev = g_ivpci_devs[s].dev
                                    /\ g_ivpci_devs[s].dev # null => g_ivpci_devs'[s] = g_ivpci_devs[s]
<1>6. ASSUME g_ivpci_devs' \in [SLOTS -> SlotType], Kept
      PROVE  /\ Unnamed(d)' /\ Cardinality(Named') <= g_ivpci_count'
             /\ \A e \in DEVICES : pci'[e] = pci[e] => Whole(e)'
  <2>1. Unnamed(d)'
    BY <1>4, <1>6 DEF Unnamed
  <2>2. Named' = Named
    BY <1>6 DEF Named
  <2>3. ASSUME NEW e \in DEVICES, pci'[e] = pci[e] PROVE Whole(e)'
    BY <1>3, <1>6, <2>3, StaysWhole, DriverAssumption
  <2> QED
    BY <1>1, <1>2, <2>1, <2>2, <2>3
<1>7. ASSUME NEW held, NEW label, NEW ret, ProbeFails(d, held, label, ret),
             held \ UndoneFrom(ProbeLabels, label) = {},
             g_ivpci_devs' \in [SLOTS -> SlotType], Kept
      PROVE  DriverInv'
  <2>1. /\ Unnamed(d)' /\ Cardinality(Named') <= g_ivpci_count'
        /\ \A e \in DEVICES : pci'[e] = pci[e] => Whole(e)'
    BY <1>6, <1>7
  <2>2. /\ Whole(d)' /\ pci' \in [DEVICES -> PciType]
        /\ \A e \in DEVICES \ {d} : pci'[e] = pci[e]
        /\ work' = NoWork
    BY <1>5, <1>7, <2>1, FailsWhole
  <2> QED
    BY <1>1, <1>5, <1>7, <2>1, <2>2 DEF DriverInv, DriverTypes, WorkInv
<1>8. CASE g_ivpci_count >= g_max_devices
  <2>1. ProbeFails(d, {}, "out", -1) /\ g_ivpci_devs' = g_ivpci_devs
    BY <1>8 DEF ProbeStart
  <2>2. {} \ UndoneFrom(ProbeLabels, "out") = {}
    OBVIOUS
  <2> QED
    BY <1>5, <1>7, <2>1, <2>2
<1>9. CASE ~(g_ivpci_count >= g_max_devices)
  <2> DEFINE s == vcxl_ivpci_get_device
  <2>1. s \in SLOTS /\ g_ivpci_devs[s].dev = null
    BY <1>9, SlotFound
  <2>2. PICK missing \in SUBSET ErrorPointers :
        \/ /\ pci' = [pci EXCEPT ![d].res = Range(ProbeSteps) \ missing]
           /\ work' = [op |-> "probe", dev |-> d, slot |-> s]
           /\ g_ivpci_devs' = [g_ivpci_devs EXCEPT ![s].mem_start = Remapped(missing)]
        \/ \E k \in DOMAIN ProbeSteps :
               /\ ProbeSteps[k] \notin ErrorPointers
               /\ ProbeFails(d, {ProbeSteps[j] : j \in 1 .. k - 1} \ missing, ProbeGoto[ProbeSteps[k]],
                             IF ProbeSteps[k] \in SilentSteps THEN 0 ELSE -1)
               /\ g_ivpci_devs' = IF ProbeSteps[k] = "cdev"
                                    THEN [g_ivpci_devs EXCEPT ![s].mem_start = Unmapped(Remapped(missing))]
                                    ELSE g_ivpci_devs
    BY <1>9 DEF ProbeStart, Unnoticed
  <2> HIDE DEF s
  <2>3. g_ivpci_devs[s] \in SlotType
    BY <1>5, <2>1
  <2>4. ASSUME NEW m \in MemType, g_ivpci_devs' = [g_ivpci_devs EXCEPT ![s].mem_start = m]
        PROVE  /\ g_ivpci_devs' \in [SLOTS -> SlotType] /\ Kept
               /\ g_ivpci_devs'[s].mem_start = m /\ g_ivpci_devs'[s].dev = null
    <3>1. g_ivpci_devs' = [g_ivpci_devs EXCEPT ![s] = [g_ivpci_devs[s] EXCEPT !.mem_start = m]]
      BY <2>4
    <3>2. /\ [g_ivpci_devs[s] EXCEPT !.mem_start = m] \in SlotType
          /\ [g_ivpci_devs[s] EXCEPT !.mem_start = m].dev = g_ivpci_devs[s].dev
          /\ [g_ivpci_devs[s] EXCEPT !.mem_start = m].mem_start = m
      BY <2>3 DEF SlotType
    <3> QED
      BY <1>5, <2>1, <3>1, <3>2
  <2>5. CASE /\ pci' = [pci EXCEPT ![d].res = Range(ProbeSteps) \ missing]
             /\ work' = [op |-> "probe", dev |-> d, slot |-> s]
             /\ g_ivpci_devs' = [g_ivpci_devs EXCEPT ![s].mem_start = Remapped(missing)]
    <3> DEFINE res == Range(ProbeSteps) \ missing
    <3>1. /\ res \subseteq Range(ProbeSteps) /\ res \union ErrorPointers = Range(ProbeSteps)
          /\ Remapped(missing) = MemStart(res) /\ Remapped(missing) \in MemType
      BY StepsAre DEF ErrorPointers, Remapped, MemStart, MemType
    <3>2. pci' = [pci EXCEPT ![d] = [pci[d] EXCEPT !.res = res]]
      BY <2>5
    <3> HIDE DEF res
    <3>3. /\ g_ivpci_devs' \in [SLOTS -> SlotType] /\ Kept
          /\ g_ivpci_devs'[s].mem_start = MemStart(res) /\ g_ivpci_devs'[s].dev = null
      BY <2>4, <2>5, <3>1
    <3>4. /\ Unnamed(d)' /\ Cardinality(Named') <= g_ivpci_count'
          /\ \A e \in DEVICES : pci'[e] = pci[e] => Whole(e)'
      BY <1>6, <3>3
    <3>5. /\ [pci[d] EXCEPT !.res = res] \in PciType
          /\ [pci[d] EXCEPT !.res = res].res = res
          /\ [pci[d] EXCEPT !.res = res].drvdata = null
      <4>1. pci[d] \in PciType
        BY <1>5
      <4> QED
        BY <1>4, <3>1, <4>1 DEF PciType
    <3>6. /\ pci' \in [DEVICES -> PciType]
          /\ pci'[d].res = res /\ pci'[d].drvdata = null
          /\ \A e \in DEVICES \ {d} : pci'[e] = pci[e]
      BY <1>5, <3>2, <3>5
    <3>7. work'.dev = d /\ work'.slot = s /\ work' \in [op : {"probe"}, dev : DEVICES, slot : SLOTS]
      BY <2>1, <2>5
    <3>8. WorkInv'
      BY <3>1, <3>3, <3>4, <3>6, <3>7 DEF WorkInv, MemStart
    <3>9. DriverTypes'
      BY <1>1, <1>5, <3>3, <3>6 DEF DriverTypes
    <3> QED
      BY <3>4, <3>6, <3>7, <3>8, <3>9 DEF DriverInv
  <2>6. CASE \E k \in DOMAIN ProbeSteps :
               /\ ProbeSteps[k] \notin ErrorPointers
               /\ ProbeFails(d, {ProbeSteps[j] : j \in 1 .. k - 1} \ missing, ProbeGoto[ProbeSteps[k]],
                             IF ProbeSteps[k] \in SilentSteps THEN 0 ELSE -1)
               /\ g_ivpci_devs' = IF ProbeSteps[k] = "cdev"
                                    THEN [g_ivpci_devs EXCEPT ![s].mem_start = Unmapped(Remapped(missing))]
                                    ELSE g_ivpci_devs
    <3>1. PICK k \in 1 .. 6 :
               /\ ProbeSteps[k] \notin ErrorPointers
               /\ ProbeFails(d, {ProbeSteps[j] : j \in 1 .. k - 1} \ missing, ProbeGoto[ProbeSteps[k]],
                             IF ProbeSteps[k] \in SilentSteps THEN 0 ELSE -1)
               /\ \/ g_ivpci_devs' = [g_ivpci_devs EXCEPT ![s].mem_start = Unmapped(Remapped(missing))]
                  \/ g_ivpci_devs' = g_ivpci_devs
      BY <2>6, StepsAre
    <3>2. Unmapped(Remapped(missing)) \in MemType
      BY DEF Unmapped, Remapped, MemType
    <3>3. g_ivpci_devs' \in [SLOTS -> SlotType] /\ Kept
      <4>1. CASE g_ivpci_devs' = g_ivpci_devs
        BY <1>5, <4>1
      <4>2. CASE g_ivpci_devs' # g_ivpci_devs
        BY <2>4, <3>1, <3>2, <4>2
      <4> QED
        BY <4>1, <4>2
    <3>4. ({ProbeSteps[j] : j \in 1 .. k - 1} \ missing) \ UndoneFrom(ProbeLabels, ProbeGoto[ProbeSteps[k]]) = {}
      BY <3>1, FailureUndoes
    <3> HIDE DEF Kept
    <3> QED
      BY Zenon, <1>7, <3>1, <3>3, <3>4
  <2> QED
    BY <2>2, <2>5, <2>6
<1> QED
  BY <1>8, <1>9

\* The last step of a probe: the device is whole, or all of it is undone.
LEMMA InvProbeFinish == ASSUME DriverInv, ProbeFinish PROVE DriverInv'
<1> DEFINE d == work.dev
           s == work.slot
           taken == [g_ivpci_devs[s] EXCEPT !.dev = d]
           Fails(slot, ret) ==
               /\ g_ivpci_devs' = [g_ivpci_devs EXCEPT ![s] =
                      [slot EXCEPT !.dev = null, !.mem_start = Unmapped(@)]]
               /\ ProbeFails(d, pci[d].res, "destroy_device", ret)
               /\ UNCHANGED g_ivpci_count
           Succeeds(slot, vectors) ==
               /\ g_ivpci_devs' = [g_ivpci_devs EXCEPT ![s] = slot]
               /\ pci' = [pci EXCEPT ![d] = [st |-> "bound", res |-> @.res \union vectors, drvdata |-> s]]
               /\ work' = NoWork
               /\ g_ivpci_count' = g_ivpci_count + 1
<1>1. \/ Fails(taken, 0)
      \/ IVPOSITION[d] = 0 /\ Succeeds(taken, {})
      \/ /\ IVPOSITION[d] \in 1 .. VCXL_MAX_SUPPORTED_MACHINES
         /\ Succeeds(request_msix_vectors(taken, "allocated"), {"msix"})
      \/ \E left \in {"none", "freed"} : Fails(request_msix_vectors(taken, left), -1)
  BY DEF ProbeFinish
<1>2. /\ work.op = "probe" /\ DriverTypes /\ WorkInv /\ Cardinality(Named) <= g_ivpci_count
  BY DEF ProbeFinish, DriverInv
<1>3. /\ d \in DEVICES /\ s \in SLOTS /\ pci[d].drvdata = null
      /\ pci[d].res \subseteq Range(ProbeSteps) /\ pci[d].res \union ErrorPointers = Range(ProbeSteps)
      /\ g_ivpci_devs[s].mem_start = MemStart(pci[d].res)
      /\ g_ivpci_devs[s].dev = null /\ Unnamed(d)
  BY <1>2 DEF WorkInv, NoWork
<1>4. ASSUME NEW e \in DEVICES \ {d} PROVE Whole(e)
  BY DEF DriverInv
<1>5. g_ivpci_count \in Nat /\ g_ivpci_devs \in [SLOTS -> SlotType] /\ pci \in [DEVICES -> PciType]
  BY <1>2 DEF DriverTypes
<1>6. taken \in SlotType /\ taken.dev = d /\ taken.mem_start = MemStart(pci[d].res)
  <2>1. g_ivpci_devs[s] \in SlotType
    BY <1>3, <1>5
  <2> QED
    BY <1>3, <2>1 DEF SlotType
<1>7. ASSUME NEW left \in {"none", "allocated", "freed"}
      PROVE  /\ request_msix_vectors(taken, left) \in SlotType
             /\ request_msix_vectors(taken, left).dev = d
             /\ request_msix_vectors(taken, left).mem_start = MemStart(pci[d].res)
  <2> HIDE DEF taken
  <2> QED
    BY <1>6 DEF SlotType, request_msix_vectors
<1>8. d # null /\ null \notin SLOTS
  BY <1>3, DriverAssumption DEF SLOTS
<1> HIDE DEF d, s, taken
<1>9. ASSUME NEW slot \in SlotType, NEW ret, Fails(slot, ret) PROVE DriverInv'
  <2> DEFINE new == [slot EXCEPT !.dev = null, !.mem_start = Unmapped(@)]
  <2>1. new \in SlotType /\ new.dev = null
    <3>1. Unmapped(slot.mem_start) \in MemType
      BY DEF Unmapped, SlotType, MemType
    <3> QED
      BY <3>1 DEF SlotType
  <2>2. g_ivpci_devs' = [g_ivpci_devs EXCEPT ![s] = new]
    BY <1>9
  <2> HIDE DEF new
  <2>3. /\ g_ivpci_devs' \in [SLOTS -> SlotType]
        /\ \A r \in SLOTS : g_ivpci_devs'[r].dev = g_ivpci_devs[r].dev
        /\ \A r \in SLOTS : g_ivpci_devs[r].dev # null => g_ivpci_devs'[r] = g_ivpci_devs[r]
    BY <1>3, <1>5, <2>1, <2>2
  <2>4. Named' = Named
    BY <2>3 DEF Named
  <2>5. pci[d].res \ UndoneFrom(ProbeLabels, "destroy_device") = {}
    BY <1>3, FailureUndoes
  <2>6. ProbeFails(d, pci[d].res, "destroy_device", ret) /\ g_ivpci_count' = g_ivpci_count
    BY <1>9
  <2>7. \A r \in SLOTS : g_ivpci_devs'[r].dev # d
    BY <1>3, <2>3 DEF Unnamed
  <2>8. /\ pci' = [pci EXCEPT ![d] = [st |-> IF ret = 0 THEN "bound" ELSE "failed",
                                      res |-> {}, drvdata |-> null]]
        /\ work' = NoWork
    BY <2>5, <2>6 DEF ProbeFails
  <2>9. [st |-> IF ret = 0 THEN "bound" ELSE "failed", res |-> {}, drvdata |-> null] \in PciType
    BY DEF PciType
  <2>10. /\ pci' \in [DEVICES -> PciType] /\ pci'[d].res = {} /\ pci'[d].drvdata = null
         /\ \A e \in DEVICES \ {d} : pci'[e] = pci[e]
    BY <1>3, <1>5, <2>8, <2>9
  <2>11. ASSUME NEW e \in DEVICES PROVE Whole(e)'
    <3>1. CASE e = d
      BY <2>7, <2>10, <3>1 DEF Whole, Unnamed
    <3>2. CASE e # d
      BY <1>4, <2>3, <2>10, <3>2, StaysWhole, DriverAssumption
    <3> QED
      BY <3>1, <3>2
  <2> QED
    BY <1>2, <1>5, <2>3, <2>4, <2>6, <2>8, <2>10, <2>11 DEF DriverInv, DriverTypes, WorkInv
<1>10. ASSUME NEW slot \in SlotType, slot.dev = d, slot.mem_start = MemStart(pci[d].res),
              NEW vectors, Succeeds(slot, vectors), vectors = Vectors(d)
       PROVE  DriverInv'
  <2>1. /\ g_ivpci_devs' = [g_ivpci_devs EXCEPT ![s] = slot]
        /\ pci' = [pci EXCEPT ![d] = [st |-> "bound", res |-> pci[d].res \union vectors, drvdata |-> s]]
        /\ work' = NoWork /\ g_ivpci_count' = g_ivpci_count + 1
    BY <1>10
  <2>2. g_ivpci_devs' \in [SLOTS -> SlotType]
    BY <1>3, <1>5, <2>1
  <2>3. /\ g_ivpci_devs'[s].dev = d /\ g_ivpci_devs'[s].mem_start = MemStart(pci[d].res)
        /\ \A r \in SLOTS \ {s} : g_ivpci_devs'[r] = g_ivpci_devs[r]
    BY <1>3, <1>5, <1>10, <2>1
  <2>4. [st |-> "bound", res |-> pci[d].res \union vectors, drvdata |-> s] \in PciType
    <3>1. pci[d].res \union vectors \subseteq Range(ProbeSteps) \union {"msix"}
      BY <1>3, <1>10 DEF Vectors
    <3> QED
      BY <1>3, <3>1 DEF PciType
  <2>5. /\ pci' \in [DEVICES -> PciType]
        /\ pci'[d].res = pci[d].res \union Vectors(d) /\ pci'[d].drvdata = s
        /\ pci'[d].st = "bound"
        /\ \A e \in DEVICES \ {d} : pci'[e] = pci[e]
    BY <1>3, <1>5, <1>10, <2>1, <2>4
  <2>6. {r \in SLOTS : g_ivpci_devs'[r].dev = d} = {s}
    BY <1>3, <2>3 DEF Unnamed
  <2>7. ASSUME NEW e \in DEVICES PROVE Whole(e)'
    <3>1. CASE e = d
      <4>1. MemStart(pci'[d].res) = MemStart(pci[d].res)
        BY <2>5 DEF MemStart, Vectors
      <4>2. pci'[d].res \union ErrorPointers = Range(ProbeSteps) \union Vectors(d)
        BY <1>3, <2>5
      <4> QED
        BY <1>3, <1>8, <2>3, <2>5, <2>6, <3>1, <4>1, <4>2 DEF Whole, Vectors, MemStart
    <3>2. CASE e # d
      <4>1. \A r \in SLOTS : g_ivpci_devs'[r].dev = e \/ g_ivpci_devs[r].dev = e => g_ivpci_devs'[r] = g_ivpci_devs[r]
        BY <1>3, <2>3, <3>2, DriverAssumption
      <4> QED
        BY <1>4, <2>5, <3>2, <4>1, StaysWhole
    <3> QED
      BY <3>1, <3>2
  <2>8. Named' = Named \union {s} /\ s \notin Named
    BY <1>3, <1>8, <2>3 DEF Named
  <2>9. Cardinality(Named') = Cardinality(Named) + 1 /\ Cardinality(Named) \in Nat
    <3>1. IsFiniteSet(Named) /\ Cardinality(Named) \in Nat
      BY <1>2, NamedFinite
    <3> QED
      BY <2>8, <3>1, FS_AddElement
  <2>10. Cardinality(Named') <= g_ivpci_count'
    BY <1>2, <1>5, <2>1, <2>9
  <2>11. DriverTypes'
    BY <1>5, <2>1, <2>2, <2>5 DEF DriverTypes
  <2> QED
    BY <2>1, <2>7, <2>10, <2>11 DEF DriverInv, WorkInv
<1> HIDE DEF Fails, Succeeds
<1>11. CASE Fails(taken, 0)
  BY <1>6, <1>9, <1>11
<1>12. CASE IVPOSITION[d] = 0 /\ Succeeds(taken, {})
  BY <1>6, <1>10, <1>12 DEF Vectors
<1>13. CASE /\ IVPOSITION[d] \in 1 .. VCXL_MAX_SUPPORTED_MACHINES
            /\ Succeeds(request_msix_vectors(taken, "allocated"), {"msix"})
  <2>1. {"msix"} = Vectors(d)
    BY <1>13 DEF Vectors
  <2> QED
    BY <1>7, <1>10, <1>13, <2>1
<1>14. CASE \E left \in {"none", "freed"} : Fails(request_msix_vectors(taken, left), -1)
  BY <1>7, <1>9, <1>14
<1> QED
  BY <1>1, <1>11, <1>12, <1>13, <1>14

\* vcxl_ivpci_remove starts on a whole device.
LEMMA InvRemoveStart == ASSUME DriverInv, NEW d \in DEVICES, RemoveStart(d) PROVE DriverInv'
<1> DEFINE s == pci[d].drvdata
<1>1. work = NoWork /\ pci[d].st = "bound" /\ g_ivpci_count' = g_ivpci_count
  BY DEF RemoveStart
<1>2. DriverTypes /\ Cardinality(Named) <= g_ivpci_count
  BY DEF DriverInv
<1>3. g_ivpci_count \in Nat /\ g_ivpci_devs \in [SLOTS -> SlotType] /\ pci \in [DEVICES -> PciType]
  BY <1>2 DEF DriverTypes
<1>4. CASE s = null \/ FreesDangling(g_ivpci_devs[s])
  <2>1. UNCHANGED <<g_ivpci_devs, pci, work>>
    BY <1>4 DEF RemoveStart
  <2> QED
    BY <1>1, <2>1, InvSame
<1>5. CASE ~(s = null \/ FreesDangling(g_ivpci_devs[s]))
  <2>1. /\ g_ivpci_devs' = [g_ivpci_devs EXCEPT ![s] = [free_msix_vectors(@) EXCEPT !.dev = null]]
        /\ pci' = [pci EXCEPT ![d].res = @ \ {"msix"}]
        /\ work' = [op |-> "remove", dev |-> d, slot |-> s]
    BY <1>5 DEF RemoveStart
  <2>2. s \in SLOTS /\ pci[d] \in PciType
    BY <1>3, <1>5 DEF PciType
  <2>3. ASSUME NEW e \in DEVICES PROVE Whole(e)
    BY <1>1, DriverAssumption DEF DriverInv, NoWork
  <2>4. {r \in SLOTS : g_ivpci_devs[r].dev = d} = {s}
    BY <1>5, <2>3 DEF Whole
  <2> DEFINE new == [free_msix_vectors(g_ivpci_devs[s]) EXCEPT !.dev = null]
  <2>5. new \in SlotType /\ new.dev = null
    <3>1. g_ivpci_devs[s] \in SlotType
      BY <1>3, <2>2
    <3>2. free_msix_vectors(g_ivpci_devs[s]) \in SlotType
      BY <3>1 DEF SlotType, free_msix_vectors
    <3> QED
      BY <3>2 DEF SlotType
  <2>6. g_ivpci_devs' = [g_ivpci_devs EXCEPT ![s] = new]
    BY <2>1
  <2> HIDE DEF new
  <2>7. /\ g_ivpci_devs' \in [SLOTS -> SlotType] /\ g_ivpci_devs'[s].dev = null
        /\ \A r \in SLOTS \ {s} : g_ivpci_devs'[r] = g_ivpci_devs[r]
    BY <1>3, <2>2, <2>5, <2>6
  <2>8. pci' \in [DEVICES -> PciType] /\ \A e \in DEVICES \ {d} : pci'[e] = pci[e]
    <3>1. pci' = [pci EXCEPT ![d] = [pci[d] EXCEPT !.res = pci[d].res \ {"msix"}]]
      BY <2>1
    <3>2. [pci[d] EXCEPT !.res = pci[d].res \ {"msix"}] \in PciType
      BY <2>2 DEF PciType
    <3> QED
      BY <1>3, <3>1, <3>2
  <2>9. \A r \in SLOTS : g_ivpci_devs'[r].dev # d
    BY <2>2, <2>4, <2>7, DriverAssumption
  <2>10. work'.dev = d /\ work'.slot = s /\ work' \in [op : {"remove"}, dev : DEVICES, slot : SLOTS]
    BY <2>1, <2>2
  <2>11. WorkInv'
    BY <2>7, <2>9, <2>10 DEF WorkInv, Unnamed
  <2>12. ASSUME NEW e \in DEVICES, e # d PROVE Whole(e)'
    <3>1. g_ivpci_devs[s].dev = d
      BY <2>2, <2>4
    <3>2. \A r \in SLOTS : g_ivpci_devs'[r].dev = e \/ g_ivpci_devs[r].dev = e => g_ivpci_devs'[r] = g_ivpci_devs[r]
      BY <2>7, <2>12, <3>1, DriverAssumption
    <3> QED
      BY <2>3, <2>8, <2>12, <3>2, StaysWhole
  <2>13. Named' \subseteq Named
    BY <2>2, <2>7 DEF Named
  <2>14. Cardinality(Named') <= g_ivpci_count'
    <3>1. IsFiniteSet(Named) /\ Cardinality(Named) \in Nat
      BY <1>2, NamedFinite
    <3>2. Cardinality(Named') <= Cardinality(Named) /\ IsFiniteSet(Named')
      BY <2>13, <3>1, FS_Subset
    <3>3. Cardinality(Named') \in Nat
      BY <3>2, FS_CardinalityType
    <3> QED
      BY <1>1, <1>2, <1>3, <3>1, <3>2, <3>3
  <2>15. DriverTypes'
    BY <1>1, <1>3, <2>7, <2>8 DEF DriverTypes
  <2> QED
    BY <2>10, <2>11, <2>12, <2>14, <2>15 DEF DriverInv
<1> QED
  BY <1>4, <1>5

\* vcxl_ivpci_remove ends with nothing of the device left.
LEMMA InvRemoveFinish == ASSUME DriverInv, RemoveFinish PROVE DriverInv'
<1> DEFINE d == work.dev
           s == work.slot
<1>1. /\ work.op = "remove" /\ g_ivpci_count' = g_ivpci_count /\ work' = NoWork
      /\ g_ivpci_devs' = [g_ivpci_devs EXCEPT ![s].mem_start = Unmapped(@)]
      /\ pci' = [pci EXCEPT ![d] = [st |-> "new", res |-> {}, drvdata |-> null]]
      /\ DriverTypes /\ WorkInv /\ Cardinality(Named) <= g_ivpci_count
  BY DEF RemoveFinish, DriverInv
<1>2. d \in DEVICES /\ s \in SLOTS /\ Unnamed(d) /\ g_ivpci_devs[s].dev = null
  BY <1>1 DEF WorkInv, NoWork
<1>3. g_ivpci_count \in Nat /\ g_ivpci_devs \in [SLOTS -> SlotType] /\ pci \in [DEVICES -> PciType]
  BY <1>1 DEF DriverTypes
<1>4. ASSUME NEW e \in DEVICES \ {d} PROVE Whole(e)
  BY DEF DriverInv
<1>5. /\ g_ivpci_devs' \in [SLOTS -> SlotType]
      /\ \A r \in SLOTS : g_ivpci_devs'[r].dev = g_ivpci_devs[r].dev
      /\ \A r \in SLOTS : g_ivpci_devs[r].dev # null => g_ivpci_devs'[r] = g_ivpci_devs[r]
  <2> DEFINE m == Unmapped(g_ivpci_devs[s].mem_start)
  <2>1. g_ivpci_devs' = [g_ivpci_devs EXCEPT ![s] = [g_ivpci_devs[s] EXCEPT !.mem_start = m]]
    BY <1>1
  <2>2. /\ [g_ivpci_devs[s] EXCEPT !.mem_start = m] \in SlotType
        /\ [g_ivpci_devs[s] EXCEPT !.mem_start = m].dev = g_ivpci_devs[s].dev
    <3>1. g_ivpci_devs[s] \in SlotType
      BY <1>2, <1>3
    <3>2. m \in MemType
      BY <3>1 DEF Unmapped, SlotType, MemType
    <3> HIDE DEF m
    <3> QED
      BY <3>1, <3>2 DEF SlotType
  <2> QED
    BY <1>2, <1>3, <2>1, <2>2
<1> HIDE DEF d, s
<1>6. /\ pci' \in [DEVICES -> PciType] /\ pci'[d].res = {} /\ pci'[d].drvdata = null
      /\ \A e \in DEVICES \ {d} : pci'[e] = pci[e]
  <2>1. [st |-> "new", res |-> {}, drvdata |-> null] \in PciType
    BY DEF PciType
  <2> QED
    BY <1>1, <1>2, <1>3, <2>1
<1>7. \A r \in SLOTS : g_ivpci_devs'[r].dev # d
  BY <1>2, <1>5 DEF Unnamed
<1>8. ASSUME NEW e \in DEVICES PROVE Whole(e)'
  <2>1. CASE e = d
    BY <1>6, <1>7, <2>1 DEF Whole, Unnamed
  <2>2. CASE e # d
    BY <1>4, <1>5, <1>6, <2>2, StaysWhole, DriverAssumption
  <2> QED
    BY <2>1, <2>2
<1>9. Named' = Named
  BY <1>5 DEF Named
<1> QED
  BY <1>1, <1>3, <1>5, <1>6, <1>8, <1>9 DEF DriverInv, DriverTypes, WorkInv

\* Every step of the driver keeps the invariant.
LEMMA InvNext == ASSUME DriverInv, [Next]_vars PROVE DriverInv'
<1>1. CASE insmodStep \/ rmmod
  BY <1>1, InvSame DEF insmodStep, rmmod
<1>2. CASE vcxl_ivpci_exit
  BY <1>2, InvExit
<1>3. CASE \E d \in DEVICES : ProbeStart(d)
  BY <1>3, InvProbeStart
<1>4. CASE \E d \in DEVICES : RemoveStart(d)
  BY <1>4, InvRemoveStart
<1>5. CASE \E d \in DEVICES, p \in PROCS : vcxl_ivpci_open(p, d)
  BY <1>5, InvSame DEF vcxl_ivpci_open
<1>6. CASE ProbeFinish
  BY <1>6, InvProbeFinish
<1>7. CASE RemoveFinish
  BY <1>7, InvRemoveFinish
<1>8. CASE \E p \in PROCS : vcxl_ivpci_mmap(p) \/ vcxl_ivpci_mmap_fault(p) \/ vcxl_ivpci_release(p)
  BY <1>8, InvSame DEF vcxl_ivpci_mmap, vcxl_ivpci_mmap_fault, vcxl_ivpci_release
<1>9. CASE UNCHANGED vars
  BY <1>9, InvSame DEF vars
<1> QED
  BY <1>1, <1>2, <1>3, <1>4, <1>5, <1>6, <1>7, <1>8, <1>9 DEF Next

\* Whatever fails in a probe and whenever a device is removed, a device is the
\* driver's completely, but for what the kernel refused by an error pointer, or
\* not at all, for any devices, processes and number of slots (the labels of
\* vcxl_ivpci_probe, vcxl_ivpci_remove).
THEOREM DevicesStayWhole == Spec => []DevicesWhole
<1>1. Init => DriverInv
  BY InvInit
<1>2. DriverInv /\ [Next]_vars => DriverInv'
  BY InvNext
<1>3. DriverInv => DevicesWhole
  BY DEF DriverInv, Whole, Unnamed, MemStart, DevicesWhole
<1> QED
  BY <1>1, <1>2, <1>3, PTL DEF Spec

=============================================================================
