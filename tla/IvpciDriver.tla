----------------------------- MODULE IvpciDriver -----------------------------
(***************************************************************************)
(* The life of the driver in a guest (driver/src/cxl_ivpci.c): loading and *)
(* unloading the module, a PCI device that is probed and removed, its slot *)
(* in g_ivpci_devs, and processes that open and close its device file.     *)
(*                                                                         *)
(* Every call into the kernel that may fail may fail here. Three of them   *)
(* (class_create, devm_memremap_pages and device_create) fail by an error  *)
(* pointer; the driver tests their results for NULL, and goes on without   *)
(* what it asked for. A probe, a removal and the loading of the module are *)
(* cut where a process can see the difference; the bus probes or removes   *)
(* one device at a time. A device may be unplugged, or unbound by the      *)
(* administrator, once the module is loaded, also while processes have its *)
(* file open. Devices are of revision 1; a position of 0 means that there  *)
(* are no interrupts. What the ioctls do is in CxlAlloc, CxlCgroup,        *)
(* FailureDetector and FutexWake.                                          *)
(***************************************************************************)
EXTENDS Integers, Sequences, FiniteSets, Functions

CONSTANTS DEVICES,        \* PCI devices of the guest
          PROCS,          \* processes that open device files
          g_max_devices,
          IVPOSITION,     \* the position register of each device
          VCXL_MAX_SUPPORTED_MACHINES,
          null

\* Devices and minor numbers are not NULL.
ASSUME DriverAssumption ==
    g_max_devices \in Nat /\ null \notin DEVICES /\ null \notin 1 .. g_max_devices

SLOTS == 1 .. g_max_devices
NrVectors == 8

VARIABLES
    module,         \* st, and what the module has registered
    g_ivpci_count,
    g_ivpci_devs,   \* the slots: dev, nvectors, msix (the entries: none,
                    \* allocated or freed), mem_start (NULL, mapped, stale or
                    \* an error pointer)
    pci,            \* what the bus and the kernel hold for each device
    work,           \* the probe or removal that is running
    file,           \* private_data of the file each process has open, or
                    \* NULL, and whether the process has mapped it
    bug             \* no, or how the kernel stopped: at a BUG_ON, or by a
                    \* fault: a NULL or freed pointer was followed

Running == bug = "no" /\ module.st # "broken"

vars == <<module, g_ivpci_count, g_ivpci_devs, pci, work, file, bug>>

NewSlot == [dev |-> null, nvectors |-> 0, msix |-> "none", mem_start |-> null]
NoFile == [private_data |-> null, mapped |-> FALSE]
NoWork == [op |-> "none", dev |-> null, slot |-> null]

Init ==
    /\ module = [st |-> "out", res |-> {}]
    /\ g_ivpci_count = 0
    /\ g_ivpci_devs = [s \in SLOTS |-> NewSlot]
    /\ pci = [d \in DEVICES |-> [st |-> "new", res |-> {}, drvdata |-> null]]
    /\ work = NoWork
    /\ file = [p \in PROCS |-> NoFile]
    /\ bug = "no"

(***************************************************************************)
(* vcxl_ivpci_init and vcxl_ivpci_exit.                                    *)
(***************************************************************************)

InitSteps == <<"chrdev", "devs", "class", "driver", "netlink", "hooks">>

\* The labels of vcxl_ivpci_init, from top to bottom, and what each undoes.
InitLabels == << <<"destroy_class", "class">>, <<"free_devs", "devs">>,
                 <<"unregister_chrdev", "chrdev">>, <<"out", "nothing">> >>

InitGoto == [chrdev |-> "out", devs |-> "unregister_chrdev", class |-> "free_devs",
             driver |-> "destroy_class", netlink |-> "destroy_class", hooks |-> "destroy_class"]

\* What falling through from a label undoes.
UndoneFrom(labels, label) ==
    {labels[j][2] : j \in {n \in DOMAIN labels : \E k \in 1 .. n : labels[k][1] = label}}

InitDone == Cardinality(module.res)

\* What is in the place of the class when class_create has returned an error
\* pointer; class_destroy does nothing with it.
NoClass == "error"

\* pci_register_driver probes the devices that are there before it returns.
insmodStep ==
    /\ Running
    /\ module.st \in {"out", "init"} /\ InitDone < Len(InitSteps)
    /\ "driver" \in module.res => work = NoWork /\ \A d \in DEVICES : pci[d].st # "new"
    /\ LET step == InitSteps[InitDone + 1] IN
       \/ module' = [st |-> IF step = "hooks" THEN "in" ELSE "init", res |-> module.res \union {step}]
       \/ step = "class" /\ module' = [module EXCEPT !.res = @ \union {NoClass}]
       \/ /\ step # "class"
          /\ LET left == (module.res \ UndoneFrom(InitLabels, InitGoto[step])) \ {NoClass} IN
             module' = [st |-> IF left = {} THEN "out" ELSE "broken", res |-> left]
    /\ UNCHANGED <<g_ivpci_count, g_ivpci_devs, pci, work, file, bug>>

\* An open file holds the module (THIS_MODULE).
rmmod ==
    /\ Running /\ module.st = "in" /\ work = NoWork
    /\ \A p \in PROCS : file[p] = NoFile
    /\ module' = [module EXCEPT !.st = "exit"]
    /\ UNCHANGED <<g_ivpci_count, g_ivpci_devs, pci, work, file, bug>>

\* pci_unregister_driver has removed the bound devices; the rest goes too.
vcxl_ivpci_exit ==
    /\ Running /\ module.st = "exit" /\ work = NoWork
    /\ \A d \in DEVICES : pci[d].st # "bound"
    /\ module' = [st |-> "out", res |-> {}]
    /\ g_ivpci_count' = 0
    /\ g_ivpci_devs' = [s \in SLOTS |-> NewSlot]
    /\ pci' = [d \in DEVICES |-> [pci[d] EXCEPT !.st = "new"]]
    /\ UNCHANGED <<work, file, bug>>

(***************************************************************************)
(* vcxl_ivpci_probe.                                                       *)
(***************************************************************************)

vcxl_ivpci_get_device == CHOOSE s \in SLOTS : /\ g_ivpci_devs[s].dev = null
                                              /\ \A r \in 1 .. s - 1 : g_ivpci_devs[r].dev # null

ProbeSteps == <<"enabled", "regions", "bar0", "bar2", "cdev", "file">>

\* The labels of vcxl_ivpci_probe, from top to bottom, and what each undoes.
ProbeLabels == << <<"destroy_device", "file">>, <<"delete_chrdev", "cdev">>,
                  <<"memunmap_bar2", "bar2">>, <<"iounmap_bar0", "bar0">>,
                  <<"release_regions", "regions">>, <<"disable_device", "enabled">>,
                  <<"out", "nothing">> >>

\* The steps that fail by an error pointer, which the driver takes for success.
ErrorPointers == {"bar2", "file"}

\* A label too low for cdev_add.
ProbeGotoSkipping == [enabled |-> "out", regions |-> "disable_device", bar0 |-> "release_regions",
                      cdev |-> "iounmap_bar0"]

\* Where the failures that are noticed go.
ProbeGoto == [enabled |-> "out", regions |-> "disable_device", bar0 |-> "release_regions",
              cdev |-> "memunmap_bar2"]

\* Steps whose failure leaves the 0 of an earlier success in ret.
SilentSteps == {"bar0"}

\* Which of the steps that fail unnoticed may have failed; device_create does
\* whenever there is no class.
Unnoticed == {missing \in SUBSET ErrorPointers : "class" \notin module.res => "file" \in missing}

\* What devm_memremap_pages returns, and what is left of it in mem_start when
\* the mapping is undone.
Remapped(missing) == IF "bar2" \in missing THEN "error" ELSE "mapped"
Unmapped(mem_start) == IF mem_start = "mapped" THEN "stale" ELSE mem_start

\* The end of a probe that failed, with what is held at that point.  The bus
\* takes the device for bound if 0 is returned.
ProbeFails(d, held, label, ret) ==
    /\ pci' = [pci EXCEPT ![d] = [st |-> IF ret = 0 THEN "bound" ELSE "failed",
                                  res |-> held \ UndoneFrom(ProbeLabels, label),
                                  drvdata |-> null]]
    /\ work' = NoWork

\* Up to device_create: the device's file can be opened from then on, but
\* the slot does not name the device before the next step.
ProbeStart(d) ==
    /\ Running /\ "driver" \in module.res /\ module.st \in {"init", "in"}
    /\ work = NoWork /\ pci[d].st = "new"
    /\ IF g_ivpci_count >= g_max_devices
         THEN ProbeFails(d, {}, "out", -1) /\ UNCHANGED g_ivpci_devs
         ELSE LET s == vcxl_ivpci_get_device IN
              \E missing \in Unnoticed :
              \/ /\ pci' = [pci EXCEPT ![d].res = Range(ProbeSteps) \ missing]
                 /\ work' = [op |-> "probe", dev |-> d, slot |-> s]
                 /\ g_ivpci_devs' = [g_ivpci_devs EXCEPT ![s].mem_start = Remapped(missing)]
              \/ \E k \in DOMAIN ProbeSteps :
                     /\ ProbeSteps[k] \notin ErrorPointers
                     /\ ProbeFails(d, {ProbeSteps[j] : j \in 1 .. k - 1} \ missing, ProbeGoto[ProbeSteps[k]],
                                   IF ProbeSteps[k] \in SilentSteps THEN 0 ELSE -1)
                     /\ g_ivpci_devs' = IF ProbeSteps[k] = "cdev"
                                          THEN [g_ivpci_devs EXCEPT ![s].mem_start = Unmapped(Remapped(missing))]
                                          ELSE g_ivpci_devs
    /\ UNCHANGED <<module, g_ivpci_count, file, bug>>

\* vcxl_ivpci_request_msix_vectors: if it fails it undoes what it did, but
\* nvectors and the pointers stay set; NULL if the first allocation failed.
request_msix_vectors(slot, msix) == [slot EXCEPT !.nvectors = NrVectors, !.msix = msix]

\* The rest: the slot is taken, and vectors are requested.
ProbeFinish ==
    /\ Running /\ work.op = "probe"
    /\ LET d == work.dev
           s == work.slot
           taken == [g_ivpci_devs[s] EXCEPT !.dev = d]
           Fails(slot, ret) ==
               /\ g_ivpci_devs' = [g_ivpci_devs EXCEPT ![s] =
                      [slot EXCEPT !.dev = null, !.mem_start = Unmapped(@)]]
               /\ ProbeFails(d, pci[d].res, "destroy_device", ret)
               /\ UNCHANGED g_ivpci_count
           Succeeds(slot, vectors) ==
               /\ g_ivpci_devs' = [g_ivpci_devs EXCEPT ![s] = slot]
               /\ pci' = [pci EXCEPT ![d] = [st |-> "bound", res |-> @.res \union vectors, drvdata |-> s]]
               /\ work' = NoWork
               /\ g_ivpci_count' = g_ivpci_count + 1
       IN  \/ /\ IVPOSITION[d] > VCXL_MAX_SUPPORTED_MACHINES
              /\ Fails(taken, 0)
           \/ /\ IVPOSITION[d] = 0
              /\ Succeeds(taken, {})
           \/ /\ IVPOSITION[d] \in 1 .. VCXL_MAX_SUPPORTED_MACHINES
              /\ \/ Succeeds(request_msix_vectors(taken, "allocated"), {"msix"})
                 \/ \E left \in {"none", "freed"} : Fails(request_msix_vectors(taken, left), -1)
    /\ UNCHANGED <<module, file, bug>>

(***************************************************************************)
(* vcxl_ivpci_remove.                                                      *)
(***************************************************************************)

\* vcxl_ivpci_free_msix_vectors follows the entries for each of nvectors.
FreesDangling(slot) == slot.nvectors > 0 /\ slot.msix # "allocated"

free_msix_vectors(slot) == [slot EXCEPT !.msix = IF @ = "allocated" THEN "freed" ELSE @]

\* The vectors are freed and the slot is given up, while the file is still there.
RemoveStart(d) ==
    /\ Running /\ module.st \in {"in", "exit"}
    /\ work = NoWork /\ pci[d].st = "bound"
    /\ LET s == pci[d].drvdata IN
       IF s = null \/ FreesDangling(g_ivpci_devs[s])
         THEN /\ bug' = IF s = null THEN "BUG_ON" ELSE "fault"
              /\ UNCHANGED <<g_ivpci_devs, pci, work>>
         ELSE /\ g_ivpci_devs' = [g_ivpci_devs EXCEPT ![s] = [free_msix_vectors(@) EXCEPT !.dev = null]]
              /\ pci' = [pci EXCEPT ![d].res = @ \ {"msix"}]
              /\ work' = [op |-> "remove", dev |-> d, slot |-> s]
              /\ UNCHANGED bug
    /\ UNCHANGED <<module, g_ivpci_count, file>>

\* A device that was unplugged may be plugged in again.
RemoveFinish ==
    /\ Running /\ work.op = "remove"
    /\ g_ivpci_devs' = [g_ivpci_devs EXCEPT ![work.slot].mem_start = Unmapped(@)]
    /\ pci' = [pci EXCEPT ![work.dev] = [st |-> "new", res |-> {}, drvdata |-> null]]
    /\ work' = NoWork
    /\ UNCHANGED <<module, g_ivpci_count, file, bug>>

(***************************************************************************)
(* The device file.                                                        *)
(***************************************************************************)

\* The minor number of the device whose file is there is that of its slot.
MinorOf(d) == IF work.dev = d THEN work.slot ELSE pci[d].drvdata

vcxl_ivpci_find_device(minor) == IF g_ivpci_devs[minor].dev # null THEN minor ELSE null

vcxl_ivpci_open(p, d) ==
    /\ Running /\ module.st \in {"init", "in"} /\ file[p] = NoFile
    /\ "file" \in pci[d].res
    /\ LET s == vcxl_ivpci_find_device(MinorOf(d)) IN
       /\ file' = [file EXCEPT ![p].private_data = s]
       /\ bug' = IF s = null THEN "BUG_ON" ELSE "no"
    /\ UNCHANGED <<module, g_ivpci_count, g_ivpci_devs, pci, work>>

FileSlot(p) == g_ivpci_devs[file[p].private_data]

\* A length beyond the memory is refused and changes nothing.
vcxl_ivpci_mmap(p) ==
    /\ Running /\ file[p] # NoFile /\ ~file[p].mapped
    /\ IF FileSlot(p).mem_start = null
         THEN bug' = "BUG_ON" /\ UNCHANGED file
         ELSE file' = [file EXCEPT ![p].mapped = TRUE] /\ UNCHANGED bug
    /\ UNCHANGED <<module, g_ivpci_count, g_ivpci_devs, pci, work>>

\* A page of memory that is mapped changes nothing here.
vcxl_ivpci_mmap_fault(p) ==
    /\ Running /\ file[p].mapped /\ FileSlot(p).mem_start # "mapped"
    /\ bug' = IF FileSlot(p).mem_start = null THEN "BUG_ON" ELSE "fault"
    /\ UNCHANGED <<module, g_ivpci_count, g_ivpci_devs, pci, work, file>>

\* The message it logs follows dev, which is NULL once the device is removed.
vcxl_ivpci_release(p) ==
    /\ Running /\ file[p] # NoFile
    /\ bug' = CASE FileSlot(p).mem_start = null -> "BUG_ON"
                [] FileSlot(p).mem_start # null /\ FileSlot(p).dev = null -> "fault"
                [] OTHER -> "no"
    /\ file' = [file EXCEPT ![p] = NoFile]
    /\ UNCHANGED <<module, g_ivpci_count, g_ivpci_devs, pci, work>>

Next ==
    \/ insmodStep \/ rmmod \/ vcxl_ivpci_exit
    \/ \E d \in DEVICES : ProbeStart(d) \/ RemoveStart(d) \/ \E p \in PROCS : vcxl_ivpci_open(p, d)
    \/ ProbeFinish \/ RemoveFinish
    \/ \E p \in PROCS : vcxl_ivpci_mmap(p) \/ vcxl_ivpci_mmap_fault(p) \/ vcxl_ivpci_release(p)

Spec == Init /\ [][Next]_vars

(***************************************************************************)
(* Properties.                                                             *)
(***************************************************************************)

Vectors(d) == IF IVPOSITION[d] = 0 THEN {} ELSE {"msix"}

\* Between probes and removals a device is the driver's completely or not at
\* all, whatever failed on the way: with driver data it holds all resources but
\* those that the kernel refused by an error pointer, its slot names it and no
\* other slot does, and mem_start says whether the memory is mapped; without, it
\* holds none and no slot names it (the labels of vcxl_ivpci_probe,
\* vcxl_ivpci_remove).
DevicesWhole ==
    \A d \in DEVICES :
        work.dev # d =>
            IF pci[d].drvdata # null
              THEN /\ pci[d].res \union ErrorPointers = Range(ProbeSteps) \union Vectors(d)
                   /\ {s \in SLOTS : g_ivpci_devs[s].dev = d} = {pci[d].drvdata}
                   /\ g_ivpci_devs[pci[d].drvdata].mem_start =
                        (IF "bar2" \in pci[d].res THEN "mapped" ELSE "error")
              ELSE /\ pci[d].res = {}
                   /\ \A s \in SLOTS : g_ivpci_devs[s].dev # d

\* BUG_ON(filp->private_data == NULL) in vcxl_ivpci_open, BUG_ON(ivpci_dev ==
\* NULL) in vcxl_ivpci_remove and those on mem_start never strike: whoever opens
\* the file finds the device, and a device that is removed has its slot.
NoBugOn == bug # "BUG_ON"
==============================================================================
