---------------------------- MODULE MCAllocator ----------------------------
(***************************************************************************)
(* The allocator in five behaviours: the redo log with operations of one   *)
(* to three entries that overwrite one another (redo); the allocator's     *)
(* operations on it, freeing headers where that is sound (alloc) and       *)
(* anywhere (anyfree); the buddy tree that the entries BUDDY_ALLOC and     *)
(* BUDDY_FREE change (buddy); and all the calls of the buddy library       *)
(* (arena).                                                                *)
(***************************************************************************)
EXTENDS RedoLog, BuddyTree, TLC

VARIABLES part,
          meta, redolog, entries, step,     \* of CxlAlloc: mem, log, plan, pc
          up, cur_obj_recs, bug,            \* of CxlAlloc
          memory_size                       \* of BuddyArena

logVars == <<mem, log, plan, pc>>
allocVars == <<meta, redolog, entries, step, up, cur_obj_recs, bug>>
entryVars == <<todo, entry, stage, chain_pos, size_current, damaged, deaths>>
treeVars == <<tree, held, entryVars, memory_size>>

allVars == <<part, lockVars, pos, crashes, logVars, allocVars, treeVars>>

\* The variables of a part that is not there; the log of redo is unused.
NoRedo ==
  /\ mem = [l \in Loc |-> 0]
  /\ log = [k \in Slots |-> EMPTY_LOG_ENTRY]
  /\ plan = <<>>
  /\ pc = "out"
NoAlloc ==
  /\ meta = 0 /\ redolog = 0 /\ entries = 0 /\ step = 0
  /\ up = 0 /\ cur_obj_recs = 0 /\ bug = 0
NoEntries ==
  /\ todo = 0 /\ entry = 0 /\ stage = "none" /\ chain_pos = 0 /\ size_current = 0
  /\ damaged = TRUE /\ deaths = 0
NoTree == tree = 0 /\ held = 0 /\ NoEntries /\ memory_size = 0

Set(l, v) == l :> v
Both(v, w) == ("x" :> v) @@ ("y" :> w)

\* The operations overwrite one another's locations, inside a plan too, and
\* leave commit records at three places of the log.
MCPlans ==
  { <<Set("x", 1)>>,
    <<Set("x", 0), Set("y", 1)>>,
    <<Both(1, 0), Set("x", 0)>>,
    <<Set("y", 0), Both(0, 1), Set("x", 1)>> }

\* Three objects, and headers for four.
Alloc == INSTANCE CxlAlloc WITH
  Ids <- {1, 2, 3}, NumBlocks <- 3, NUM_OBJ_SLOTS <- 4, REDOLOG_ENTRIES <- 6,
  FreeWhere <- {"only", "middle"}, MaxCrashes <- 1,
  mem <- meta, log <- redolog, plan <- entries, pc <- step

\* Two objects, headers for two, and one machine, which comes back twice.
AnyFree == INSTANCE CxlAlloc WITH
  Machines <- {CHOOSE m \in Machines : TRUE},
  Ids <- {1, 2}, NumBlocks <- 2, NUM_OBJ_SLOTS <- 2, REDOLOG_ENTRIES <- 6,
  FreeWhere <- {"only", "first", "middle", "last"}, MaxCrashes <- 2,
  mem <- meta, log <- redolog, plan <- entries, pc <- step

\* A machine may die at the start of an entry and while it repairs ancestors.
Anywhere == {"BUDDY_ALLOC", "BUDDY_FREE"} \X {"start", "chain"}

\* Up to eight blocks, in sizes for which buddy_is_free is exact; the caller
\* halves an arena only when it is empty.
Arena == INSTANCE BuddyArena WITH
  SIZES <- {2, 4, 6, 8}, REQUESTS <- {1, 2, 3, 6}, ShrinkUsed <- FALSE

ASSUME PlansFit /\ OrderFits

MCInit ==
  \/ part = "redo" /\ Init /\ NoAlloc /\ NoTree
  \/ part = "alloc" /\ Alloc!Init /\ NoRedo /\ NoTree
  \/ part = "anyfree" /\ AnyFree!Init /\ NoRedo /\ NoTree
  \/ /\ NoRedo /\ Lock!Init /\ pos = 0 /\ crashes = 0 /\ NoAlloc
     /\ \/ part = "buddy" /\ BuddyInit /\ memory_size = 0
        \/ part = "arena" /\ Arena!Init /\ NoEntries

MCNext ==
  /\ UNCHANGED part
  /\ \/ part = "redo" /\ Next /\ UNCHANGED <<allocVars, treeVars>>
     \/ part = "alloc" /\ Alloc!Next /\ UNCHANGED <<logVars, treeVars>>
     \/ part = "anyfree" /\ AnyFree!Next /\ UNCHANGED <<logVars, treeVars>>
     \/ /\ UNCHANGED <<lockVars, pos, crashes, logVars, allocVars>>
        /\ \/ part = "buddy" /\ BuddyNext /\ UNCHANGED memory_size
           \/ part = "arena" /\ Arena!Next /\ UNCHANGED entryVars

InRedo(A) == part = "redo" /\ A /\ UNCHANGED <<part, allocVars, treeVars>>

MCSpec ==
  /\ MCInit /\ [][MCNext]_allVars
  /\ WF_allVars(InRedo(Runs)) /\ WF_allVars(InRedo(Leaves)) /\ WF_allVars(InRedo(Recovers))

\* The types of the redo log's variables and of the buddy tree's.
TypesOK == (part = "redo" => TypeOK) /\ (part = "buddy" => BuddyTypeOK)

\* After every call of the library the blocks in use share no memory, those that
\* realloc moved and resize kept included (buddy_realloc, buddy_resize), the
\* bits of the tree are those of the blocks (TreeExact), and buddy_walk,
\* buddy_arena_free_size, buddy_is_free and buddy_is_full say so (AnswersExact).
ArenaExact ==
  part = "arena" => Arena!BlocksDisjoint /\ Arena!TreeExact /\ Arena!AnswersExact

\* What check_allocation looks for, whenever a machine dies: the list of headers
\* is complete, no two objects share a block, the tree knows exactly the blocks
\* in use, and the count of free slots fits the bitmap of the pool, the last
\* also when any header is freed.  The first pool has a slot for every id.
MetadataConsistent ==
  /\ part = "alloc" => Alloc!ListComplete /\ Alloc!BlocksDisjoint /\ Alloc!SlotsCounted
  /\ part = "anyfree" => AnyFree!SlotsCounted

\* execute_log's BUG_ONs on null pointers never strike (NoBug).
NoBug == part = "alloc" => Alloc!NoBug

\* Allocating and freeing are operations of the redo log (ImplementsRedoLog).
ImplementsRedoLog == [][part = "alloc" => [Alloc!RedoLogStep]_(Alloc!R!vars)]_allVars
=============================================================================
