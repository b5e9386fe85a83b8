------------------------------ MODULE CxlAlloc ------------------------------
(***************************************************************************)
(* The allocator operations of driver/src/buddy_alloc.c on top of the redo *)
(* log: allocate, free and find, and the recovery of a machine that boots. *)
(* Shared metadata: the buddy tree (here the set of busy blocks, all of    *)
(* the size an object needs), pools of object headers with a bitmap and a  *)
(* count of free slots, the list of the headers in use, and the list of    *)
(* the pools.  Pool 0 is the reserved one; a pool made later lies in the   *)
(* block of its number.                                                    *)
(***************************************************************************)
EXTENDS Integers, Sequences, FiniteSetsExt, TLC

CONSTANTS
  Machines,
  Ids,                  \* prog_ids: the names of objects
  NumBlocks,            \* how many objects the memory can hold
  NUM_OBJ_SLOTS,        \* headers per pool
  REDOLOG_ENTRIES,
  FreeWhere,            \* which headers get freed: only, first, middle, last
  MaxCrashes

Blocks == 1..NumBlocks

\* A pool in a block is only needed when headers run out before memory does.
Pools == {0} \cup (IF NUM_OBJ_SLOTS >= NumBlocks THEN {} ELSE Blocks)

\* Addresses of headers and pools; 0 is the null offset.
NULL == 0
Hdr(pool, slot) == pool * NUM_OBJ_SLOTS + slot
Hdrs == {Hdr(r, s) : r \in Pools, s \in 1..NUM_OBJ_SLOTS}
PoolOf(h) == (h - 1) \div NUM_OBJ_SLOTS
PoolPtr(r) == r + 1

\* The two list_queues, by the names of their fields.
ObjHeaders == [pe_first |-> "first", pe_tail |-> "tail",
               pe_next |-> "next", pe_prev |-> "prev"]
ObjAllocs == [pe_first |-> "afirst", pe_tail |-> "atail",
              pe_next |-> "anext", pe_prev |-> "aprev"]

\* The first words of the shared memory: no metadata of the allocator is there
\* (a futex queue is), but the offsets 0 and 8 can be computed from NULL.
Offset0 == <<"off", 0>>
Offset8 == <<"off", 8>>

Words ==
  ({"busy"} \X Blocks)
    \cup ({"next", "prev", "bit", "obj", "id"} \X Hdrs)
    \cup ({"available_slots"} \X Pools)
    \cup ({"anext", "aprev"} \X {PoolPtr(r) : r \in Pools})
    \cup ({"first", "tail", "afirst", "atail"} \X {0})
    \cup {Offset8}

-----------------------------------------------------------------------------
(* Log entries: what execute_log does for each type *)

BUDDY_ALLOC(b) == <<"busy", b>> :> 1

BUDDY_FREE(b) == <<"busy", b>> :> 0

VAL(off, value) == off :> value

\* The second store wins where the two meet.
TWO_VAL_LOG(off1, value1, off2, value2) == (off2 :> value2) @@ (off1 :> value1)

OBJ_HDR_ALLOC(h, b, id, available) ==
  (<<"bit", h>> :> 1) @@ (<<"available_slots", PoolOf(h)>> :> available)
    @@ (<<"obj", h>> :> b) @@ (<<"id", h>> :> id)

OBJ_HDR_FREE(h, available) ==
  (<<"bit", h>> :> 0) @@ (<<"available_slots", PoolOf(h)>> :> available)

\* init_obj_allocation_records
INIT_OBJ_ALLOC_RECS(r) ==
  (<<"anext", PoolPtr(r)>> :> NULL) @@ (<<"aprev", PoolPtr(r)>> :> NULL)
    @@ (<<"available_slots", r>> :> NUM_OBJ_SLOTS)
    @@ [l \in {"bit"} \X {Hdr(r, s) : s \in 1..NUM_OBJ_SLOTS} |-> 0]

-----------------------------------------------------------------------------
VARIABLES
  users, recoverers, needsReplay, mem, log, plan, pos, pc, crashes,
  up,           \* machines that are up; the others are down or in recover_meta
  cur_obj_recs, \* in each machine's DRAM: the pool it takes headers from
  bug           \* a BUG_ON or a null dereference stopped a machine

\* The operations below are Begin steps with plans of their own.
R == INSTANCE RedoLog WITH Loc <- Words, Val <- Nat, Plans <- {}

vars == <<users, recoverers, needsReplay, mem, log, plan, pos, pc, crashes,
          up, cur_obj_recs, bug>>

InitialMeta == [l \in Words |->
  CASE l[1] = "available_slots" /\ l[2] = 0 -> NUM_OBJ_SLOTS
    [] l[1] \in {"afirst", "atail"} -> PoolPtr(0)
    [] OTHER -> 0]

\* vcxl_init_meta_impl
Init ==
  /\ R!Lock!Init
  /\ mem = InitialMeta
  /\ log = [i \in R!Slots |-> R!EMPTY_LOG_ENTRY]
  /\ plan = <<>> /\ pos = 1 /\ pc = "out" /\ crashes = 0
  /\ up = Machines
  /\ cur_obj_recs = [m \in Machines |-> PoolPtr(0)]
  /\ bug = FALSE

-----------------------------------------------------------------------------
(* list_queue.c *)

At(field, n) == mem[<<field, n>>]

le_next_optr(lq, le) == IF le = NULL THEN Offset0 ELSE <<lq.pe_next, le>>
le_prev_optr(lq, le) == IF le = NULL THEN Offset8 ELSE <<lq.pe_prev, le>>

\* Mutant: the tail is not moved to the new entry.
append_keeping_tail(lq, le) ==
  LET tail == At(lq.pe_tail, 0) IN
  << IF At(lq.pe_first, 0) = NULL
     THEN TWO_VAL_LOG(le_prev_optr(lq, le), NULL, <<lq.pe_first, 0>>, le)
     ELSE TWO_VAL_LOG(le_prev_optr(lq, le), tail, le_next_optr(lq, tail), le),
     VAL(le_next_optr(lq, le), NULL) >>

record_list_queue_append(lq, le) ==
  LET tail == At(lq.pe_tail, 0) IN
  << IF At(lq.pe_first, 0) = NULL
     THEN TWO_VAL_LOG(le_prev_optr(lq, le), NULL, <<lq.pe_first, 0>>, le)
     ELSE TWO_VAL_LOG(le_prev_optr(lq, le), tail, le_next_optr(lq, tail), le),
     TWO_VAL_LOG(le_next_optr(lq, le), NULL, <<lq.pe_tail, 0>>, le) >>

\* Mutant: the only entry of the list is treated like any other.
remove_without_only_case(lq, le) ==
  LET first == At(lq.pe_first, 0)
      next == At(lq.pe_next, le)
      prev == At(lq.pe_prev, le)
  IN  <<TWO_VAL_LOG(le_prev_optr(lq, next), prev, le_next_optr(lq, prev), next)>>
        \o (IF first = le THEN <<VAL(<<lq.pe_first, 0>>, next)>> ELSE <<>>)

\* pe_tail is left as it is.
record_list_queue_remove(lq, le) ==
  LET first == At(lq.pe_first, 0)
      next == At(lq.pe_next, le)
      prev == At(lq.pe_prev, le)
  IN  IF first = le /\ next = NULL
      THEN <<VAL(<<lq.pe_first, 0>>, NULL)>>
      ELSE <<TWO_VAL_LOG(le_prev_optr(lq, next), prev, le_next_optr(lq, prev), next)>>
             \o (IF first = le THEN <<VAL(<<lq.pe_first, 0>>, next)>> ELSE <<>>)

\* The loops that follow pe_next from pe_first: the entry they are at after i
\* steps, in memory v; NULL once they are past the end.
Walk(v, lq, size) ==
  LET at[i \in 0..size] ==
        IF i = 0 THEN v[<<lq.pe_first, 0>>]
        ELSE IF at[i - 1] = NULL THEN NULL ELSE v[<<lq.pe_next, at[i - 1]>>]
  IN  at

ObjWalk(v) == Walk(v, ObjHeaders, Cardinality(Hdrs))
PoolWalk(v) == Walk(v, ObjAllocs, Cardinality(Pools))

\* The steps at which the search for a prog_id has found a header.
Hits(id) ==
  LET at == ObjWalk(mem) IN
  {i \in DOMAIN at : at[i] # NULL /\ At("id", at[i]) = id}

FoundHdr(id) == ObjWalk(mem)[Min(Hits(id))]

-----------------------------------------------------------------------------
(* The operations *)

FreeBlocks == {b \in Blocks : At("busy", b) = 0}

\* buddy_malloc_find_pos: a function of the tree alone.
find_pos == Min(FreeBlocks)

\* Mutant: the count of free slots is not lowered.
hdr_alloc_uncounted(m, b, id) ==
  LET r == cur_obj_recs[m] - 1
      slot == Min({s \in 1..NUM_OBJ_SLOTS : At("bit", Hdr(r, s)) = 0})
  IN  [hdr |-> Hdr(r, slot),
       entries |-> <<OBJ_HDR_ALLOC(Hdr(r, slot), b, id, At("available_slots", r))>>]

\* record_obj_hdr_alloc: a slot of the machine's pool, or of a new pool.
record_obj_hdr_alloc(m, b, id) ==
  LET r == cur_obj_recs[m] - 1
      available == At("available_slots", r)
      slot == Min({s \in 1..NUM_OBJ_SLOTS : At("bit", Hdr(r, s)) = 0})
      new == find_pos
  IN  IF available > 0
      THEN [hdr |-> Hdr(r, slot),
            entries |-> <<OBJ_HDR_ALLOC(Hdr(r, slot), b, id, available - 1)>>]
      ELSE [hdr |-> Hdr(new, 1),
            entries |-> <<BUDDY_ALLOC(new)>>
                          \o record_list_queue_append(ObjAllocs, PoolPtr(new))
                          \o << INIT_OBJ_ALLOC_RECS(new),
                                OBJ_HDR_ALLOC(Hdr(new, 1), b, id, NUM_OBJ_SLOTS - 1) >>]

\* Mutant: the block is not marked in the buddy tree.
alloc_unmarked(m, id) ==
  LET rec == record_obj_hdr_alloc(m, find_pos, id) IN
  rec.entries \o record_list_queue_append(ObjHeaders, rec.hdr)

\* atomic_allocate_memory_lockheld
AllocPlan(m, id) ==
  LET rec == record_obj_hdr_alloc(m, find_pos, id) IN
  <<BUDDY_ALLOC(find_pos)>> \o rec.entries \o record_list_queue_append(ObjHeaders, rec.hdr)

\* atomic_free_memory, from where the header is found
FreePlan(h) ==
  <<BUDDY_FREE(At("obj", h))>>
    \o record_list_queue_remove(ObjHeaders, h)
    \o <<OBJ_HDR_FREE(h, At("available_slots", PoolOf(h)) + 1)>>

Place(h) ==
  LET isFirst == At("first", 0) = h
      isLast == At("next", h) = NULL
  IN  IF isFirst THEN IF isLast THEN "only" ELSE "first"
                 ELSE IF isLast THEN "last" ELSE "middle"

\* find_allocation, and atomic_allocate_memory by a caller that uses a new
\* prog_id: an object that is not found is allocated.  Without a free block
\* the call returns -ENOMEM and nothing changes.
find_allocation(m, id) ==
  /\ m \in up
  /\ Hits(id) = {}
  /\ FreeBlocks # {}
  /\ cur_obj_recs[m] # NULL
  /\ R!Begin(m, AllocPlan(m, id))
  /\ UNCHANGED <<up, cur_obj_recs, bug>>

\* The same call on a machine that recovered while every pool was full: the
\* null pointer is followed, with the lock held and one entry recorded.
find_allocation_without_pool(m, id) ==
  /\ m \in up
  /\ Hits(id) = {}
  /\ FreeBlocks # {}
  /\ cur_obj_recs[m] = NULL
  /\ pc = "out" /\ ~needsReplay
  /\ log' = [log EXCEPT ![1] = R!OpEntry(BUDDY_ALLOC(find_pos)),
                        ![2] = R!EMPTY_LOG_ENTRY]
  /\ needsReplay' = TRUE
  /\ up' = up \ {m}
  /\ bug' = TRUE
  /\ UNCHANGED <<users, recoverers, mem, plan, pos, pc, crashes, cur_obj_recs>>

atomic_free_memory(m, id) ==
  /\ m \in up
  /\ Hits(id) # {}
  /\ Place(FoundHdr(id)) \in FreeWhere
  /\ R!Begin(m, FreePlan(FoundHdr(id)))
  /\ UNCHANGED <<up, cur_obj_recs, bug>>

\* The part of an operation that writes the log.
Record ==
  /\ \/ R!set_log_entry
     \/ R!erase_next
     \/ R!set_commit_type
     \/ R!set_commit_checksum
  /\ UNCHANGED <<up, cur_obj_recs, bug>>

Inside(m) == users \cup recoverers = {m}

\* execute_log; a new pool becomes the pool of whoever executes its entry.
execute_log(m) ==
  /\ Inside(m)
  /\ R!execute_log
  /\ cur_obj_recs' =
       [cur_obj_recs EXCEPT ![m] =
          IF \E r \in Pools : plan[pos] = INIT_OBJ_ALLOC_RECS(r)
          THEN PoolPtr(CHOOSE r \in Pools : plan[pos] = INIT_OBJ_ALLOC_RECS(r))
          ELSE @]
  /\ UNCHANGED <<up, bug>>

\* BUG_ON(dst2 == NULL) in execute_log, after the first of the two stores.
BUG_ON(m) ==
  /\ R!Lock!Die(m)
  /\ pc = "exec" /\ pos <= Len(plan)
  /\ Offset0 \in DOMAIN plan[pos]
  /\ mem' = R!Assign([l \in DOMAIN plan[pos] \ {Offset0} |-> plan[pos][l]], mem)
  /\ pc' = "out" /\ plan' = <<>> /\ pos' = 1
  /\ up' = up \ {m}
  /\ bug' = TRUE
  /\ UNCHANGED <<log, crashes, cur_obj_recs>>

\* The rest of recover_meta: the first pool in the list with a free slot.
PoolAfterRecovery ==
  LET at == PoolWalk(mem)
      usable == {i \in DOMAIN at : at[i] # NULL /\ At("available_slots", at[i] - 1) # 0}
  IN  IF usable = {} THEN NULL ELSE at[Min(usable)]

\* The end of an operation, of a helper's recovery, or of recover_meta, which
\* fails when the log is malformed: the machine does not come up then.
Unlock(m) ==
  /\ R!Unlock(m)
  /\ IF m \notin up /\ pc # "failed"
     THEN /\ up' = up \cup {m}
          /\ cur_obj_recs' = [cur_obj_recs EXCEPT ![m] = PoolAfterRecovery]
     ELSE UNCHANGED <<up, cur_obj_recs>>
  /\ UNCHANGED bug

\* A helper recovers (m is up), or a machine boots (m is not).
Recover(m) ==
  /\ R!recover_with_redolog(m)
  /\ UNCHANGED <<up, cur_obj_recs, bug>>

\* A machine dies, inside the lock or not.
Crash(m) ==
  /\ \/ R!Crash(m)
     \/ /\ ~Inside(m)
        /\ m \in up
        /\ UNCHANGED <<users, recoverers, needsReplay, mem, log, plan, pos, pc, crashes>>
  /\ up' = up \ {m}
  /\ UNCHANGED <<cur_obj_recs, bug>>

Next ==
  \/ Record
  \/ \E m \in Machines :
       \/ execute_log(m) \/ Unlock(m) \/ Recover(m) \/ Crash(m) \/ BUG_ON(m)
       \/ \E id \in Ids :
            \/ find_allocation(m, id)
            \/ find_allocation_without_pool(m, id)
            \/ atomic_free_memory(m, id)

Spec == Init /\ [][Next]_vars

-----------------------------------------------------------------------------
(* The metadata in memory v *)

InUse(v) == {h \in Hdrs : v[<<"bit", h>>] = 1}

LivePools(v) == LET at == PoolWalk(v) IN {at[i] - 1 : i \in DOMAIN at} \ {-1}

\* The search of find_allocation, atomic_free_memory and check_allocation meets
\* every header in use, no other, and comes to an end, whenever a machine dies:
\* "all allocation should be in index" (atomic_free_memory).
ListComplete ==
  LET v == R!View
      at == ObjWalk(v)
  IN
  /\ {at[i] : i \in DOMAIN at} \ {NULL} = InUse(v)
  /\ at[Cardinality(Hdrs)] = NULL

\* The BUG_ONs of check_allocation on the bitmap: the count of free slots fits
\* it in every pool, whenever a machine dies and whoever executes the log.
SlotsCounted ==
  LET v == R!View IN
  \A r \in LivePools(v) :
    LET used == {s \in 1..NUM_OBJ_SLOTS : v[<<"bit", Hdr(r, s)>>] = 1} IN
    v[<<"available_slots", r>>] = NUM_OBJ_SLOTS - Cardinality(used)

\* Two objects never share a block, and the buddy tree knows exactly the blocks
\* in use (check_allocation's last BUG_ON): no crash leaks a block or hands one
\* out twice.  The clauses about further pools of headers say something only
\* where the first pool can fill up.
BlocksDisjoint ==
  LET v == R!View
      used == InUse(v)
      obj(h) == v[<<"obj", h>>]
      pools == LivePools(v) \ {0}
  IN  /\ \A h, k \in used : obj(h) = obj(k) => h = k
      /\ \A h \in used : obj(h) \notin pools
      /\ {b \in Blocks : v[<<"busy", b>>] = 1} = pools \cup {obj(h) : h \in used}

\* A plan as RedoLog assumes them: room for the commit record, no null pointer.
Loggable(p) ==
  /\ Len(p) \in 1 .. (REDOLOG_ENTRIES - 1)
  /\ \A i \in 1..Len(p) : DOMAIN p[i] \subseteq DOMAIN mem

\* Every step is one of RedoLog, with all loggable sequences of entries for
\* Plans, so allocating and freeing are atomic.  In particular no operation
\* records entries that make an old commit record believable again (Fresh).
RedoLogStep ==
  \E m \in Machines :
    R!Step(m) \/ (Loggable(plan') /\ R!Fresh(plan') /\ R!Begin(m, plan'))

ImplementsRedoLog == [][RedoLogStep]_(R!vars)

\* execute_log never meets the null pointers its BUG_ONs test for, and no
\* operation follows one.
NoBug == ~bug
=============================================================================
