----------------------------- MODULE BuddyTree -----------------------------
(***************************************************************************)
(* The buddy tree (src/buddy/include/buddy_alloc.h) and the two log        *)
(* entries that change it: BUDDY_ALLOC marks a position, BUDDY_FREE        *)
(* releases one.  The status of a position says how deep the largest free  *)
(* block below it is: 0 when all of it is free, its local offset when none *)
(* is.  Marking and releasing write the position and then repair its       *)
(* ancestors one by one; each store is a step, because a machine may die   *)
(* between two of them, and then whoever recovers executes the entry again *)
(* from its beginning.  The bits that hold a status are abstracted to the  *)
(* number they encode, and sizes are counted in units of the alignment.    *)
(***************************************************************************)
EXTENDS Integers

CONSTANTS
  Order,            \* the order of the tree: the depth of the smallest blocks
  MemSize,          \* memory_size, in smallest blocks
  CrashPoints,      \* the entries and places at which a machine may die
  MaxDeaths         \* bound: how many machines die

\* The shifts 1 << n of the code.
pow2[n \in Nat] == IF n = 0 THEN 1 ELSE 2 * pow2[n - 1]

effective_memory_size == pow2[Order - 1]

\* buddy_tree_order_for_memory takes the smallest order that covers the memory.
OrderFits ==
  /\ Order \in Nat \ {0}
  /\ MemSize \in 1..effective_memory_size
  /\ 2 * MemSize > effective_memory_size

-----------------------------------------------------------------------------
(* Positions *)

upper_pos_bound == pow2[Order]

Indices == 1..(upper_pos_bound - 1)

INVALID_POS == [index |-> 0, depth |-> 0]

root == [index |-> 1, depth |-> 1]

left_child(at) == [index |-> 2 * at.index, depth |-> at.depth + 1]
right_child(at) == [index |-> 2 * at.index + 1, depth |-> at.depth + 1]
parent(at) == [index |-> at.index \div 2, depth |-> at.depth - 1]

\* Where the loops that climb from parent to parent are when they reach a depth.
Ancestor(at, depth) == [index |-> at.index \div pow2[at.depth - depth], depth |-> depth]

\* buddy_tree_sibling flips the lowest bit of the index.
sibling(index) == IF index % 2 = 1 THEN index - 1 ELSE index + 1

valid(at) == at.index # 0 /\ at.index < upper_pos_bound

local_offset(at) == Order - at.depth + 1

size_for_depth(depth) == effective_memory_size \div pow2[depth - 1]

Positions ==
  {at \in [index : Indices, depth : 1..Order] :
     pow2[at.depth - 1] <= at.index /\ at.index < pow2[at.depth]}

\* buddy_tree_interval: the smallest blocks that a position covers.
Interval(at) ==
  LET below == pow2[Order - at.depth] IN
  (at.index * below) .. (at.index * below + below - 1)

Overlap(a, b) == Interval(a) \cap Interval(b) # {}

\* Halve the memory while two requests fit.
depth_for_size(size) ==
  CHOOSE d \in 1..Order :
    /\ size_for_depth(d) \div size < 2
    /\ \A e \in 1..(d - 1) : size_for_depth(e) \div size >= 2

\* buddy_toggle_virtual_slots masks the end of the effective memory that does
\* not exist.  A turn of its loop looks at a position, with `delta' blocks yet
\* to mask at the end of it; delta is 0 when the loop is over.
NextTurn(turn) ==
  LET size == size_for_depth(turn.at.depth) IN
  IF turn.delta = size THEN [at |-> right_child(turn.at), delta |-> 0]
  ELSE IF turn.delta <= size \div 2 THEN [at |-> right_child(turn.at), delta |-> turn.delta]
  ELSE [at |-> left_child(turn.at), delta |-> turn.delta - size \div 2]

\* The turn that looks at a position of depth d.
Turn[d \in 2..Order] ==
  IF d = 2 THEN [at |-> right_child(root), delta |-> effective_memory_size - MemSize]
  ELSE NextTurn(Turn[d - 1])

\* What a turn masks.
Masks(turn) ==
  LET size == size_for_depth(turn.at.depth) IN
  IF turn.delta = 0 THEN {}
  ELSE IF turn.delta = size THEN {turn.at}
  ELSE IF turn.delta <= size \div 2 THEN {}
  ELSE {right_child(turn.at)}

Virtual == UNION {Masks(Turn[d]) : d \in 2..Order}

-----------------------------------------------------------------------------
VARIABLES
  tree,             \* the status of every position
  held,             \* history: the positions marked for good
  todo,             \* the virtual slots that formatting has yet to mask
  entry,            \* the entry being executed
  stage,            \* "idle", at the "start" of the entry, or in its "chain"
  chain_pos,        \* update_parent_chain: the position last written
  size_current,     \* and its status
  damaged,          \* history: a machine died while it repaired ancestors
  deaths

buddyVars == <<tree, held, todo, entry, stage, chain_pos, size_current, damaged, deaths>>

NoEntry == [tp |-> "INVALID", at |-> INVALID_POS]

BuddyInit ==
  /\ tree = [i \in Indices |-> 0]
  /\ held = {}
  /\ todo = Virtual
  /\ entry = NoEntry
  /\ stage = "idle"
  /\ chain_pos = INVALID_POS
  /\ size_current = 0
  /\ damaged = FALSE
  /\ deaths = 0

Blocks == held \ Virtual

-----------------------------------------------------------------------------
(* Searching the tree *)

\* Mutant: a branch whose largest free block is one level too small is entered.
Descend_too_far(at, target_status) ==
  LET left == left_child(at)
      right == right_child(at)
  IN  IF tree[left.index] > target_status + 1 THEN right
      ELSE IF tree[right.index] > target_status + 1 THEN left
      ELSE IF tree[right.index] # 0 /\ tree[left.index] < tree[right.index] THEN right
      ELSE left

\* A turn of the loop of buddy_tree_find_free: away from a branch that is too
\* busy for the target, else into the busier one, else left.
Descend(at, target_status) ==
  LET left == left_child(at)
      right == right_child(at)
  IN  IF tree[left.index] >= target_status + 1 THEN right
      ELSE IF tree[right.index] >= target_status + 1 THEN left
      ELSE IF tree[right.index] # 0 /\ tree[left.index] < tree[right.index] THEN right
      ELSE left

\* Mutant: a root with one block left at the target depth is refused.
find_free_too_strict(target_depth) ==
  LET at[d \in 1..target_depth] ==
        IF d = 1 THEN root ELSE Descend(at[d - 1], target_depth - d)
  IN  IF tree[1] >= target_depth - 1 THEN INVALID_POS ELSE at[target_depth]

find_free(target_depth) ==
  LET at[d \in 1..target_depth] ==
        IF d = 1 THEN root ELSE Descend(at[d - 1], target_depth - d)
  IN  IF tree[1] > target_depth - 1 THEN INVALID_POS ELSE at[target_depth]

malloc_find_pos(size) ==
  IF size > MemSize THEN INVALID_POS ELSE find_free(depth_for_size(size))

\* address_for_position, in smallest blocks.
address(at) == at.index * pow2[Order - at.depth] - effective_memory_size

\* Climb from the smallest block at the address to the first position with a
\* status, which must start at that address.
position_for_address(block) ==
  LET smallest == [index |-> effective_memory_size + block, depth |-> Order]
      marked == {d \in 1..Order : tree[Ancestor(smallest, d).index] # 0}
      at == Ancestor(smallest, CHOOSE d \in marked : \A e \in marked : e <= d)
  IN  IF marked = {} \/ address(at) # block THEN INVALID_POS ELSE at

\* buddy_free_find_pos: the length must be one that such a block is used for.
free_find_pos(block, size) ==
  LET at == position_for_address(block)
      allocated == size_for_depth(at.depth)
  IN  IF valid(at) /\ size <= allocated /\ size > allocated \div 2
      THEN at ELSE INVALID_POS

\* buddy_tree_is_free: no status here, and no ancestor that is wholly used.
is_free(at) ==
  LET used == {d \in 1..(at.depth - 1) : tree[Ancestor(at, d).index] # 0}
      nearest == Ancestor(at, CHOOSE d \in used : \A e \in used : e <= d)
  IN  /\ tree[at.index] = 0
      /\ used = {} \/ tree[nearest.index] # local_offset(nearest)

-----------------------------------------------------------------------------
(* Executing an entry *)

Start(tp, at) ==
  /\ stage = "idle"
  /\ entry' = [tp |-> tp, at |-> at]
  /\ stage' = "start"
  /\ UNCHANGED <<tree, held, chain_pos, size_current, damaged, deaths>>

\* Formatting masks the virtual slots one after the other, largest first.
toggle_virtual_slots ==
  \E at \in todo :
    /\ \A other \in todo : at.depth <= other.depth
    /\ Start("MASK", at)
    /\ todo' = todo \ {at}

Malloc(size) ==
  /\ todo = {}
  /\ valid(malloc_find_pos(size))
  /\ Start("BUDDY_ALLOC", malloc_find_pos(size))
  /\ UNCHANGED todo

\* A block is freed with a length that such a block is allocated for.
Free(at, size) ==
  /\ todo = {}
  /\ at \in Blocks
  /\ depth_for_size(size) = at.depth
  /\ valid(free_find_pos(address(at), size))
  /\ Start("BUDDY_FREE", free_find_pos(address(at), size))
  /\ UNCHANGED todo

Finish ==
  /\ held' = IF entry.tp = "BUDDY_FREE" THEN held \ {entry.at}
             ELSE held \cup {entry.at}
  /\ entry' = NoEntry
  /\ stage' = "idle"
  /\ chain_pos' = INVALID_POS
  /\ size_current' = 0
  /\ UNCHANGED <<todo, damaged, deaths>>

\* write_to_internal_position on the entry's own position.
WriteOwn(status) ==
  /\ tree' = [tree EXCEPT ![entry.at.index] = status]
  /\ stage' = "chain"
  /\ chain_pos' = entry.at
  /\ size_current' = status
  /\ UNCHANGED <<held, todo, entry, damaged, deaths>>

mark ==
  /\ stage = "start"
  /\ entry.tp # "BUDDY_FREE"
  /\ WriteOwn(local_offset(entry.at))

\* Mutant: whether the release was done is read off the parent.
release_by_parent ==
  /\ stage = "start"
  /\ entry.tp = "BUDDY_FREE"
  /\ IF entry.at.index # 1 /\ tree[parent(entry.at).index] # local_offset(parent(entry.at))
     THEN Finish /\ UNCHANGED tree
     ELSE WriteOwn(0)

\* A position that is not wholly used is left alone.
release ==
  /\ stage = "start"
  /\ entry.tp = "BUDDY_FREE"
  /\ IF tree[entry.at.index] # local_offset(entry.at)
     THEN Finish /\ UNCHANGED tree
     ELSE WriteOwn(0)

\* Mutant: two empty children leave a status behind.
min_plus_one(current, other) == (IF current <= other THEN current ELSE other) + 1

target_parent(current, other) ==
  IF current = 0 /\ other = 0 THEN 0
  ELSE (IF current <= other THEN current ELSE other) + 1

Target == target_parent(size_current, tree[sibling(chain_pos.index)])

\* A turn of the loop of update_parent_chain, which ends at the root or at the
\* first ancestor that already has the status it should have.
update_parent_chain ==
  /\ stage = "chain"
  /\ IF chain_pos.index = 1 \/ tree[parent(chain_pos).index] = Target
     THEN Finish /\ UNCHANGED tree
     ELSE /\ tree' = [tree EXCEPT ![parent(chain_pos).index] = Target]
          /\ chain_pos' = parent(chain_pos)
          /\ size_current' = Target
          /\ UNCHANGED <<held, todo, entry, stage, damaged, deaths>>

\* A machine dies while it executes the entry and the log is executed again.
\* A store of a status clears the old bits first, so it may be caught half done.
CrashInEntry ==
  /\ stage # "idle"
  /\ <<entry.tp, stage>> \in CrashPoints
  /\ deaths < MaxDeaths
  /\ deaths' = deaths + 1
  /\ damaged' = (damaged \/ stage = "chain")
  /\ stage' = "start"
  /\ chain_pos' = INVALID_POS
  /\ size_current' = 0
  /\ \/ UNCHANGED tree
     \/ /\ stage = "chain"
        /\ chain_pos.index # 1
        /\ Target \notin {0, tree[parent(chain_pos).index]}
        /\ tree' = [tree EXCEPT ![parent(chain_pos).index] = 0]
  /\ UNCHANGED <<held, todo, entry>>

BuddyNext ==
  \/ toggle_virtual_slots
  \/ \E size \in 1..effective_memory_size : Malloc(size)
  \/ \E size \in 1..effective_memory_size, at \in held : Free(at, size)
  \/ mark
  \/ release
  \/ update_parent_chain
  \/ CrashInEntry

BuddySpec == BuddyInit /\ [][BuddyNext]_buddyVars

-----------------------------------------------------------------------------
(* Properties *)

BuddyTypeOK ==
  /\ tree \in [Indices -> 0..Order]
  /\ held \subseteq Positions
  /\ entry \in [tp : {"MASK", "BUDDY_ALLOC", "BUDDY_FREE"}, at : Positions]
              \cup {NoEntry}
  /\ stage \in {"idle", "start", "chain"}
  /\ (stage = "idle") <=> (entry = NoEntry)
  /\ chain_pos \in Positions \cup {INVALID_POS}
  /\ (stage = "chain") <=> (chain_pos # INVALID_POS)
  /\ size_current \in 0..Order

\* The invariant that buddy_tree_check_invariant looks for at a position, in
\* every position with children: its status is one more than the lower of its
\* children's, or, when they have none, nothing or wholly used.
PositionConsistent(at) ==
  LET left == tree[2 * at.index]
      right == tree[2 * at.index + 1]
  IN  IF left # 0 \/ right # 0
      THEN tree[at.index] = (IF left <= right THEN left ELSE right) + 1
      ELSE tree[at.index] \in {0, local_offset(at)}

\* The machines that died did so before or after they repaired ancestors.
Settled == stage = "idle" /\ todo = {} /\ ~damaged

\* Whenever no entry is being executed, and unless a machine once died while it
\* repaired ancestors, every position satisfies the tree invariant
\* (buddy_tree_check_invariant), although marking and releasing stop repairing
\* at the first ancestor that looks right.
TreeConsistent ==
  stage = "idle" /\ ~damaged =>
    \A at \in Positions : at.depth < Order => PositionConsistent(at)

\* No two blocks that are allocated at the same time overlap, nor does one
\* reach into the masked end of the memory: what buddy_tree_find_free returns
\* for one allocation is never part of another.  Machines may die before an
\* entry is executed or while its own position is set, and the entry is
\* executed again; it is not claimed once a machine died while it repaired
\* ancestors (damaged), since executing the entry again stops at its own
\* position and leaves them wrong (MarkOnlyFree shows where that leads).
BlocksDisjoint ==
  ~damaged => \A a, b \in held : a # b => ~Overlap(a, b)

\* buddy_malloc_find_pos is exact: it gives up only when no free block of the
\* size is left, and what it returns has the right depth and is free.
MallocExact ==
  Settled =>
    \A size \in 1..MemSize :
      LET at == malloc_find_pos(size)
          free == {p \in Positions : /\ p.depth = depth_for_size(size)
                                     /\ \A h \in held : ~Overlap(p, h)}
      IN  IF free = {} THEN at = INVALID_POS ELSE at \in free

\* The owner of a block can free it: from its address and any length it was
\* allocated for, buddy_free_find_pos finds the very position that was marked.
FreeFindsBlock ==
  Settled =>
    \A at \in Blocks : \A size \in 1..effective_memory_size :
      depth_for_size(size) = at.depth => free_find_pos(address(at), size) = at

\* buddy_tree_is_free answers from the statuses on one path what the set of
\* allocations says: the position is free exactly when no block touches it.
IsFreeExact ==
  Settled =>
    \A at \in Positions : is_free(at) <=> \A h \in held : ~Overlap(at, h)

\* buddy_malloc_find_pos, buddy_free_find_pos and buddy_tree_is_free answer
\* from a few statuses what the set of allocations says.
SearchesExact == MallocExact /\ FreeFindsBlock /\ IsFreeExact

\* Executing an entry again after a crash, wherever it struck, never loses or
\* repeats the entry's own effect: a smallest block is marked exactly when it
\* is allocated.  What a crash can damage are the ancestors.
LeavesExact ==
  stage = "idle" =>
    \A at \in Positions : at.depth = Order => (tree[at.index] # 0 <=> at \in held)

\* buddy_tree_mark is given an unused position when an allocation is logged
\* ("Calling mark on a used position is a bug in caller").
MarkOnlyFree ==
  (stage = "idle" /\ todo = {}) =>
    \A size \in 1..MemSize :
      LET at == malloc_find_pos(size)
      IN  valid(at) => \A h \in held : ~Overlap(at, h)
=============================================================================
