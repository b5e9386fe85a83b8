----------------------------- MODULE BuddyArena -----------------------------
(***************************************************************************)
(* The whole interface of the buddy allocator as a library (buddy_alloc.h, *)
(* bitset.c): malloc, realloc, the two frees, ranges, walking and resizing *)
(* an arena.  The driver calls them under the lock, so a call is a step.   *)
(* BuddyTree has the stores of the two calls that the log repeats; here    *)
(* the tree is the bitset that holds it, because resizing moves bits: a    *)
(* position of local offset n owns n bits, and its status is written as    *)
(* that many ones.  Sizes and addresses are counted in smallest blocks.    *)
(***************************************************************************)
EXTENDS Integers, Sequences, FiniteSets, SequencesExt

CONSTANTS SIZES,        \* the sizes that the caller gives the arena
          REQUESTS,     \* the sizes that it asks for
          ShrinkUsed    \* does it halve an arena that holds allocations?

ceiling_power_of_two(n) == CHOOSE p \in {2^k : k \in 0..n} : n <= p /\ p < 2 * n

buddy_tree_order_for_memory(blocks) ==
  CHOOSE o \in 1..(blocks + 1) : 2^(o - 1) = ceiling_power_of_two(blocks)

-----------------------------------------------------------------------------
(* Positions *)

INVALID_POS == [index |-> 0, depth |-> 0]
root == [index |-> 1, depth |-> 1]

left_child(at) == [index |-> 2 * at.index, depth |-> at.depth + 1]
right_child(at) == [index |-> 2 * at.index + 1, depth |-> at.depth + 1]
parent(at) == [index |-> at.index \div 2, depth |-> at.depth - 1]
sibling(at) == [at EXCEPT !.index = IF @ % 2 = 1 THEN @ - 1 ELSE @ + 1]

buddy_tree_leftmost_child(order) == [index |-> 2^(order - 1), depth |-> order]

buddy_tree_valid(t, at) == at.index # 0 /\ at.index < 2^t.order

\* The next position of the row, unless this one ends it.
buddy_tree_right_adjacent(at) ==
  IF at.index + 1 = 2^at.depth THEN INVALID_POS ELSE [at EXCEPT !.index = @ + 1]

\* buddy_tree_interval, as the indices of its first and last smallest block.
buddy_tree_interval(t, at) ==
  LET below == 2^(t.order - at.depth) IN
  [from |-> at.index * below, to |-> (at.index + 1) * below - 1]

buddy_tree_interval_contains(outer, inner) ==
  {inner.from, inner.to} \subseteq outer.from .. outer.to

deepest_position_for_offset(t, offset) ==
  [buddy_tree_leftmost_child(t.order) EXCEPT !.index = @ + offset]

-----------------------------------------------------------------------------
(* The bitset: a tree t is its order and the set of the bits that are one *)

\* The bits of the rows of an order whose positions own more than `to' bits.
size_for_order(order, to) ==
  LET sum[k \in to..order] == IF k = to THEN 0 ELSE sum[k - 1] + k * 2^(order - k)
  IN  sum[order]

local_offset(order, at) == order - at.depth + 1

bitset_location(order, at) ==
  LET offset == local_offset(order, at) IN
  size_for_order(order, offset) + offset * (at.index - 2^(at.depth - 1))

Span(order, at) ==
  LET location == bitset_location(order, at) IN
  location .. (location + local_offset(order, at) - 1)

bitset_clear_range(bits, from, to) == bits \ (from .. to)

bitset_set_range(bits, from, to) == bits \cup (from .. to)

\* Mutant: the row is moved without its last position.
bitset_shift_right_short(bits, from, to, by) ==
  LET moved == {b + by : b \in bits \cap (from .. (to - 2))} IN
  bitset_clear_range((bits \ ((from + by) .. (to + by))) \cup moved, from, from + by - 1)

\* The bits from .. to, moved from the last one on; `to' itself is included.
bitset_shift_right(bits, from, to, by) ==
  LET moved == {b + by : b \in bits \cap (from .. to)} IN
  bitset_clear_range((bits \ ((from + by) .. (to + by))) \cup moved, from, from + by - 1)

\* The bits from .. to - 1, moved from the first one on.  The range cleared in
\* the end starts at the length of the row, wherever the row was moved to.
bitset_shift_left(bits, from, to, by) ==
  LET length == to - from
      moved == {b - by : b \in bits \cap (from .. (to - 1))}
  IN  bitset_clear_range((bits \ ((from - by) .. (to - 1 - by))) \cup moved,
                         length, length + by - 1)

write_to_internal_position(t, at, value) ==
  LET location == bitset_location(t.order, at)
      cleared == bitset_clear_range(t.bits, location, location + local_offset(t.order, at) - 1)
  IN  [t EXCEPT !.bits = bitset_set_range(cleared, location, location + value - 1)]

\* No look at the other bits when the first one is zero.
buddy_tree_status(t, at) ==
  IF bitset_location(t.order, at) \notin t.bits THEN 0
  ELSE Cardinality(t.bits \cap Span(t.order, at))

\* Is the status at least the value?  One bit tells.
compare_with_internal_position(t, at, value) ==
  (bitset_location(t.order, at) + value - 1) \in t.bits

-----------------------------------------------------------------------------
(* Marking, releasing, searching *)

\* The ancestors are repaired until one of them has the right status already.
RECURSIVE update_parent_chain(_, _, _)
update_parent_chain(t, at, size_current) ==
  LET up == parent(at)
      size_sibling == buddy_tree_status(t, sibling(at))
      least == IF size_current <= size_sibling THEN size_current ELSE size_sibling
      target_parent == IF size_current = 0 /\ size_sibling = 0 THEN 0 ELSE least + 1
  IN  IF at.index = 1 \/ target_parent = buddy_tree_status(t, up) THEN t
      ELSE update_parent_chain(write_to_internal_position(t, up, target_parent), up, target_parent)

buddy_tree_mark(t, at) ==
  LET offset == local_offset(t.order, at) IN
  update_parent_chain(write_to_internal_position(t, at, offset), at, offset)

buddy_tree_release(t, at) ==
  IF buddy_tree_status(t, at) # local_offset(t.order, at) THEN t
  ELSE update_parent_chain(write_to_internal_position(t, at, 0), at, 0)

\* buddy_tree_find_free below a position that has a block at the target depth.
RECURSIVE DescendFrom(_, _, _)
DescendFrom(t, at, target_depth) ==
  LET left == left_child(at)
      right == sibling(left)
      target_status == target_depth - left.depth
      location == bitset_location(t.order, right)
      \* read with a span reduced to target_status bits
      right_status == IF location \notin t.bits THEN 0
                      ELSE Cardinality(t.bits \cap (location .. (location + target_status - 1)))
      next == IF compare_with_internal_position(t, left, target_status + 1) THEN right
              ELSE IF compare_with_internal_position(t, right, target_status + 1) THEN left
              ELSE IF /\ right_status # 0
                      /\ ~compare_with_internal_position(t, left, right_status) THEN right
              ELSE left
  IN  IF at.depth = target_depth THEN at ELSE DescendFrom(t, next, target_depth)

buddy_tree_find_free(t, target_depth) ==
  IF buddy_tree_status(t, root) > target_depth - 1 THEN INVALID_POS
  ELSE DescendFrom(t, root, target_depth)

\* buddy_tree_is_free: no status here, and no ancestor that is wholly used.
RECURSIVE NoneWhollyUsed(_, _)
NoneWhollyUsed(t, at) ==
  IF ~buddy_tree_valid(t, at) THEN TRUE
  ELSE IF buddy_tree_status(t, at) = 0 THEN NoneWhollyUsed(t, parent(at))
  ELSE buddy_tree_status(t, at) # local_offset(t.order, at)

buddy_tree_is_free(t, at) == buddy_tree_status(t, at) = 0 /\ NoneWhollyUsed(t, parent(at))

\* buddy_tree_walk: the position after this one, INVALID_POS after the last.
RECURSIVE buddy_tree_walk(_, _, _)
buddy_tree_walk(t, at, going_up) ==
  IF ~going_up
  THEN IF buddy_tree_valid(t, left_child(at)) THEN left_child(at)
       ELSE buddy_tree_walk(t, at, TRUE)
  ELSE IF at.index = 1 THEN INVALID_POS
  ELSE IF at.index % 2 = 1 THEN buddy_tree_walk(t, parent(at), TRUE)
  ELSE buddy_tree_right_adjacent(at)

-----------------------------------------------------------------------------
(* Resizing the tree *)

\* One row of buddy_tree_grow: it becomes the left half of the row below.
GrowRow(order, bits, depth) ==
  LET at == buddy_tree_leftmost_child(depth)
      next == buddy_tree_leftmost_child(depth + 1)
      current_location == bitset_location(order, at)
      next_location == bitset_location(order + 1, next)
      length == local_offset(order, at) * 2^(depth - 1)
      shifted == bitset_shift_right(bits, current_location, current_location + length,
                                    next_location - current_location)
  IN  bitset_clear_range(shifted, next_location + length, next_location + 2 * length - 1)

\* The rows from the smallest blocks up; then the new root.
RECURSIVE buddy_tree_grow(_, _)
buddy_tree_grow(t, desired_order) ==
  LET rows[depth \in 0..t.order] ==
        IF depth = t.order THEN GrowRow(t.order, t.bits, depth)
        ELSE IF depth = 0 THEN rows[1]
        ELSE GrowRow(t.order, rows[depth + 1], depth)
      grown == [order |-> t.order + 1, bits |-> rows[0]]
  IN  IF t.order >= desired_order THEN t
      ELSE buddy_tree_grow(update_parent_chain(grown, right_child(root), 0), desired_order)

\* One row of buddy_tree_shrink: its left half becomes the row above.
ShrinkRow(order, bits, depth) ==
  LET at == buddy_tree_leftmost_child(depth)
      current_location == bitset_location(order, at)
      length == (local_offset(order, at) * 2^(depth - 1)) \div 2
  IN  bitset_shift_left(bits, current_location, current_location + length,
                        current_location - bitset_location(order - 1, parent(at)))

buddy_tree_can_shrink(t) ==
  /\ buddy_tree_status(t, right_child(root)) = 0
  /\ buddy_tree_status(t, root) # t.order

\* The rows from the root's children down.  What follows the smaller bitset
\* is the table of size_for_order, written anew.
RECURSIVE buddy_tree_shrink(_, _)
buddy_tree_shrink(t, desired_order) ==
  LET rows[depth \in 1..t.order] ==
        IF depth = 1 THEN t.bits ELSE ShrinkRow(t.order, rows[depth - 1], depth)
      kept == 0 .. (size_for_order(t.order - 1, 0) - 1)
  IN  IF t.order <= desired_order \/ ~buddy_tree_can_shrink(t) THEN t
      ELSE buddy_tree_shrink([order |-> t.order - 1, bits |-> rows[t.order] \cap kept],
                             desired_order)

buddy_tree_resize(t, desired_order) ==
  IF t.order < desired_order THEN buddy_tree_grow(t, desired_order)
  ELSE buddy_tree_shrink(t, desired_order)

-----------------------------------------------------------------------------
(* The arena *)

VARIABLES tree,           \* its buddy_tree
          memory_size,
          held            \* history: the blocks that the caller has

vars == <<tree, memory_size, held>>

effective_memory_size(size) == ceiling_power_of_two(size)

size_for_depth(size, depth) == ceiling_power_of_two(size) \div 2^(depth - 1)

\* Halve the memory while two requests fit.
depth_for_size(size, requested_size) ==
  CHOOSE d \in 1..buddy_tree_order_for_memory(size) :
    /\ size_for_depth(size, d) \div requested_size = 1
    /\ \A e \in 1..(d - 1) : size_for_depth(size, e) \div requested_size > 1

address_for_position(size, at) ==
  size_for_depth(size, at.depth) * (at.index - 2^(at.depth - 1))

\* Climb from the smallest block at the address to the first position with a
\* status, which must start at that address.
RECURSIVE Climb(_, _)
Climb(t, at) ==
  IF ~buddy_tree_valid(t, at) \/ buddy_tree_status(t, at) # 0 THEN at ELSE Climb(t, parent(at))

position_for_address(addr) ==
  LET at == Climb(tree, deepest_position_for_offset(tree, addr)) IN
  IF buddy_tree_valid(tree, at) /\ address_for_position(memory_size, at) = addr
  THEN at ELSE INVALID_POS

\* buddy_toggle_virtual_slots: the positions that cover the end of the
\* effective memory that does not exist, largest first.
RECURSIVE SlotsBelow(_, _, _)
SlotsBelow(size, at, delta) ==
  LET current_pos_size == size_for_depth(size, at.depth) IN
  IF delta = 0 THEN <<>>
  ELSE IF delta = current_pos_size THEN <<at>>
  ELSE IF delta <= current_pos_size \div 2 THEN SlotsBelow(size, right_child(at), delta)
  ELSE <<right_child(at)>> \o SlotsBelow(size, left_child(at), delta - current_pos_size \div 2)

virtual_slots(size) ==
  SlotsBelow(size, right_child(root), effective_memory_size(size) - size)

buddy_toggle_virtual_slots(t, size, state) ==
  FoldLeft(LAMBDA u, at : IF state THEN buddy_tree_mark(u, at) ELSE buddy_tree_release(u, at),
           t, virtual_slots(size))

buddy_init(size) ==
  buddy_toggle_virtual_slots(
    [order |-> buddy_tree_order_for_memory(size), bits |-> {}], size, TRUE)

\* The smallest blocks of addr .. addr + requested_size - 1, one by one.
buddy_toggle_range_reservation(addr, requested_size, state) ==
  FoldLeft(LAMBDA u, k :
             LET at == deepest_position_for_offset(u, addr + k - 1) IN
             IF state THEN buddy_tree_mark(u, at) ELSE buddy_tree_release(u, at),
           tree, [k \in 1..requested_size |-> k])

\* Is nothing allocated at and after `from'?  The positions asked are the
\* largest ones inside the range, left to right.
RECURSIVE WidestWithin(_, _, _)
WidestWithin(t, query_range, at) ==
  IF buddy_tree_interval_contains(query_range, buddy_tree_interval(t, parent(at)))
  THEN WidestWithin(t, query_range, parent(at)) ELSE at

RECURSIVE RangeFree(_, _, _)
RangeFree(t, query_range, at) ==
  LET widest == WidestWithin(t, query_range, at)
      last == [index |-> buddy_tree_interval(t, widest).to, depth |-> t.order]
  IN  IF ~buddy_tree_valid(t, at) \/ at.index >= query_range.to THEN TRUE
      ELSE /\ buddy_tree_is_free(t, widest)
           /\ RangeFree(t, query_range, buddy_tree_right_adjacent(last))

buddy_is_free(from) ==
  LET slots == effective_memory_size(memory_size) - memory_size
      to == effective_memory_size(memory_size) - (IF slots = 0 THEN 1 ELSE slots)
      first == deepest_position_for_offset(tree, from)
  IN  RangeFree(tree, [from |-> first.index,
                       to |-> deepest_position_for_offset(tree, to).index], first)

buddy_can_shrink == buddy_is_free(memory_size \div 2)
buddy_is_empty == buddy_is_free(0)
buddy_is_full == buddy_tree_status(tree, root) = tree.order

\* buddy_arena_free_size, from a position of the walk on.
RECURSIVE FreeSizeFrom(_)
FreeSizeFrom(at) ==
  LET pos_status == buddy_tree_status(tree, at)
      going_up == pos_status \in {0, local_offset(tree.order, at)}
      free == IF pos_status = 0 THEN size_for_depth(memory_size, at.depth) ELSE 0
  IN  IF at = INVALID_POS THEN 0
      ELSE free + FreeSizeFrom(buddy_tree_walk(tree, at, going_up))

buddy_arena_free_size == FreeSizeFrom(root)

\* buddy_walk, from a position on: the blocks given to the callback.  A wholly
\* used position with a left child in use is used block by block; the first
\* virtual slot ends the walk.
RECURSIVE WalkFrom(_)
WalkFrom(at) ==
  LET pos_status == buddy_tree_status(tree, at)
      left == left_child(at)
      block == [addr |-> address_for_position(memory_size, at),
                size |-> size_for_depth(memory_size, at.depth)]
      processed == /\ pos_status = local_offset(tree.order, at)
                   /\ ~(buddy_tree_valid(tree, left) /\ buddy_tree_status(tree, left) # 0)
      rest == WalkFrom(buddy_tree_walk(tree, at, pos_status = 0))
  IN  IF at = INVALID_POS THEN <<>>
      ELSE IF ~processed THEN rest
      ELSE IF block.addr + block.size > memory_size THEN <<>>
      ELSE <<block>> \o rest

buddy_walk == WalkFrom(root)

-----------------------------------------------------------------------------
(* The calls *)

Init ==
  /\ memory_size \in SIZES
  /\ tree = buddy_init(memory_size)
  /\ held = {}

BlockAt(at) == [addr |-> address_for_position(memory_size, at),
                size |-> size_for_depth(memory_size, at.depth)]

buddy_malloc(requested_size) ==
  LET at == buddy_tree_find_free(tree, depth_for_size(memory_size, requested_size)) IN
  /\ requested_size <= memory_size
  /\ buddy_tree_valid(tree, at)
  /\ tree' = buddy_tree_mark(tree, at)
  /\ held' = held \cup {BlockAt(at)}
  /\ UNCHANGED memory_size

\* Mutant: a failed search leaves the block released.
buddy_realloc_no_restore(block, requested_size) ==
  LET origin == position_for_address(block.addr)
      released == buddy_tree_release(tree, origin)
      new_pos == buddy_tree_find_free(released, depth_for_size(memory_size, requested_size))
  IN  /\ requested_size <= memory_size
      /\ buddy_tree_valid(tree, origin)
      /\ IF buddy_tree_valid(tree, new_pos)
         THEN /\ tree' = buddy_tree_mark(released, new_pos)
              /\ held' = (held \ {block}) \cup {BlockAt(new_pos)}
         ELSE tree' = released /\ UNCHANGED held
      /\ UNCHANGED memory_size

\* The block is released, a place is searched, and the block is marked again
\* when there is none; a caller that gets NULL still has its block.
buddy_realloc(block, requested_size) ==
  LET origin == position_for_address(block.addr)
      released == buddy_tree_release(tree, origin)
      new_pos == buddy_tree_find_free(released, depth_for_size(memory_size, requested_size))
  IN  /\ requested_size <= memory_size
      /\ buddy_tree_valid(tree, origin)
      /\ IF buddy_tree_valid(tree, new_pos)
         THEN /\ tree' = buddy_tree_mark(released, new_pos)
              /\ held' = (held \ {block}) \cup {BlockAt(new_pos)}
         ELSE tree' = buddy_tree_mark(released, origin) /\ UNCHANGED held
      /\ UNCHANGED memory_size

\* Any address inside the arena may be given to the frees.
buddy_free(addr) ==
  LET at == position_for_address(addr) IN
  /\ addr < memory_size
  /\ tree' = IF buddy_tree_valid(tree, at) THEN buddy_tree_release(tree, at) ELSE tree
  /\ held' = {b \in held : b.addr # addr}
  /\ UNCHANGED memory_size

\* With the length: a block is freed for the lengths that it is allocated for.
buddy_safe_free(addr, requested_size) ==
  LET at == position_for_address(addr)
      allocated == size_for_depth(memory_size, at.depth)
  IN  /\ addr < memory_size
      /\ tree' = IF /\ buddy_tree_valid(tree, at)
                    /\ requested_size <= allocated
                    /\ requested_size > allocated \div 2
                 THEN buddy_tree_release(tree, at) ELSE tree
      /\ held' = {b \in held : b.addr # addr \/ b.size < requested_size \/ b.size >= 2 * requested_size}
      /\ UNCHANGED memory_size

Free(addr) == \A b \in held : addr \notin b.addr .. (b.addr + b.size - 1)

\* Marking what is in use is a bug in the caller, the comment on mark says.
buddy_reserve_range(addr, requested_size) ==
  /\ addr + requested_size <= memory_size
  /\ \A a \in addr .. (addr + requested_size - 1) : Free(a)
  /\ tree' = buddy_toggle_range_reservation(addr, requested_size, TRUE)
  /\ held' = held \cup {[addr |-> a, size |-> 1] : a \in addr .. (addr + requested_size - 1)}
  /\ UNCHANGED memory_size

\* Releases the smallest blocks of the range, and leaves larger ones alone.
buddy_unsafe_release_range(addr, requested_size) ==
  /\ addr + requested_size <= memory_size
  /\ tree' = buddy_toggle_range_reservation(addr, requested_size, FALSE)
  /\ held' = {b \in held : b.size > 1 \/ b.addr \notin addr .. (addr + requested_size - 1)}
  /\ UNCHANGED memory_size

\* Mutant: the slots that the old size masked stay marked.
buddy_resize_standard_masked(new_memory_size) ==
  LET resized == buddy_tree_resize(tree, buddy_tree_order_for_memory(new_memory_size))
  IN  /\ buddy_is_free(new_memory_size)
      /\ tree' = buddy_toggle_virtual_slots(resized, new_memory_size, TRUE)
      /\ memory_size' = new_memory_size
      /\ UNCHANGED held

buddy_resize_standard(new_memory_size) ==
  LET released == buddy_toggle_virtual_slots(tree, memory_size, FALSE)
      resized == buddy_tree_resize(released, buddy_tree_order_for_memory(new_memory_size))
  IN  /\ buddy_is_free(new_memory_size)
      /\ tree' = buddy_toggle_virtual_slots(resized, new_memory_size, TRUE)
      /\ memory_size' = new_memory_size
      /\ UNCHANGED held

buddy_resize(new_memory_size) ==
  /\ new_memory_size # memory_size
  /\ ShrinkUsed \/ held = {} \/ buddy_tree_order_for_memory(new_memory_size) >= tree.order
  /\ buddy_resize_standard(new_memory_size)

Largest == CHOOSE s \in SIZES : \A u \in SIZES : u <= s

Next ==
  \/ \E n \in REQUESTS : buddy_malloc(n)
  \/ \E b \in held, n \in REQUESTS : buddy_realloc(b, n)
  \/ \E a \in 0..(Largest - 1) : buddy_free(a)
  \/ \E a \in 0..(Largest - 1), n \in REQUESTS : buddy_safe_free(a, n)
  \/ \E a \in 0..(Largest - 1), n \in 1..2 : buddy_reserve_range(a, n)
  \/ \E a \in 0..(Largest - 1), n \in 1..2 : buddy_unsafe_release_range(a, n)
  \/ \E s \in SIZES : buddy_resize(s)

Spec == Init /\ [][Next]_vars

-----------------------------------------------------------------------------
(* Properties *)

\* No two blocks that the caller has share memory, and none reaches past the
\* end of the arena, however it was resized (buddy_malloc, buddy_resize).
BlocksDisjoint ==
  /\ \A b \in held : b.addr + b.size <= memory_size
  /\ \A b, c \in held : b # c => b.addr + b.size <= c.addr \/ c.addr + c.size <= b.addr

Positions ==
  {at \in [index : 1..(2^tree.order - 1), depth : 1..tree.order] :
     2^(at.depth - 1) <= at.index /\ at.index < 2^at.depth}

\* Every bit of the tree is the one that the caller's blocks and the masked end
\* of the memory call for, whatever releases, moves and repairs led there
\* (buddy_tree_check_invariant asks less).
TreeExact ==
  LET marked == {at \in Positions : BlockAt(at) \in held}
                  \cup {virtual_slots(memory_size)[k] : k \in 1..Len(virtual_slots(memory_size))}
      status[at \in Positions] ==
        IF at \in marked THEN local_offset(tree.order, at)
        ELSE IF at.depth = tree.order THEN 0
        ELSE LET l == status[left_child(at)]
                 r == status[right_child(at)]
             IN  IF l = 0 /\ r = 0 THEN 0 ELSE 1 + (IF l <= r THEN l ELSE r)
  IN  /\ tree.order = buddy_tree_order_for_memory(memory_size)
      /\ tree.bits = UNION {bitset_location(tree.order, at)
                              .. (bitset_location(tree.order, at) + status[at] - 1) : at \in Positions}

\* buddy_malloc finds a block exactly when an aligned one is free; the walk
\* meets the caller's blocks in the order of their addresses; the free size,
\* "full" and "nothing from here on" are what the blocks say.
AnswersExact ==
  LET room(n) == LET s == ceiling_power_of_two(n) IN
                 \E k \in 0..(memory_size \div s) :
                   /\ (k + 1) * s <= memory_size
                   /\ \A a \in (k * s) .. (k * s + s - 1) : Free(a)
      walked == buddy_walk
      free == {a \in 0..(memory_size - 1) : Free(a)}
      freeFrom(from) == \A b \in held : b.addr + b.size <= from
  IN  /\ \A n \in 1..memory_size :
           room(n) <=> buddy_tree_valid(tree,
                         buddy_tree_find_free(tree, depth_for_size(memory_size, n)))
      /\ {walked[k] : k \in 1..Len(walked)} = held
      /\ \A k \in 1..(Len(walked) - 1) : walked[k].addr < walked[k + 1].addr
      /\ buddy_arena_free_size = Cardinality(free)
      /\ buddy_is_full <=> free = {}
      /\ buddy_is_empty <=> held = {}
      /\ \A from \in SIZES : buddy_is_free(from) <=> freeFrom(from)
      /\ memory_size > 2 => (buddy_can_shrink <=> freeFrom(memory_size \div 2))
=============================================================================
