---------------------------- MODULE MCBuddyTree ----------------------------
(* BuddyTree with a machine that may die while it repairs the ancestors of an  *)
(* allocation.                                                                  *)
EXTENDS BuddyTree

InAllocChain == {<<"BUDDY_ALLOC", "chain">>}
=============================================================================
