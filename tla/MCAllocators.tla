--------------------------- MODULE MCAllocators ---------------------------
(***************************************************************************)
(* Small instances of the allocators and of the object pool for TLC, in    *)
(* one run.  One of four programs is chosen and never changes: clients     *)
(* that use a stack allocator directly, an arena on top of a stack         *)
(* allocator, clients of a linear allocator, or clients of a pool.         *)
(***************************************************************************)
EXTENDS Allocators, Pool

CONSTANT LinearBlocks   \* bound: blocks of the linear allocator

VARIABLE program

ownerVars == <<owner, nested>>

MCInit ==
    /\ program \in {"stack", "arena", "linear", "pool"}
    /\ ArenaInit /\ LinearInit /\ PoolInit

MCNext ==
    /\ UNCHANGED program
    /\ \/ /\ program = "stack" /\ Next
          /\ UNCHANGED <<ownerVars, linearVars, poolVars>>
       \/ /\ program = "arena" /\ ArenaNext
          /\ UNCHANGED <<linearVars, poolVars>>
       \/ /\ program = "linear" /\ LinearNext
          /\ Len(given') <= LinearBlocks
          /\ UNCHANGED <<arenaVars, poolVars>>
       \/ /\ program = "pool" /\ PoolNext
          /\ UNCHANGED <<arenaVars, linearVars>>

MCSpec == MCInit /\ [][MCNext]_<<program, arenaVars, linearVars, poolVars>>
=============================================================================
