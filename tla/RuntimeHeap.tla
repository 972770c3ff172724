----------------------------- MODULE RuntimeHeap -----------------------------
(***************************************************************************)
(* The tracked heap of the native runtime (src/bin/runtime/gc.c): a list   *)
(* of blocks with a count and a byte total, changed under a spin lock.     *)
(* The critical sections are modelled read by read and store by store, so  *)
(* that what the lock protects is visible.                                 *)
(*                                                                         *)
(* calloc and free are external: calloc returns a block never returned     *)
(* before, or fails.  A fatal error ends the process.                      *)
(***************************************************************************)
EXTENDS Integers, Sequences, FiniteSets, SequencesExt

CONSTANTS
    Threads,
    Blocks,         \* bound: the blocks that calloc can still return
    Sizes,          \* sizes that callers ask for
    HeaderSize,     \* sizeof(GCAllocation)
    SizeMax,        \* SIZE_MAX
    None

ASSUME HeapAssumption ==
    /\ None \notin Threads /\ None \notin Blocks
    /\ None \notin {"alloc", "threshold", "get", "shutdown"}
    /\ HeaderSize \in Nat /\ SizeMax \in Nat /\ HeaderSize <= SizeMax
    /\ Sizes \subseteq 1..SizeMax

VARIABLES
    gcLock,             \* the thread in the critical section
    allocations,        \* g_allocations, the newest block first
    allocation_count, allocated_bytes, threshold,
    sizeOf,             \* the size of each block that calloc has returned
    freed,              \* blocks given back to free
    hpc, op,            \* where in which heap call each thread is
    block,              \* the block a gc_alloc works on
    seen,               \* what a critical section has read of the globals
    exited              \* gc_fatal_error has ended the process

list_vars == <<allocations, allocation_count, allocated_bytes>>
call_vars == <<hpc, op, block, seen>>
heap_vars == <<gcLock, list_vars, threshold, sizeOf, freed, call_vars, exited>>

Nothing == [list |-> <<>>, count |-> 0, bytes |-> 0]

HeapInit ==
    /\ gcLock = None
    /\ allocations = <<>> /\ allocation_count = 0 /\ allocated_bytes = 0
    /\ threshold = SizeMax
    /\ sizeOf = [b \in Blocks |-> 0]
    /\ freed = {}
    /\ hpc = [t \in Threads |-> "idle"]
    /\ op = [t \in Threads |-> None]
    /\ block = [t \in Threads |-> None]
    /\ seen = [t \in Threads |-> Nothing]
    /\ exited = FALSE

Idle(t) == hpc[t] = "idle" /\ ~exited
Step(t, from, to) == ~exited /\ hpc[t] = from /\ hpc' = [hpc EXCEPT ![t] = to]

Fatal == exited' = TRUE /\ UNCHANGED <<gcLock, list_vars, threshold, sizeOf, freed, call_vars>>

-----------------------------------------------------------------------------
(***************************************************************************)
(* The lock and the overflow check.                                        *)
(***************************************************************************)
\* Mutant: the flag is set and not tested.
GrabLock(t) == gcLock' = t

\* atomic_flag_test_and_set that found the flag clear.
gc_lock(t) == gcLock = None /\ gcLock' = t

gc_unlock == gcLock' = None

\* Mutant: off by one.
AddOverflowsLate(a, b) == a > SizeMax - b + 1

AddOverflows(a, b) == a > SizeMax - b

\* Any heap call but gc_alloc: it takes the lock first.
Call(t, o) ==
    /\ Idle(t)
    /\ Step(t, "idle", "lock")
    /\ op' = [op EXCEPT ![t] = o]
    /\ UNCHANGED <<gcLock, list_vars, threshold, sizeOf, freed, block, seen, exited>>

Lock(t) ==
    /\ Step(t, "lock", "locked")
    /\ gc_lock(t)
    /\ UNCHANGED <<list_vars, threshold, sizeOf, freed, op, block, seen, exited>>

Unlock(t) ==
    /\ Step(t, "unlock", "idle")
    /\ gc_unlock
    /\ op' = [op EXCEPT ![t] = None]
    /\ block' = [block EXCEPT ![t] = None]
    /\ seen' = [seen EXCEPT ![t] = Nothing]
    /\ UNCHANGED <<list_vars, threshold, sizeOf, freed, exited>>

-----------------------------------------------------------------------------
(***************************************************************************)
(* gc_alloc.                                                               *)
(***************************************************************************)
\* The size check and calloc, before the lock.
Alloc(t, size) ==
    /\ Idle(t)
    /\ \/ AddOverflows(HeaderSize, size) /\ Fatal
       \/ Fatal         \* out of memory
       \/ /\ ~AddOverflows(HeaderSize, size)
          /\ \E b \in Blocks :
                /\ sizeOf[b] = 0
                /\ sizeOf' = [sizeOf EXCEPT ![b] = size]
                /\ block' = [block EXCEPT ![t] = b]
          /\ op' = [op EXCEPT ![t] = "alloc"]
          /\ Step(t, "idle", "lock")
          /\ UNCHANGED <<gcLock, list_vars, threshold, freed, seen, exited>>

\* next_allocated_bytes, and the reads of the stores that follow.
AllocRead(t) ==
    /\ op[t] = "alloc"
    /\ ~AddOverflows(allocated_bytes, sizeOf[block[t]])
    /\ Step(t, "locked", "link")
    /\ seen' = [seen EXCEPT ![t] =
                    [list |-> allocations, count |-> allocation_count, bytes |-> allocated_bytes]]
    /\ UNCHANGED <<gcLock, list_vars, threshold, sizeOf, freed, op, block, exited>>

AllocLink(t) ==
    /\ Step(t, "link", "unlock")
    /\ allocations' = <<block[t]>> \o seen[t].list
    /\ allocation_count' = seen[t].count + 1
    /\ allocated_bytes' = seen[t].bytes + sizeOf[block[t]]
    /\ UNCHANGED <<gcLock, threshold, sizeOf, freed, op, block, seen, exited>>

\* The byte total would overflow: unlock, free the block, end the process.
AllocRefuse(t) ==
    /\ op[t] = "alloc"
    /\ AddOverflows(allocated_bytes, sizeOf[block[t]])
    /\ Step(t, "locked", "refused")
    /\ gc_unlock
    /\ UNCHANGED <<list_vars, threshold, sizeOf, freed, op, block, seen, exited>>

RefuseFree(t) ==
    /\ Step(t, "refused", "fatal")
    /\ freed' = freed \cup {block[t]}
    /\ UNCHANGED <<gcLock, list_vars, threshold, sizeOf, op, block, seen, exited>>

RefuseEnd(t) == ~exited /\ hpc[t] = "fatal" /\ Fatal

-----------------------------------------------------------------------------
(***************************************************************************)
(* gc_set_collection_threshold and gc_shutdown.  The getters return one    *)
(* global read under the lock and change nothing.                          *)
(***************************************************************************)
SetThreshold(t) ==
    /\ op[t] = "threshold"
    /\ Step(t, "locked", "unlock")
    /\ threshold' \in Sizes
    /\ UNCHANGED <<gcLock, list_vars, sizeOf, freed, op, block, seen, exited>>

Get(t) ==
    /\ op[t] = "get"
    /\ Step(t, "locked", "unlock")
    /\ UNCHANGED <<gcLock, list_vars, threshold, sizeOf, freed, op, block, seen, exited>>

ShutdownWalk(t) ==
    /\ op[t] = "shutdown"
    /\ Step(t, "locked", "free")
    /\ seen' = [seen EXCEPT ![t].list = allocations]
    /\ UNCHANGED <<gcLock, list_vars, threshold, sizeOf, freed, op, block, exited>>

ShutdownFree(t) ==
    /\ seen[t].list # <<>>
    /\ Step(t, "free", "free")
    /\ freed' = freed \cup {Head(seen[t].list)}
    /\ seen' = [seen EXCEPT ![t].list = Tail(@)]
    /\ UNCHANGED <<gcLock, list_vars, threshold, sizeOf, op, block, exited>>

ShutdownReset(t) ==
    /\ seen[t].list = <<>>
    /\ Step(t, "free", "unlock")
    /\ allocations' = <<>> /\ allocation_count' = 0 /\ allocated_bytes' = 0
    /\ threshold' = SizeMax
    /\ UNCHANGED <<gcLock, sizeOf, freed, op, block, seen, exited>>

-----------------------------------------------------------------------------
HeapStep(t) ==
    \/ Lock(t) \/ Unlock(t)
    \/ AllocRead(t) \/ AllocLink(t) \/ AllocRefuse(t) \/ RefuseFree(t) \/ RefuseEnd(t)
    \/ SetThreshold(t) \/ Get(t)
    \/ ShutdownWalk(t) \/ ShutdownFree(t) \/ ShutdownReset(t)

HeapCalls == {"threshold", "get", "shutdown"}

HeapNext ==
    \E t \in Threads :
        \/ \E s \in Sizes : Alloc(t, s)
        \/ \E o \in HeapCalls : Call(t, o)
        \/ HeapStep(t)

HeapSpec == HeapInit /\ [][HeapNext]_heap_vars
-----------------------------------------------------------------------------
HeapLabels == {"idle", "lock", "locked", "link", "unlock", "refused", "fatal", "free"}
Inside == {"locked", "link", "unlock", "free"}

\* The spin lock excludes: who is inside holds it, and nobody else is.
LockOK == \A t \in Threads : hpc[t] \in Inside <=> gcLock = t

HeapTypeOK ==
    /\ gcLock \in Threads \cup {None}
    /\ allocations \in Seq(Blocks)
    /\ allocation_count \in Nat /\ allocated_bytes \in Nat
    /\ threshold \in Nat
    /\ sizeOf \in [Blocks -> Nat]
    /\ freed \subseteq Blocks
    /\ hpc \in [Threads -> HeapLabels]
    /\ op \in [Threads -> HeapCalls \cup {"alloc", None}]
    /\ block \in [Threads -> Blocks \cup {None}]
    /\ seen \in [Threads -> [list : Seq(Blocks), count : Nat, bytes : Nat]]
    /\ exited \in BOOLEAN

\* n is the sum of the sizes of the blocks, and so is total[i] of those from
\* the i-th on; none of these sums is more than a size_t holds.
SumsTo(blocks, n) ==
    \E total \in [1..(Len(blocks) + 1) -> 0..SizeMax] :
        /\ total[1] = n /\ total[Len(blocks) + 1] = 0
        /\ \A i \in 1..Len(blocks) : total[i] = total[i + 1] + sizeOf[blocks[i]]

\* With the lock free, the count is that of the list, and no block is on it
\* twice or after it was freed.
ListExact ==
    gcLock = None =>
        /\ allocation_count = Len(allocations)
        /\ IsInjective(allocations)
        /\ ToSet(allocations) \cap freed = {}

(* The byte total is that of the list and never wraps, though the sizes are   *)
(* added up with no more than SIZE_MAX to hold them (gc.c:636-645, 687-703). *)
BytesExact == gcLock = None => SumsTo(allocations, allocated_bytes)

\* No block is lost: what gc_alloc has returned is on the list until it is
\* freed, so that gc_shutdown frees all of it.
NoBlockLost ==
    \A b \in Blocks : sizeOf[b] > 0 =>
        \/ b \in freed
        \/ b \in ToSet(allocations)
        \/ \E t \in Threads : block[t] = b

(* The list is exact whatever the interleaving of allocations and a           *)
(* shutdown: no block is lost, linked twice or left on it after free         *)
(* (gc.c:671-705, 745-766).                                                  *)
BlocksExact == ListExact /\ NoBlockLost
=============================================================================
