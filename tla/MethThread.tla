----------------------------- MODULE MethThread -----------------------------
(***************************************************************************)
(* Thread<T>, Mutex<T> and Atomic<T> of src/bin/runtime/meth_thread.c, in  *)
(* a program that uses them together with the tracked heap: the main       *)
(* thread spawns workers, shuts the heap down and joins; each worker       *)
(* allocates, adds one to a cell under a mutex, takes a ticket from an     *)
(* atomic with fetch_add, adds one to another with a compare-and-swap      *)
(* loop, and returns its ticket.                                           *)
(*                                                                         *)
(* The worker's function is the program's; every other step is one of      *)
(* meth_thread.c.  Spawning and creating the mutex may fail, as malloc and *)
(* CreateThread may; both then return 0, which every operation accepts.    *)
(***************************************************************************)
EXTENDS RuntimeHeap

CONSTANTS
    Main,
    MaxCalls        \* bound: heap calls of the main thread

ASSUME ThreadAssumption ==
    /\ IsFiniteSet(Threads) /\ Main \in Threads
    /\ None \notin Nat

Workers == Threads \ {Main}

VARIABLES
    thread,         \* per worker: where its OS thread is
    struct,         \* the MethThread: "none", "live" or "freed"
    touched,        \* threads that used the struct after it was freed
    result,         \* t->result
    joined,         \* what join returned
    body,           \* where the worker's function is
    local,          \* the register of the function
    ticket,         \* what fetch_add returned
    mutex,          \* the handle is valid
    owner,          \* the thread that holds it
    cell,           \* what the mutex protects
    tickets, total, \* the two atomics
    calls           \* heap calls that the main thread has made

thread_vars == <<thread, struct, touched, result, joined>>
body_vars == <<body, local, ticket, mutex, owner, cell, tickets, total, calls>>
vars == <<heap_vars, thread_vars, body_vars>>

Init ==
    /\ HeapInit
    /\ thread = [w \in Workers |-> "none"]
    /\ struct = [w \in Workers |-> "none"]
    /\ touched = {}
    /\ result = [w \in Workers |-> 0]
    /\ joined = [w \in Workers |-> None]
    /\ body = [w \in Workers |-> "alloc"]
    /\ local = [w \in Workers |-> 0]
    /\ ticket = [w \in Workers |-> None]
    /\ mutex \in BOOLEAN            \* __meth_mutex_new, which may run out of memory
    /\ owner = None
    /\ cell = 0 /\ tickets = 0 /\ total = 0 /\ calls = 0

-----------------------------------------------------------------------------
(***************************************************************************)
(* __meth_thread_spawn and __meth_thread_join, on the main thread.         *)
(***************************************************************************)
\* The struct and a copy of the arguments are allocated, then the thread
\* created; each may fail, and what was allocated is freed.
Spawn(w) ==
    /\ Idle(Main) /\ thread[w] = "none"
    /\ \/ /\ thread' = [thread EXCEPT ![w] = "created"]
          /\ struct' = [struct EXCEPT ![w] = "live"]
       \/ /\ thread' = [thread EXCEPT ![w] = "refused"]
          /\ UNCHANGED struct
    /\ UNCHANGED <<heap_vars, touched, result, joined, body_vars>>

AllSpawned == \A w \in Workers : thread[w] # "none"

\* The handle is 0: join returns at once.
JoinRefused(w) ==
    /\ Idle(Main) /\ AllSpawned
    /\ thread[w] = "refused" /\ joined[w] = None
    /\ joined' = [joined EXCEPT ![w] = 0]
    /\ UNCHANGED <<heap_vars, thread, struct, touched, result, body_vars>>

\* Mutant: join waits for the function's result and not for the thread.
JoinOnResult(w) ==
    /\ Idle(Main) /\ AllSpawned
    /\ thread[w] \in {"stored", "done", "ended"} /\ joined[w] = None
    /\ joined' = [joined EXCEPT ![w] = result[w]]
    /\ struct' = [struct EXCEPT ![w] = "freed"]
    /\ UNCHANGED <<heap_vars, thread, touched, result, body_vars>>

\* WaitForSingleObject returns when the OS thread has ended; then the result
\* is read and the struct freed.
Join(w) ==
    /\ Idle(Main) /\ AllSpawned
    /\ thread[w] = "ended" /\ joined[w] = None
    /\ joined' = [joined EXCEPT ![w] = result[w]]
    /\ struct' = [struct EXCEPT ![w] = "freed"]
    /\ UNCHANGED <<heap_vars, thread, touched, result, body_vars>>

-----------------------------------------------------------------------------
(***************************************************************************)
(* meth_thread_entry: the arguments are read, the function runs, its value *)
(* is stored, done is set, the thread ends.                                *)
(***************************************************************************)
Uses(w) == touched' = IF struct[w] = "live" THEN touched ELSE touched \cup {w}

Enter(w) ==
    /\ ~exited /\ thread[w] = "created"
    /\ Uses(w)
    /\ thread' = [thread EXCEPT ![w] = "runs"]
    /\ UNCHANGED <<heap_vars, struct, result, joined, body_vars>>

StoreResult(w) ==
    /\ ~exited /\ thread[w] = "runs" /\ body[w] = "returned"
    /\ Uses(w)
    /\ result' = [result EXCEPT ![w] = local[w]]
    /\ thread' = [thread EXCEPT ![w] = "stored"]
    /\ UNCHANGED <<heap_vars, struct, joined, body_vars>>

SetDone(w) ==
    /\ ~exited /\ thread[w] = "stored"
    /\ Uses(w)
    /\ thread' = [thread EXCEPT ![w] = "done"]
    /\ UNCHANGED <<heap_vars, struct, result, joined, body_vars>>

ThreadEnds(w) ==
    /\ ~exited /\ thread[w] = "done"
    /\ thread' = [thread EXCEPT ![w] = "ended"]
    /\ UNCHANGED <<heap_vars, struct, touched, result, joined, body_vars>>

-----------------------------------------------------------------------------
(***************************************************************************)
(* The function of a worker.                                               *)
(***************************************************************************)
At(w, from, to) ==
    /\ thread[w] = "runs" /\ Idle(w)
    /\ body[w] = from
    /\ body' = [body EXCEPT ![w] = to]

WorkerAlloc(w) ==
    /\ At(w, "alloc", "lock")
    /\ \E s \in Sizes : Alloc(w, s)
    /\ UNCHANGED <<thread_vars, local, ticket, mutex, owner, cell, tickets, total, calls>>

\* __meth_mutex_lock: without a mutex it returns at once.
__meth_mutex_lock(w) == IF mutex THEN owner = None /\ owner' = w ELSE UNCHANGED owner

\* Mutant: the guard is dropped and the mutex stays locked.
NoMutexUnlock == UNCHANGED owner

__meth_mutex_unlock == owner' = IF mutex THEN None ELSE owner

WorkerLock(w) ==
    /\ At(w, "lock", "load")
    /\ __meth_mutex_lock(w)
    /\ UNCHANGED <<heap_vars, thread_vars, local, ticket, mutex, cell, tickets, total, calls>>

WorkerLoad(w) ==
    /\ At(w, "load", "store")
    /\ local' = [local EXCEPT ![w] = cell]
    /\ UNCHANGED <<heap_vars, thread_vars, ticket, mutex, owner, cell, tickets, total, calls>>

WorkerStore(w) ==
    /\ At(w, "store", "unlock")
    /\ cell' = local[w] + 1
    /\ UNCHANGED <<heap_vars, thread_vars, local, ticket, mutex, owner, tickets, total, calls>>

WorkerUnlock(w) ==
    /\ At(w, "unlock", "ticket")
    /\ __meth_mutex_unlock
    /\ UNCHANGED <<heap_vars, thread_vars, local, ticket, mutex, cell, tickets, total, calls>>

\* __meth_atomic_fetch_add(tickets, 1)
WorkerTicket(w) ==
    /\ At(w, "ticket", "expect")
    /\ ticket' = [ticket EXCEPT ![w] = tickets]
    /\ tickets' = tickets + 1
    /\ UNCHANGED <<heap_vars, thread_vars, local, mutex, owner, cell, total, calls>>

\* __meth_atomic_load(total)
WorkerExpect(w) ==
    /\ At(w, "expect", "cas")
    /\ local' = [local EXCEPT ![w] = total]
    /\ UNCHANGED <<heap_vars, thread_vars, ticket, mutex, owner, cell, tickets, total, calls>>

\* Mutant: the value is stored whatever the cell holds.
CasBlind(w) ==
    /\ total' = local[w] + 1
    /\ body' = [body EXCEPT ![w] = "returned"]
    /\ local' = [local EXCEPT ![w] = ticket[w]]

\* __meth_atomic_cas(total, local, local + 1) returns the old value and
\* stores only if it is the expected one; the loop tries again with it.
Cas(w) ==
    IF total = local[w]
    THEN /\ total' = local[w] + 1
         /\ body' = [body EXCEPT ![w] = "returned"]
         /\ local' = [local EXCEPT ![w] = ticket[w]]
    ELSE /\ local' = [local EXCEPT ![w] = total]
         /\ UNCHANGED <<total, body>>

WorkerCas(w) ==
    /\ thread[w] = "runs" /\ Idle(w) /\ body[w] = "cas"
    /\ Cas(w)
    /\ UNCHANGED <<heap_vars, thread_vars, ticket, mutex, owner, cell, tickets, calls>>

-----------------------------------------------------------------------------
\* The main thread may use the heap while its workers run.
MainCall ==
    /\ AllSpawned /\ calls < MaxCalls
    /\ calls' = calls + 1
    /\ \E o \in HeapCalls : Call(Main, o)
    /\ UNCHANGED <<thread_vars, body, local, ticket, mutex, owner, cell, tickets, total>>

Heap(t) == HeapStep(t) /\ UNCHANGED <<thread_vars, body_vars>>

WorkerStep(w) ==
    \/ Enter(w) \/ StoreResult(w) \/ SetDone(w) \/ ThreadEnds(w)
    \/ WorkerAlloc(w) \/ WorkerLock(w) \/ WorkerLoad(w) \/ WorkerStore(w) \/ WorkerUnlock(w)
    \/ WorkerTicket(w) \/ WorkerExpect(w) \/ WorkerCas(w)

Next ==
    \/ \E w \in Workers : Spawn(w) \/ Join(w) \/ JoinRefused(w) \/ WorkerStep(w)
    \/ MainCall
    \/ \E t \in Threads : Heap(t)

Spec == Init /\ [][Next]_vars

(* Every thread is scheduled.  Weak fairness is enough for the spin lock     *)
(* because the program makes finitely many calls; it promises no more.       *)
FairSpec ==
    /\ Spec
    /\ \A w \in Workers : WF_vars(WorkerStep(w)) /\ WF_vars(Spawn(w))
                          /\ WF_vars(Join(w)) /\ WF_vars(JoinRefused(w))
    /\ \A t \in Threads : WF_vars(Heap(t))
-----------------------------------------------------------------------------
(* A thread's struct outlives every use that the thread makes of it, and     *)
(* join returns what the function returned (meth_thread.c:50-83, 117-139).   *)
JoinIsSafe ==
    /\ touched = {}
    /\ \A w \in Workers : joined[w] # None =>
            joined[w] = IF ticket[w] = None THEN 0 ELSE ticket[w]

(* No update of two threads is lost: under the mutex, unless it could not be *)
(* created, by fetch_add, or by the compare-and-swap loop (meth_thread.c:     *)
(* 169-261).                                                                 *)
NoLostUpdate ==
    LET done == {w \in Workers : body[w] = "returned"}
    IN  /\ \A v, w \in Workers : ticket[v] = ticket[w] => v = w \/ ticket[v] = None
        /\ total = Cardinality(done)
        /\ (mutex /\ owner = None) =>
              cell = Cardinality({w \in Workers : body[w] \in {"ticket", "expect", "cas", "returned"}})

(* Every worker that was spawned is joined, or the process ended for want of *)
(* memory (meth_thread.c:117-139).                                           *)
EveryJoinReturns == \A w \in Workers : <>(joined[w] # None \/ exited)
=============================================================================
