--------------------------- MODULE AsyncExecutor ---------------------------
(***************************************************************************)
(* The thread-pool executor of the Mettle async runtime                    *)
(* (bin/runtime/async_runtime.c, from MethAsyncHeader to the end).         *)
(*                                                                         *)
(* A context is a pool worker, a client thread, or a task whose body some  *)
(* worker executes.  A worker that assists executes a task on top of the   *)
(* one it already runs: stack[w] is its C stack, as the sequence of the    *)
(* tasks whose meth_async_execute_task has not returned, the innermost one *)
(* last.  Thread-local storage follows from it: a task context sees itself *)
(* as the current header and is a pool worker, a client sees NULL.         *)
(*                                                                         *)
(* Every action is one critical section of the executor lock together with *)
(* the unlocked code next to it that touches nothing shared.  There is one *)
(* condition variable, every wake-up is a broadcast, and a sleeper may     *)
(* also wake for no reason.                                                *)
(***************************************************************************)
EXTENDS Integers, Sequences, FiniteSets

CONSTANTS
  Tasks,            \* async headers
  Workers,          \* identities of pool threads
  Clients,          \* threads outside the pool
  None,             \* the null header
  Scripts,          \* the programs: the calls each context may make, see Ops
  DefaultCapacity,  \* meth_async_default_queue_capacity, scaled down
  DefaultWorkers    \* meth_async_default_worker_count, scaled down

Ctx == Workers \cup Clients \cup Tasks

\* MethAsyncHeader.state
QUEUED    == 0
EXECUTING == 1
COMPLETED == 2
CANCELLED == 3

\* METH_ASYNC_RUNTIME_STATE_*
RUNNING  == 0
DRAINING == 1
STOPPING == 2
STOPPED  == 3

\* What a context may call: the entry points of the runtime.
Ops ==
       [op : {"start", "wait", "cancel"}, task : Tasks]
  \cup [op : {"shutdown"}, drain : BOOLEAN, timer : {"forever", "timed"}]
  \cup [op : {"reset", "query"}]
  \cup [op : {"configure"}, workers : Nat, capacity : Nat]

ASSUME ContextAssumption ==
  /\ Workers \cap Clients = {}
  /\ Workers \cap Tasks = {}
  /\ Clients \cap Tasks = {}
  /\ None \notin Ctx

ASSUME FiniteAssumption == IsFiniteSet(Tasks) /\ IsFiniteSet(Workers)

ASSUME SizeAssumption ==
  DefaultCapacity \in Nat \ {0} /\ DefaultWorkers \in Nat \ {0}

\* A header is started by one context, once.
ASSUME ScriptAssumption ==
  /\ Scripts \subseteq [Ctx -> SUBSET Ops]
  /\ \A s \in Scripts : \A c, d \in Ctx : \A o \in s[c] \cap s[d] :
       o.op = "start" => c = d

VARIABLES
  hstate,      \* MethAsyncHeader.state
  cancelReq,   \* MethAsyncHeader.cancel_requested
  known,       \* tasks whose meth_async_start has returned
  queue,       \* the ready queue, oldest first (TaskRing models its ring)
  capacity,    \* queue_capacity, 0 while there is no queue
  initialized, initFailed,
  xstate,      \* MethAsyncExecutor.state
  live,        \* live_worker_threads
  outstanding, \* outstanding_tasks
  confWorkers, confCapacity,  \* configured_worker_count, ..._queue_capacity
  pc, arg,     \* control point and header argument of each context
  stack,       \* the tasks each worker is executing, innermost last
  todo,        \* the calls a context has not made yet
  timer        \* of a context in shutdown: "forever", "timed" or "expired"

taskVars == <<hstate, cancelReq, known>>
confVars == <<confWorkers, confCapacity>>
poolVars == <<capacity, initialized, initFailed, confWorkers, confCapacity>>
vars == <<hstate, cancelReq, known, queue, capacity, initialized, initFailed,
          xstate, live, outstanding, confWorkers, confCapacity,
          pc, arg, stack, todo, timer>>

-----------------------------------------------------------------------------
(* Control points *)

WorkerPCs == {"gone", "idle", "idlePark", "busy"}
StartPCs  == {"init", "enq", "enqWake", "enqPark", "enqAssist"}
WaitPCs   == {"wait", "waitPark", "waitAssist"}
StopPCs   == {"sdLoop", "sdPark", "sdFinal"}
BodyPCs   == {"run"} \cup StartPCs \cup WaitPCs \cup StopPCs
TaskPCs   == {"off", "begin", "end"} \cup BodyPCs
Parked    == {"idlePark", "enqPark", "waitPark", "sdPark"}

Resume(p) ==
  CASE p = "idlePark" -> "idle"
    [] p = "enqPark"  -> "enqWake"
    [] p = "waitPark" -> "wait"
    [] p = "sdPark"   -> "sdLoop"
    [] OTHER          -> p

\* meth_async_executor_wake_all_locked
Wake(p) == [c \in Ctx |-> Resume(p[c])]

Init ==
  /\ hstate = [t \in Tasks |-> QUEUED]
  /\ cancelReq = [t \in Tasks |-> FALSE]
  /\ known = {}
  /\ queue = <<>>
  /\ capacity = 0
  /\ initialized = FALSE /\ initFailed = FALSE
  /\ xstate = RUNNING
  /\ live = 0 /\ outstanding = 0
  /\ confWorkers = 0 /\ confCapacity = 0
  /\ pc = [c \in Ctx |-> IF c \in Workers THEN "gone"
                         ELSE IF c \in Clients THEN "run" ELSE "off"]
  /\ arg = [c \in Ctx |-> None]
  /\ stack = [w \in Workers |-> <<>>]
  /\ todo \in Scripts
  /\ timer = [c \in Ctx |-> "forever"]

InQueue(t) == \E i \in 1..Len(queue) : queue[i] = t

\* meth_async_queue_remove_locked: what follows the target moves up by one
QueueWithout(q, t) ==
  LET found == CHOOSE i \in 1..Len(q) : q[i] = t
  IN  [i \in 1..(Len(q) - 1) |-> IF i < found THEN q[i] ELSE q[i + 1]]

\* Mutant: the task is counted out again in each terminal state it is given.
CountedOutAgain(n, before, after) ==
  IF after >= COMPLETED /\ n > 0 THEN n - 1 ELSE n

\* meth_async_set_state_locked counts a task out when it becomes terminal.
CountedOut(n, before, after) ==
  IF before < COMPLETED /\ after >= COMPLETED /\ n > 0 THEN n - 1 ELSE n

\* Mutant: a cancelled task reports success.
FinalStateUnasked(t) == IF xstate >= STOPPING THEN CANCELLED ELSE COMPLETED

\* The terminal state chosen by execute_task and by meth_async_finish
FinalState(t) ==
  IF cancelReq[t] \/ xstate >= STOPPING THEN CANCELLED ELSE COMPLETED

\* meth_async_resolve_worker_count_locked, ..._queue_capacity_locked
ResolvedWorkers  == IF confWorkers > 0 THEN confWorkers ELSE DefaultWorkers
ResolvedCapacity == IF confCapacity > 0 THEN confCapacity ELSE DefaultCapacity

Calls(c, o) == pc[c] = "run" /\ o \in todo[c]
Consume(c, o) == todo' = [todo EXCEPT ![c] = @ \ {o}]

-----------------------------------------------------------------------------
(* meth_async_executor_ensure_initialized.  The pool starts with any        *)
(* non-empty set of at most ResolvedWorkers threads: the creation of        *)
(* threads stops at the first failure.                                      *)

InitAccepts == initialized /\ xstate = RUNNING
MayInit     == ~initialized /\ ~initFailed /\ xstate = RUNNING
InitRefuses == ~InitAccepts /\ ~MayInit

FreshPools == {S \in SUBSET {w \in Workers : pc[w] = "gone"} :
                 S # {} /\ Cardinality(S) <= ResolvedWorkers}

Spawned(S, p) == [c \in Ctx |-> IF c \in S THEN "idle" ELSE p[c]]

StartPool(S) ==
  /\ initialized' = TRUE
  /\ capacity' = ResolvedCapacity
  /\ live' = Cardinality(S)
  /\ outstanding' = 0
  /\ queue' = <<>>
  /\ UNCHANGED <<initFailed, xstate, confVars>>

\* No queue, no handle array, or not a single thread could be had.
PoolFails ==
  /\ MayInit
  /\ initFailed' = TRUE
  /\ UNCHANGED <<initialized, capacity, live, outstanding, queue, xstate,
                 confVars>>

PoolUnchanged ==
  UNCHANGED <<initialized, capacity, live, outstanding, queue, initFailed,
              xstate, confVars>>

\* In context c; 1 is returned and c goes on at control point yes.
InitReturns1(c, yes) ==
  \/ /\ InitAccepts
     /\ PoolUnchanged
     /\ pc' = [pc EXCEPT ![c] = yes]
  \/ /\ MayInit
     /\ \E S \in FreshPools :
          /\ StartPool(S)
          /\ pc' = Wake(Spawned(S, [pc EXCEPT ![c] = yes]))

\* In context c; 0 is returned and c goes on at control point no.
InitReturns0(c, no) ==
  /\ \/ InitRefuses /\ PoolUnchanged
     \/ PoolFails
  /\ pc' = [pc EXCEPT ![c] = no]

\* meth_async_runtime_worker_count and the other diagnostics that make sure
\* of the pool before they read a field
QueryCall(c, o) ==
  /\ Calls(c, o) /\ o.op = "query"
  /\ Consume(c, o)
  /\ InitReturns1(c, "run") \/ InitReturns0(c, "run")
  /\ UNCHANGED <<taskVars, arg, stack, timer>>

-----------------------------------------------------------------------------
(* meth_async_start *)

StartCall(c, o) ==
  /\ Calls(c, o) /\ o.op = "start"
  /\ Consume(c, o)
  /\ hstate' = [hstate EXCEPT ![o.task] = QUEUED]
  /\ cancelReq' = [cancelReq EXCEPT ![o.task] = FALSE]
  /\ arg' = [arg EXCEPT ![c] = o.task]
  /\ pc' = [pc EXCEPT ![c] = "init"]
  /\ UNCHANGED <<known, queue, poolVars, xstate, live, outstanding, stack,
                 timer>>

\* Whatever the outcome, the caller now holds the header; a refused task is
\* marked cancelled without the lock and without a broadcast.
StartReturns(c, accepted) ==
  /\ known' = known \cup {arg[c]}
  /\ arg' = [arg EXCEPT ![c] = None]
  /\ hstate' = IF accepted THEN hstate
               ELSE [hstate EXCEPT ![arg[c]] = CANCELLED]

StartInit(c) ==
  /\ pc[c] = "init"
  /\ \/ InitReturns1(c, "enq") /\ UNCHANGED <<hstate, known, arg>>
     \/ InitReturns0(c, "run") /\ StartReturns(c, FALSE)
  /\ UNCHANGED <<cancelReq, stack, todo, timer>>

QueueFull == Len(queue) >= capacity

\* meth_async_executor_enqueue refuses the task, at once or after a sleep.
EnqueueRefused(c) ==
  /\ \/ pc[c] = "enq" /\ (~initialized \/ xstate # RUNNING)
     \/ pc[c] = "enqWake" /\ xstate # RUNNING
  /\ StartReturns(c, FALSE)
  /\ pc' = [pc EXCEPT ![c] = "run"]
  /\ UNCHANGED <<cancelReq, queue, poolVars, xstate, live, outstanding,
                 stack, todo, timer>>

\* Mutant: the lifecycle state is not looked at again after a sleep.
EnqueueOpenAsBefore(c) ==
  \/ pc[c] = "enq" /\ initialized /\ xstate = RUNNING
  \/ pc[c] = "enqWake"

\* A sleeper does not look at initialized again.
EnqueueOpen(c) ==
  /\ xstate = RUNNING
  /\ \/ pc[c] = "enq" /\ initialized
     \/ pc[c] = "enqWake"

EnqueuePush(c) ==
  /\ EnqueueOpen(c) /\ ~QueueFull
  /\ queue' = Append(queue, arg[c])
  /\ outstanding' = outstanding + 1
  /\ StartReturns(c, TRUE)
  /\ pc' = Wake([pc EXCEPT ![c] = "run"])
  /\ UNCHANGED <<cancelReq, poolVars, xstate, live, stack, todo, timer>>

Top(w) == IF stack[w] = <<>> THEN w ELSE stack[w][Len(stack[w])]

\* Mutant: taking a task out wakes nobody who waits for room.
PopAndExecuteQuietly(c, q, nested) ==
  \E w \in Workers :
    /\ Top(w) = c
    /\ queue' = Tail(q)
    /\ stack' = [stack EXCEPT ![w] = Append(@, Head(q))]
    /\ pc' = [pc EXCEPT ![c] = nested, ![Head(q)] = "begin"]

\* Context c, on worker w, takes the oldest task out of q and executes it.
PopAndExecute(c, q, nested) ==
  \E w \in Workers :
    /\ Top(w) = c
    /\ queue' = Tail(q)
    /\ stack' = [stack EXCEPT ![w] = Append(@, Head(q))]
    /\ pc' = Wake([pc EXCEPT ![c] = nested, ![Head(q)] = "begin"])

EnqueueMayAssist(c) == c \in Tasks /\ queue # <<>>

\* A pool worker that finds the queue full runs the oldest task itself.
EnqueueAssist(c) ==
  /\ EnqueueOpen(c) /\ QueueFull
  /\ EnqueueMayAssist(c)
  /\ PopAndExecute(c, queue, "enqAssist")
  /\ UNCHANGED <<taskVars, poolVars, xstate, live, outstanding, arg, todo,
                 timer>>

EnqueueWait(c) ==
  /\ EnqueueOpen(c) /\ QueueFull
  /\ ~EnqueueMayAssist(c)
  /\ pc' = [pc EXCEPT ![c] = "enqPark"]
  /\ UNCHANGED <<taskVars, queue, poolVars, xstate, live, outstanding, arg,
                 stack, todo, timer>>

-----------------------------------------------------------------------------
(* meth_async_cancel *)

\* meth_async_cancel_locked takes a task that has not begun out of the queue.
TakesOut(t) == initialized /\ hstate[t] = QUEUED /\ InQueue(t)

CancelLocked(t) ==
  /\ cancelReq' = [cancelReq EXCEPT ![t] = TRUE]
  /\ IF TakesOut(t)
     THEN /\ hstate' = [hstate EXCEPT ![t] = CANCELLED]
          /\ outstanding' = CountedOut(outstanding, hstate[t], CANCELLED)
     ELSE UNCHANGED <<hstate, outstanding>>

QueueAfterCancel(t) == IF TakesOut(t) THEN QueueWithout(queue, t) ELSE queue

CancelCall(c, o) ==
  /\ Calls(c, o) /\ o.op = "cancel" /\ o.task \in known
  /\ Consume(c, o)
  /\ CancelLocked(o.task)
  /\ queue' = QueueAfterCancel(o.task)
  /\ pc' = Wake(pc)
  /\ UNCHANGED <<known, poolVars, xstate, live, arg, stack, timer>>

-----------------------------------------------------------------------------
(* meth_async_wait, on a header that belongs to the pool *)

\* A task that waits for itself, and any wait while the pool is not running,
\* return at once.
WaitCall(c, o) ==
  /\ Calls(c, o) /\ o.op = "wait" /\ o.task \in known
  /\ Consume(c, o)
  /\ \/ /\ c # o.task
        /\ InitReturns1(c, "wait")
        /\ arg' = [arg EXCEPT ![c] = o.task]
     \/ /\ \/ c = o.task /\ InitReturns1(c, "run")
           \/ InitReturns0(c, "run")
        /\ UNCHANGED arg
  /\ UNCHANGED <<taskVars, stack, timer>>

\* The target is terminal, or the pool is being stopped.
WaitReturn(c) ==
  /\ pc[c] = "wait"
  /\ \/ hstate[arg[c]] >= COMPLETED
     \/ xstate >= STOPPING
  /\ pc' = [pc EXCEPT ![c] = "run"]
  /\ arg' = [arg EXCEPT ![c] = None]
  /\ UNCHANGED <<taskVars, queue, poolVars, xstate, live, outstanding, stack,
                 todo, timer>>

WaitGoesOn(c) ==
  pc[c] = "wait" /\ hstate[arg[c]] < COMPLETED /\ xstate < STOPPING

\* The waiting task was itself cancelled: it passes the request on.
PassesCancelOn(c) == c \in Tasks /\ cancelReq[c] /\ ~cancelReq[arg[c]]

MayNeverAssist(c, q) == FALSE   \* mutant

MayAssist(c, q) == xstate = RUNNING /\ c \in Tasks /\ q # <<>>

WaitAssist(c) ==
  /\ WaitGoesOn(c) /\ ~PassesCancelOn(c)
  /\ MayAssist(c, queue)
  /\ PopAndExecute(c, queue, "waitAssist")
  /\ UNCHANGED <<taskVars, poolVars, xstate, live, outstanding, arg, todo,
                 timer>>

WaitPark(c) ==
  /\ WaitGoesOn(c) /\ ~PassesCancelOn(c)
  /\ ~MayAssist(c, queue)
  /\ pc' = [pc EXCEPT ![c] = "waitPark"]
  /\ UNCHANGED <<taskVars, queue, poolVars, xstate, live, outstanding, arg,
                 stack, todo, timer>>

\* The request is passed on under the lock, the other sleepers are woken, and
\* then this context assists or sleeps: it does not look at the state of the
\* target again first.
WaitPassCancel(c) ==
  /\ WaitGoesOn(c) /\ PassesCancelOn(c)
  /\ CancelLocked(arg[c])
  /\ LET q == QueueAfterCancel(arg[c])
     IN  \/ /\ MayAssist(c, q)
            /\ PopAndExecute(c, q, "waitAssist")
         \/ /\ ~MayAssist(c, q)
            /\ queue' = q
            /\ pc' = [Wake(pc) EXCEPT ![c] = "waitPark"]
            /\ UNCHANGED stack
  /\ UNCHANGED <<known, poolVars, xstate, live, arg, todo, timer>>

-----------------------------------------------------------------------------
(* meth_async_worker_main *)

WorkerPop(w) ==
  /\ pc[w] = "idle" /\ queue # <<>>
  /\ PopAndExecute(w, queue, "busy")
  /\ UNCHANGED <<taskVars, poolVars, xstate, live, outstanding, arg, todo,
                 timer>>

\* Mutant: a worker leaves whenever it finds no work.
WorkerMayAlwaysLeave == TRUE

WorkerMayLeave == ~initialized \/ xstate >= STOPPING

WorkerPark(w) ==
  /\ pc[w] = "idle" /\ queue = <<>> /\ ~WorkerMayLeave
  /\ pc' = [pc EXCEPT ![w] = "idlePark"]
  /\ UNCHANGED <<taskVars, queue, poolVars, xstate, live, outstanding, arg,
                 stack, todo, timer>>

WorkerLeave(w) ==
  /\ pc[w] = "idle" /\ queue = <<>> /\ WorkerMayLeave
  /\ live' = IF live > 0 THEN live - 1 ELSE live
  /\ pc' = Wake([pc EXCEPT ![w] = "gone"])
  /\ UNCHANGED <<taskVars, queue, poolVars, xstate, outstanding, arg, stack,
                 todo, timer>>

-----------------------------------------------------------------------------
(* meth_async_execute_task *)

ExecBegin(t) ==
  /\ pc[t] = "begin"
  /\ LET skipped == hstate[t] >= COMPLETED
         s == IF skipped THEN hstate[t]
              ELSE IF cancelReq[t] \/ xstate >= STOPPING THEN CANCELLED
              ELSE EXECUTING
     IN  /\ hstate' = [hstate EXCEPT ![t] = s]
         /\ outstanding' = CountedOut(outstanding, hstate[t], s)
         /\ pc' = [pc EXCEPT ![t] = IF s = EXECUTING THEN "run" ELSE "end"]
  /\ UNCHANGED <<cancelReq, known, queue, poolVars, xstate, live, arg, stack,
                 todo, timer>>

\* The body returns.
BodyReturn(t) ==
  /\ t \in Tasks /\ pc[t] = "run"
  /\ pc' = [pc EXCEPT ![t] = "end"]
  /\ UNCHANGED <<taskVars, queue, poolVars, xstate, live, outstanding, arg,
                 stack, todo, timer>>

\* The body calls meth_async_finish on its own header as its last act.
BodyFinish(t) ==
  /\ t \in Tasks /\ pc[t] = "run"
  /\ hstate' = [hstate EXCEPT ![t] = FinalState(t)]
  /\ outstanding' = CountedOut(outstanding, hstate[t], FinalState(t))
  /\ pc' = Wake([pc EXCEPT ![t] = "end"])
  /\ UNCHANGED <<cancelReq, known, queue, poolVars, xstate, live, arg, stack,
                 todo, timer>>

\* Where the context that executed a task goes on
AfterExecute(p) ==
  CASE p = "busy"       -> "idle"
    [] p = "waitAssist" -> "wait"
    [] p = "enqAssist"  -> "enq"

Front(s) == [i \in 1..(Len(s) - 1) |-> s[i]]

ExecEnd(t) ==
  /\ pc[t] = "end"
  /\ LET s == IF hstate[t] < COMPLETED THEN FinalState(t) ELSE hstate[t]
     IN  /\ hstate' = [hstate EXCEPT ![t] = s]
         /\ outstanding' = CountedOut(outstanding, hstate[t], s)
  /\ \E w \in Workers :
       /\ Top(w) = t
       /\ stack' = [stack EXCEPT ![w] = Front(@)]
       /\ LET n == Len(stack[w])
              below == IF n = 1 THEN w ELSE stack[w][n - 1]
          IN  pc' = Wake([pc EXCEPT ![t] = "off",
                                    ![below] = AfterExecute(pc[below])])
  /\ UNCHANGED <<cancelReq, known, queue, poolVars, xstate, live, arg, todo,
                 timer>>

-----------------------------------------------------------------------------
(* meth_async_runtime_shutdown, _reset and _configure *)

\* meth_async_abort_queued_locked, when doIt holds
AbortQueued(doIt) ==
  IF doIt
  THEN /\ queue' = <<>>
       /\ hstate' = [t \in Tasks |-> IF InQueue(t) THEN CANCELLED
                                     ELSE hstate[t]]
       /\ cancelReq' = [t \in Tasks |-> cancelReq[t] \/ InQueue(t)]
       /\ outstanding' = IF outstanding >= Len(queue)
                         THEN outstanding - Len(queue) ELSE 0
  ELSE UNCHANGED <<queue, hstate, cancelReq, outstanding>>

DrainedQueue(x) == x = DRAINING /\ queue = <<>>   \* mutant: not the counter

Drained(x) == x = DRAINING /\ outstanding = 0 /\ queue = <<>>

\* The waiting loop of shutdown, from its head to the next sleep or exit, in
\* context c.  x is the lifecycle state at its head, and entered tells that
\* this critical section has just set it to x (aborting the queue when x is
\* STOPPING).  An expired drain aborts the queue and goes round once more.
ShutdownLoop(c, x, entered) ==
  LET expired  == timer'[c] = "expired"
      givesUp  == x = DRAINING /\ ~Drained(x) /\ expired
      y        == IF Drained(x) \/ givesUp THEN STOPPING ELSE x
      finished == y = STOPPING /\ live = 0
      awake    == IF entered \/ x # y THEN Wake(pc) ELSE pc
  IN  /\ xstate' = y
      /\ AbortQueued(givesUp \/ (entered /\ x = STOPPING))
      /\ pc' = [awake EXCEPT ![c] = IF finished THEN "sdFinal"
                                    ELSE IF expired THEN "run" ELSE "sdPark"]

\* Already stopped, or never initialized: there is nothing to wait for.
ShutdownIdle(c, o) ==
  /\ Calls(c, o) /\ o.op = "shutdown"
  /\ Consume(c, o)
  /\ \/ /\ xstate = STOPPED
        /\ UNCHANGED <<xstate, initFailed, pc>>
     \/ /\ xstate # STOPPED /\ ~initialized
        /\ xstate' = STOPPED
        /\ initFailed' = TRUE
        /\ pc' = Wake(pc)
  /\ UNCHANGED <<taskVars, queue, capacity, initialized, confVars, live,
                 outstanding, arg, stack, timer>>

ShutdownCall(c, o) ==
  /\ Calls(c, o) /\ o.op = "shutdown"
  /\ xstate # STOPPED /\ initialized
  /\ Consume(c, o)
  /\ \E d \in {o.timer} \cup (IF o.timer = "timed" THEN {"expired"} ELSE {}) :
       timer' = [timer EXCEPT ![c] = d]
  /\ ShutdownLoop(c, IF o.drain /\ xstate = RUNNING THEN DRAINING
                     ELSE STOPPING, TRUE)
  /\ UNCHANGED <<known, poolVars, live, arg, stack>>

ShutdownWake(c) ==
  /\ pc[c] = "sdLoop"
  /\ UNCHANGED timer
  /\ ShutdownLoop(c, xstate, FALSE)
  /\ UNCHANGED <<known, poolVars, live, arg, stack, todo>>

\* The workers have left the pool, so the joins between the two critical
\* sections wait for nothing the model has; the lock is free meanwhile.
ShutdownFinal(c) ==
  /\ pc[c] = "sdFinal"
  /\ queue' = <<>> /\ capacity' = 0
  /\ live' = 0 /\ outstanding' = 0
  /\ initialized' = FALSE /\ initFailed' = TRUE
  /\ xstate' = STOPPED
  /\ pc' = Wake([pc EXCEPT ![c] = "run"])
  /\ UNCHANGED <<taskVars, confVars, arg, stack, todo, timer>>

DeadlineExpires(c) ==
  /\ pc[c] \in {"sdLoop", "sdPark"} /\ timer[c] = "timed"
  /\ timer' = [timer EXCEPT ![c] = "expired"]
  /\ pc' = [pc EXCEPT ![c] = "sdLoop"]
  /\ UNCHANGED <<taskVars, queue, poolVars, xstate, live, outstanding, arg,
                 stack, todo>>

ResetCall(c, o) ==
  /\ Calls(c, o) /\ o.op = "reset"
  /\ Consume(c, o)
  /\ IF xstate = STOPPED /\ ~initialized /\ live = 0
     THEN initFailed' = FALSE /\ xstate' = RUNNING
     ELSE UNCHANGED <<initFailed, xstate>>
  /\ UNCHANGED <<taskVars, queue, capacity, initialized, confVars, live,
                 outstanding, pc, arg, stack, timer>>

ConfigureCall(c, o) ==
  /\ Calls(c, o) /\ o.op = "configure"
  /\ Consume(c, o)
  /\ IF MayInit
     THEN confWorkers' = o.workers /\ confCapacity' = o.capacity
     ELSE UNCHANGED confVars
  /\ UNCHANGED <<taskVars, queue, capacity, initialized, initFailed, xstate,
                 live, outstanding, pc, arg, stack, timer>>

-----------------------------------------------------------------------------

Call(c) ==
  \E o \in todo[c] :
    \/ QueryCall(c, o)
    \/ StartCall(c, o)
    \/ CancelCall(c, o)
    \/ WaitCall(c, o)
    \/ ShutdownIdle(c, o)
    \/ ShutdownCall(c, o)
    \/ ResetCall(c, o)
    \/ ConfigureCall(c, o)

\* What the thread of context c does next
Step(c) ==
  \/ Call(c)
  \/ StartInit(c)
  \/ EnqueueRefused(c) \/ EnqueuePush(c) \/ EnqueueAssist(c) \/ EnqueueWait(c)
  \/ WaitReturn(c) \/ WaitAssist(c) \/ WaitPark(c) \/ WaitPassCancel(c)
  \/ ShutdownWake(c) \/ ShutdownFinal(c)

WorkerStep(w) == WorkerPop(w) \/ WorkerPark(w) \/ WorkerLeave(w)

ExecStep(t) == ExecBegin(t) \/ BodyReturn(t) \/ BodyFinish(t) \/ ExecEnd(t)

\* A condition variable may return without a broadcast.
SpuriousWake(c) ==
  /\ pc[c] \in Parked
  /\ pc' = [pc EXCEPT ![c] = Resume(@)]
  /\ UNCHANGED <<taskVars, queue, poolVars, xstate, live, outstanding, arg,
                 stack, todo, timer>>

Next ==
  \/ \E c \in Ctx : Step(c) \/ DeadlineExpires(c) \/ SpuriousWake(c)
  \/ \E w \in Workers : WorkerStep(w)
  \/ \E t \in Tasks : ExecStep(t)

Spec == Init /\ [][Next]_vars

\* The lock and the scheduler starve no thread, bodies return, time passes.
Fairness ==
  /\ \A c \in Clients : WF_vars(Step(c))
  /\ \A w \in Workers : WF_vars(WorkerStep(w))
  /\ \A t \in Tasks : WF_vars(Step(t) \/ ExecStep(t))
  /\ \A c \in Clients : WF_vars(DeadlineExpires(c))

FairSpec == Spec /\ Fairness

-----------------------------------------------------------------------------
(* Safety *)

Executing == {t \in Tasks : pc[t] # "off"}

\* Accepted tasks that have not reached a terminal state
Pending == {t \in Tasks : InQueue(t) \/ (t \in Executing /\ hstate[t] < COMPLETED)}

TypeOK ==
  /\ hstate \in [Tasks -> QUEUED..CANCELLED]
  /\ cancelReq \in [Tasks -> BOOLEAN]
  /\ known \subseteq Tasks
  /\ queue \in Seq(Tasks)
  /\ capacity \in Nat
  /\ initialized \in BOOLEAN /\ initFailed \in BOOLEAN
  /\ xstate \in RUNNING..STOPPED
  /\ live \in Nat /\ outstanding \in Nat
  /\ confWorkers \in Nat /\ confCapacity \in Nat
  /\ pc \in [Ctx -> WorkerPCs \cup TaskPCs]
  /\ \A w \in Workers : pc[w] \in WorkerPCs
  /\ \A c \in Clients : pc[c] \in BodyPCs \ {"enqAssist", "waitAssist"}
  /\ \A t \in Tasks : pc[t] \in TaskPCs
  /\ arg \in [Ctx -> Tasks \cup {None}]
  /\ stack \in [Workers -> Seq(Tasks)]
  /\ todo \in [Ctx -> SUBSET Ops]
  /\ timer \in [Ctx -> {"forever", "timed", "expired"}]

\* At most one context calls meth_async_runtime_shutdown, as often as it likes.
\* A second stopper may find the pool stopped, reset and started again between
\* its own two critical sections, and clears what is no longer its own.
OneStopper ==
  \A s \in Scripts : \A c, d \in Ctx : \A o \in s[c], n \in s[d] :
    o.op = "shutdown" /\ n.op = "shutdown" => c = d

\* The two counters that decide when a drain and a shutdown may go on are exact.
\* outstanding_tasks, which set_state_locked, enqueue and shutdown keep apart
\* from the queue and the threads, is the number of accepted tasks that are not
\* terminal, so that a drain that reads 0 has nothing to wait for;
\* live_worker_threads is the number of threads still inside worker_main.
CountersExact ==
  /\ outstanding = Cardinality(Pending)
  /\ live = Cardinality({w \in Workers : pc[w] # "gone"})

\* Once the runtime is stopped nothing of it is left: no worker, no executing
\* task, no queued task, and every task ever started has a final state.
StoppedIsQuiet ==
  xstate = STOPPED =>
    /\ queue = <<>> /\ Executing = {}
    /\ \A w \in Workers : pc[w] = "gone"
    /\ \A t \in known : hstate[t] >= COMPLETED

\* Nobody sleeps on the condition variable with nothing left to wake it: an
\* idle worker while there is work or the pool stops, an enqueuer while there
\* is room, a drain with nothing outstanding, a client or a task that was not
\* cancelled whose target is terminal.  What execute_task has made terminal
\* without a broadcast it broadcasts when it ends.
NoLostWakeup ==
  \A c \in Ctx :
    /\ pc[c] = "idlePark" => queue = <<>> /\ ~WorkerMayLeave
    /\ pc[c] = "enqPark"  => xstate = RUNNING /\ QueueFull
    /\ pc[c] = "sdPark"   => \/ ~Drained(xstate) /\ ~(xstate = STOPPING /\ live = 0)
                             \/ \E t \in Tasks : pc[t] = "end"
    /\ pc[c] = "waitPark" =>
         /\ xstate < STOPPING
         /\ \/ hstate[arg[c]] < COMPLETED
            \/ pc[arg[c]] = "end"
            \/ c \in Tasks /\ cancelReq[c]

\* Unless its deadline expires, a drain turns into a stop only when every task
\* ever accepted has reached a terminal state.
DrainWaitsForAll ==
  [][ /\ xstate = DRAINING /\ xstate' = STOPPING
      /\ \A c \in Ctx : timer[c] # "expired"
      => \A t \in known : hstate[t] >= COMPLETED ]_vars

\* The phase of a task for the program that holds its header
PhaseOf(t) ==
  IF t \notin known THEN "new"
  ELSE CASE hstate[t] = QUEUED    -> "submitted"
         [] hstate[t] = EXECUTING -> "running"
         [] hstate[t] = COMPLETED -> "completed"
         [] hstate[t] = CANCELLED -> "cancelled"

Lifecycle == INSTANCE AsyncTaskLifecycle WITH
               phase <- [t \in Tasks |-> PhaseOf(t)],
               asked <- {t \in Tasks : cancelReq[t]}

\* The pool keeps the promises of AsyncTaskLifecycle: no body begins twice or
\* after a request to cancel it, no terminal state changes, and a cancelled
\* task never reports success.
ImplementsLifecycle == Lifecycle!Spec

-----------------------------------------------------------------------------
(* Liveness, for programs in which a task waits only for tasks it started *)

\* A task that was started ends: it runs to completion or is cancelled.
EveryTaskEnds ==
  \A t \in Tasks : t \in known ~> hstate[t] >= COMPLETED

\* meth_async_runtime_shutdown returns.
ShutdownReturns ==
  \A c \in Clients : pc[c] \in StopPCs ~> pc[c] = "run"

\* No call sleeps for ever: meth_async_wait returns, meth_async_start does also
\* when the queue is full, and so does meth_async_runtime_shutdown.
CallsReturn ==
  /\ \A c \in Clients \cup Tasks : pc[c] \in {"wait", "enq"} ~> pc[c] = "run"
  /\ ShutdownReturns
=============================================================================
