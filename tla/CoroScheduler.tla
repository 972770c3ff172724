--------------------------- MODULE CoroScheduler ---------------------------
(***************************************************************************)
(* The coroutine scheduler of the Mettle runtime and the reactor below it  *)
(* (bin/runtime/async_runtime.c, up to MethAsyncHeader): the Windows port  *)
(* on an I/O completion port and the POSIX port on poll(2) with a self     *)
(* pipe, whose schedulers are the same code.                               *)
(*                                                                         *)
(* A runner is a thread inside meth_async_wait on coroutine headers; what  *)
(* the compiler makes of an async function, the step function, is external *)
(* and modelled from how the runtime calls it: a step may start one        *)
(* operation, whose completion wakes the coroutine through a token, a      *)
(* direct call of meth_coro_task_schedule or a file descriptor, and the    *)
(* last step makes the header terminal.  A task is named by its address,   *)
(* and an address is used again after a destroy.                           *)
(***************************************************************************)
EXTENDS Integers, Sequences, FiniteSets

CONSTANTS
  Coros,      \* coroutines: their headers, and the tokens bound to them
  Addrs,      \* what calloc may return for a MethCoroTask
  Runners, Wakers,
  Null,
  Backends,   \* a subset of {"iocp", "posix"}
  Plans,      \* the programs of the runners, see PlanOps
  Steps,      \* the number of steps of every coroutine
  MaxOps      \* how many operations one step may start

\* What the program around the coroutines does in a runner: create makes the
\* task, binds its token and schedules it, wait is meth_async_wait.
PlanOps ==
  [op : {"create", "wait"}, coro : Coros] \cup [op : {"down", "up"}]

ASSUME CoroAssumption ==
  /\ Coros \cap Addrs = {} /\ Null \notin Coros \cup Addrs
  /\ Runners \cap Wakers = {} /\ IsFiniteSet(Wakers)
  /\ Steps \in Nat \ {0} /\ MaxOps \in Nat \ {0}
  /\ Plans \subseteq [Runners -> Seq(PlanOps)]

\* One thread at most is inside meth_async_wait, which is what the properties
\* of the tasks rest on; with two, both can step the same task.
SingleRunner == \A r, s \in Runners : r = s

Tokens == Coros \cup Addrs
Vias == {"bound", "handle", "schedule", "io"}

VARIABLES
  backend,
  up, epoch,   \* the port or the pipe exists; how often it was made
  events,      \* wakes (and on iocp completions) in the queue: tokens
  pipe,        \* unread bytes in the self pipe
  regs,        \* registered descriptors, newest first; one per coroutine
  fdReady,     \* descriptors that poll(2) would report
  tasks,       \* the all_head list
  head, tail, next,        \* the ready list
  done, queued,            \* fields of the tasks
  owner,       \* owner[a]: the coroutine whose frame the task at a steps
  binding,     \* token_bindings: tokens to addresses, Null when there is none
  at,          \* at[c]: thread_handle of the header of coroutine c
  state,       \* MethAsyncHeader.state of c: 0, or 2 when it has completed
  left,        \* steps that c still has to make
  ops,         \* operations that coroutines have started: [via, token]
  due,         \* coroutines scheduled since their last step began
  pc, todo, cur, event, seen,  \* of the runners; seen: descriptors to poll
  wpc, giving  \* of the wakers; giving: the token, and the epoch of the port

reactorVars == <<up, epoch, events, pipe, regs, fdReady>>
listVars == <<head, tail, next>>
taskVars == <<tasks, head, tail, next, done, queued, owner, binding>>
coroVars == <<at, state, left, ops, due>>
runnerVars == <<pc, todo, cur, event, seen>>
vars == <<backend, up, epoch, events, pipe, regs, fdReady, tasks, head, tail,
          next, done, queued, owner, binding, at, state, left, ops, due,
          pc, todo, cur, event, seen, wpc, giving>>

Init ==
  /\ backend \in Backends
  /\ up = TRUE /\ epoch = 1
  /\ events = <<>> /\ pipe = 0 /\ regs = <<>> /\ fdReady = {}
  /\ tasks = {}
  /\ head = Null /\ tail = Null /\ next = [a \in Addrs |-> Null]
  /\ done = [a \in Addrs |-> FALSE] /\ queued = [a \in Addrs |-> FALSE]
  /\ owner = [a \in Addrs |-> Null]
  /\ binding = [k \in Coros |-> Null]
  /\ at = [c \in Coros |-> Null]
  /\ state = [c \in Coros |-> 0] /\ left = [c \in Coros |-> Steps]
  /\ ops = {} /\ due = {}
  /\ pc = [r \in Runners |-> "main"]
  /\ todo \in Plans
  /\ cur = [r \in Runners |-> Null] /\ event = [r \in Runners |-> Null]
  /\ seen = [r \in Runners |-> <<>>]
  /\ wpc = [w \in Wakers |-> "idle"] /\ giving = [w \in Wakers |-> [token |-> Null, epoch |-> 0]]

Goto(r, p) == pc' = [pc EXCEPT ![r] = p]

-----------------------------------------------------------------------------
(* The ready list and the tasks, each operation under the scheduler's lock *)

\* meth_coro_task_schedule on handle h; the wake of a task that is already in
\* the list replaces the data of the earlier one, which is not modelled.
Accepts(h) == h \in tasks /\ ~done[h]

Schedule(h) ==
  IF ~Accepts(h)
  THEN UNCHANGED <<head, tail, next, queued, due>>
  ELSE /\ due' = due \cup {owner[h]}
       /\ IF queued[h]
          THEN UNCHANGED <<head, tail, next, queued>>
          ELSE /\ queued' = [queued EXCEPT ![h] = TRUE]
               /\ next' = IF tail = Null THEN [next EXCEPT ![h] = Null]
                          ELSE [next EXCEPT ![h] = Null, ![tail] = h]
               /\ head' = IF tail = Null THEN h ELSE head
               /\ tail' = h

\* Mutant: a task stays marked as queued while it steps.
PopKeepsQueued(r) ==
  /\ head # Null
  /\ cur' = [cur EXCEPT ![r] = head]
  /\ head' = next[head]
  /\ tail' = IF next[head] = Null THEN Null ELSE tail
  /\ next' = [next EXCEPT ![head] = Null]
  /\ UNCHANGED queued

\* meth_coro_pop_ready_task, in runner r, of a list that is not empty
Pop(r) ==
  /\ head # Null
  /\ cur' = [cur EXCEPT ![r] = head]
  /\ head' = next[head]
  /\ tail' = IF next[head] = Null THEN Null ELSE tail
  /\ next' = [next EXCEPT ![head] = Null]
  /\ queued' = [queued EXCEPT ![head] = FALSE]

\* Mutant: the tail keeps pointing at the task that was taken out.
UnlinkKeepsTail(h) ==
  LET before == {a \in tasks : next[a] = h /\ queued[a]}
      prev == IF before = {} THEN Null ELSE CHOOSE a \in before : TRUE
  IN  /\ head' = IF head = h THEN next[h] ELSE head
      /\ next' = IF prev = Null THEN next ELSE [next EXCEPT ![prev] = next[h]]
      /\ tail' = tail

\* Mutant: a task is freed without a look at the ready list.
UnlinkNothing(h) == UNCHANGED <<head, tail, next>>

\* The part of meth_coro_task_destroy that takes h out of the ready list
Unlink(h) ==
  LET before == {a \in tasks : next[a] = h /\ queued[a]}
      prev == IF before = {} THEN Null ELSE CHOOSE a \in before : TRUE
  IN  /\ head' = IF head = h THEN next[h] ELSE head
      /\ next' = IF prev = Null THEN next ELSE [next EXCEPT ![prev] = next[h]]
      /\ tail' = IF tail = h THEN prev ELSE tail

\* meth_coro_task_destroy; the memory of the task keeps its contents.
Destroy(h) ==
  /\ h \in tasks
  /\ tasks' = tasks \ {h}
  /\ IF queued[h] THEN Unlink(h) ELSE UNCHANGED <<head, tail, next>>
  /\ binding' = [k \in Coros |-> IF binding[k] = h THEN Null ELSE binding[k]]
  /\ due' = due \ {owner[h]}

-----------------------------------------------------------------------------
(* The program of a runner *)

Ready(r, o) == pc[r] = "main" /\ todo[r] # <<>> /\ Head(todo[r]) = o
Done(r) == todo' = [todo EXCEPT ![r] = Tail(@)]

\* meth_coro_task_bind_token
Bind(c, a) == binding' = [binding EXCEPT ![c] = a]

\* meth_coro_task_create (whose memory is cleared), _bind_token and the first
\* _schedule: nobody else has the handle in between.
Create(r, c) ==
  /\ Ready(r, [op |-> "create", coro |-> c]) /\ Done(r)
  /\ \E a \in Addrs \ tasks :
       /\ tasks' = tasks \cup {a}
       /\ at' = [at EXCEPT ![c] = a]
       /\ owner' = [owner EXCEPT ![a] = c]
       /\ done' = [done EXCEPT ![a] = FALSE]
       /\ Bind(c, a)
       /\ queued' = [queued EXCEPT ![a] = TRUE]
       /\ next' = IF tail = Null THEN [next EXCEPT ![a] = Null]
                  ELSE [next EXCEPT ![a] = Null, ![tail] = a]
       /\ head' = IF tail = Null THEN a ELSE head
       /\ tail' = a
  /\ due' = due \cup {c}
  /\ UNCHANGED <<backend, reactorVars, state, left, ops, pc, cur, event, seen,
                 wpc, giving>>

\* meth_async_wait: the loop ends when the header is terminal.
WaitDone(r, c) ==
  /\ Ready(r, [op |-> "wait", coro |-> c]) /\ state[c] >= 2 /\ Done(r)
  /\ IF at[c] \in tasks THEN Destroy(at[c])
     ELSE UNCHANGED <<tasks, listVars, binding, due>>
  /\ at' = [at EXCEPT ![c] = Null]
  /\ UNCHANGED <<backend, reactorVars, done, queued, owner, state,
                 left, ops, pc, cur, event, seen, wpc, giving>>

\* Otherwise it calls meth_coro_task_run_one, which runs a ready task, or
\* polls.
RunReady(r, c) ==
  /\ Ready(r, [op |-> "wait", coro |-> c]) /\ state[c] < 2
  /\ Pop(r) /\ Goto(r, "read")
  /\ UNCHANGED <<backend, reactorVars, tasks, done, owner, binding,
                 coroVars, todo, event, seen, wpc, giving>>

RunPoll(r, c) ==
  /\ Ready(r, [op |-> "wait", coro |-> c]) /\ state[c] < 2
  /\ head = Null /\ Goto(r, "poll")
  /\ UNCHANGED <<backend, reactorVars, taskVars, coroVars, todo, cur, event,
                 seen, wpc, giving>>

\* meth_coro_iocp_runtime_shutdown and _init, called between two waits
ReactorDown(r) ==
  /\ Ready(r, [op |-> "down"]) /\ Done(r)
  /\ up' = FALSE /\ events' = <<>> /\ pipe' = 0 /\ regs' = <<>>
  /\ UNCHANGED <<backend, epoch, fdReady, taskVars, coroVars, pc, cur, event,
                 seen, wpc, giving>>

ReactorUp(r) ==
  /\ Ready(r, [op |-> "up"]) /\ Done(r)
  /\ IF up THEN UNCHANGED <<up, epoch>>
     ELSE up' = TRUE /\ epoch' = epoch + 1
  /\ UNCHANGED <<backend, events, pipe, regs, fdReady, taskVars, coroVars, pc,
                 cur, event, seen, wpc, giving>>

-----------------------------------------------------------------------------
(* A step, between the pop and the second lock of meth_coro_task_run_one *)

\* The wake data is read, without the lock, and the step function is called.
\* It may start some operations; one on its descriptor registers it first.
Registered(c) == \E i \in 1..Len(regs) : regs[i] = c

StepBegin(r) ==
  /\ pc[r] = "read"
  /\ LET c == owner[cur[r]]
         token(v) == IF v \in {"bound", "io"} THEN c ELSE cur[r]
     IN  /\ due' = due \ {c}
         /\ fdReady' = IF state[c] < 2 THEN fdReady \ {c} ELSE fdReady
         /\ left' = [left EXCEPT ![c] = IF @ > 0 THEN @ - 1 ELSE 0]
         /\ \E V \in SUBSET Vias :
              /\ IF left[c] > 1 THEN Cardinality(V) \in 1..MaxOps ELSE V = {}
              /\ "io" \in V => up
              /\ ops' = ops \cup {[via |-> v, token |-> token(v)] : v \in V}
              /\ regs' = IF "io" \in V /\ ~Registered(c)
                         THEN <<c>> \o regs ELSE regs
  /\ Goto(r, "step")
  /\ UNCHANGED <<backend, up, epoch, events, pipe, taskVars, at, state, todo,
                 cur, event, seen, wpc, giving>>

AfterStep(r) == IF left[owner[cur[r]]] = 0 THEN "complete" ELSE "main"

\* The last step makes the header terminal before it returns.
StepEnd(r) ==
  /\ pc[r] = "step"
  /\ LET c == owner[cur[r]]
     IN  state' = IF left[c] = 0 THEN [state EXCEPT ![c] = 2] ELSE state
  /\ Goto(r, AfterStep(r))
  /\ UNCHANGED <<backend, reactorVars, taskVars, at, left, ops, due, todo, cur,
                 event, seen, wpc, giving>>

\* The task is found again by its address.
MarkDone(r) ==
  /\ pc[r] = "complete"
  /\ done' = IF cur[r] \in tasks THEN [done EXCEPT ![cur[r]] = TRUE] ELSE done
  /\ Goto(r, "main")
  /\ UNCHANGED <<backend, reactorVars, tasks, listVars, queued, owner,
                 binding, coroVars, todo, cur, event, seen, wpc, giving>>

-----------------------------------------------------------------------------
(* meth_coro_iocp_runtime_poll(10, ...), called by a runner without work *)

\* What one read of the non-blocking end of the self pipe leaves in it
Drained == IF pipe > 0 THEN pipe - 1 ELSE 0

PollDown(r) ==
  /\ pc[r] = "poll" /\ ~up /\ Goto(r, "main")
  /\ UNCHANGED <<backend, reactorVars, taskVars, coroVars, todo, cur, event,
                 seen, wpc, giving>>

\* A queued wake, or on iocp a completion, is delivered; on posix its byte is
\* read after the unlock.
TakeEvent(r) ==
  /\ events # <<>>
  /\ event' = [event EXCEPT ![r] = Head(events)]
  /\ events' = Tail(events)

PollTake(r) ==
  /\ pc[r] = "poll" /\ up /\ TakeEvent(r)
  /\ Goto(r, IF backend = "posix" THEN "drain" ELSE "resolve")
  /\ UNCHANGED <<backend, up, epoch, pipe, regs, fdReady, taskVars, coroVars,
                 todo, cur, seen, wpc, giving>>

PollSleep(r) ==
  /\ pc[r] = "poll" /\ up /\ events = <<>>
  /\ Goto(r, "asleep")
  /\ seen' = [seen EXCEPT ![r] = IF backend = "posix" THEN regs ELSE <<>>]
  /\ UNCHANGED <<backend, reactorVars, taskVars, coroVars, todo, cur, event,
                 wpc, giving>>

Reported(r) == SelectSeq(seen[r], LAMBDA c : c \in fdReady)

\* The ten milliseconds pass, which they do only with nothing to report.
SleepTimeout(r) ==
  /\ pc[r] = "asleep"
  /\ IF backend = "posix" THEN pipe = 0 /\ Reported(r) = <<>> ELSE events = <<>>
  /\ Goto(r, "main")
  /\ UNCHANGED <<backend, reactorVars, taskVars, coroVars, todo, cur, event,
                 seen, wpc, giving>>

SleepTake(r) ==
  /\ pc[r] = "asleep" /\ backend = "iocp"
  /\ TakeEvent(r) /\ Goto(r, "resolve")
  /\ UNCHANGED <<backend, up, epoch, pipe, regs, fdReady, taskVars, coroVars,
                 todo, cur, seen, wpc, giving>>

\* poll(2) returns with what was ready at that moment.
PollReturns(r) ==
  /\ pc[r] = "asleep" /\ backend = "posix"
  /\ pipe > 0 \/ Reported(r) # <<>>
  /\ seen' = [seen EXCEPT ![r] = Reported(r)]
  /\ Goto(r, IF pipe > 0 THEN "awake" ELSE "scan")
  /\ UNCHANGED <<backend, reactorVars, taskVars, coroVars, todo, cur, event,
                 wpc, giving>>

\* The pipe was readable: take the next wake, if it is still there.
AwakeTake(r) ==
  /\ pc[r] = "awake"
  /\ \/ TakeEvent(r)
     \/ events = <<>> /\ event' = [event EXCEPT ![r] = Null] /\ UNCHANGED events
  /\ Goto(r, "drain")
  /\ UNCHANGED <<backend, up, epoch, pipe, regs, fdReady, taskVars, coroVars,
                 todo, cur, seen, wpc, giving>>

Drain(r) ==
  /\ pc[r] = "drain"
  /\ pipe' = Drained
  /\ Goto(r, IF event[r] = Null THEN "scan" ELSE "resolve")
  /\ UNCHANGED <<backend, up, epoch, events, regs, fdReady, taskVars, coroVars,
                 todo, cur, event, seen, wpc, giving>>

\* The first descriptor with something to report, the newest registration
\* before the others, gives its token; no event, and run_one returns.
Scan(r) ==
  /\ pc[r] = "scan"
  /\ IF seen[r] = <<>> THEN Goto(r, "main") /\ UNCHANGED event
     ELSE Goto(r, "resolve") /\ event' = [event EXCEPT ![r] = Head(seen[r])]
  /\ UNCHANGED <<backend, reactorVars, taskVars, coroVars, todo, cur, seen,
                 wpc, giving>>

\* Mutant: a token that was bound is taken for a handle.
ResolveHandle(k) == k

\* meth_coro_resolve_task_from_token_locked: what is not bound is a handle.
Resolve(k) ==
  IF k \in Coros /\ binding[k] # Null THEN binding[k] ELSE k

ResolveToken(r) ==
  /\ pc[r] = "resolve"
  /\ event' = [event EXCEPT ![r] = Resolve(@)]
  /\ Goto(r, "give")
  /\ UNCHANGED <<backend, reactorVars, taskVars, coroVars, todo, cur, seen,
                 wpc, giving>>

GiveEvent(r) ==
  /\ pc[r] = "give"
  /\ Schedule(event[r])
  /\ event' = [event EXCEPT ![r] = Null]
  /\ Goto(r, "again")
  /\ UNCHANGED <<backend, reactorVars, tasks, done, owner, binding, at, state,
                 left, ops, todo, cur, seen, wpc, giving>>

\* The second pop of meth_coro_task_run_one
PopAgain(r) ==
  /\ pc[r] = "again"
  /\ \/ Pop(r) /\ Goto(r, "read")
     \/ head = Null /\ Goto(r, "main") /\ UNCHANGED <<listVars, queued, cur>>
  /\ UNCHANGED <<backend, reactorVars, tasks, done, owner, binding, coroVars,
                 todo, event, seen, wpc, giving>>

-----------------------------------------------------------------------------
(* Operations that complete, in the threads of the wakers *)

Finish(o) == o \in ops /\ ops' = ops \ {o}

\* A direct call of meth_coro_task_schedule
WakeDirect(w, o) ==
  /\ wpc[w] = "idle" /\ o.via = "schedule" /\ Finish(o)
  /\ Schedule(o.token)
  /\ UNCHANGED <<backend, reactorVars, tasks, done, owner, binding, at, state,
                 left, runnerVars, wpc, giving>>

\* meth_coro_iocp_runtime_post_wake: under its lock the posix port queues the
\* wake, the Windows port reads the handle of the completion port.
PostWake(w, o) ==
  /\ wpc[w] = "idle" /\ o.via \in {"bound", "handle"} /\ Finish(o)
  /\ IF up
     THEN /\ wpc' = [wpc EXCEPT ![w] = "post"]
          /\ giving' = [giving EXCEPT ![w] = [token |-> o.token, epoch |-> epoch]]
          /\ events' = IF backend = "posix" THEN Append(events, o.token) ELSE events
     ELSE UNCHANGED <<wpc, giving, events>>
  /\ UNCHANGED <<backend, up, epoch, pipe, regs, fdReady, taskVars, at, state,
                 left, due, runnerVars>>

\* After the unlock it writes its byte, or posts to the port, which may have
\* been closed; what a new one has the number of gets there.
PostSignal(w) ==
  /\ wpc[w] = "post"
  /\ \/ /\ up
        /\ pipe' = IF backend = "posix" THEN pipe + 1 ELSE pipe
        /\ events' = IF backend = "iocp" THEN Append(events, giving[w].token)
                     ELSE events
     \/ /\ ~up \/ giving[w].epoch # epoch
        /\ UNCHANGED <<pipe, events>>
  /\ wpc' = [wpc EXCEPT ![w] = "idle"]
  /\ giving' = [giving EXCEPT ![w] = [token |-> Null, epoch |-> 0]]
  /\ UNCHANGED <<backend, up, epoch, regs, fdReady, taskVars, coroVars,
                 runnerVars>>

\* An operation on a descriptor completes.
IoCompletes(w, o) ==
  /\ wpc[w] = "idle" /\ o.via = "io" /\ Finish(o)
  /\ fdReady' = IF backend = "posix" THEN fdReady \cup {o.token} ELSE fdReady
  /\ events' = IF backend = "iocp" /\ Registered(o.token)
               THEN Append(events, o.token) ELSE events
  /\ UNCHANGED <<backend, up, epoch, pipe, regs, taskVars, at, state, left,
                 due, runnerVars, wpc, giving>>

\* A coroutine that has ended closes its descriptor, which stays registered
\* and is from then on reported by every poll(2).
CloseFd(w, c) ==
  /\ wpc[w] = "idle" /\ backend = "posix"
  /\ state[c] = 2 /\ Registered(c) /\ c \notin fdReady
  /\ fdReady' = fdReady \cup {c}
  /\ UNCHANGED <<backend, up, epoch, events, pipe, regs, taskVars, coroVars,
                 runnerVars, wpc, giving>>

-----------------------------------------------------------------------------
RunnerNext(r) ==
  \/ \E c \in Coros : Create(r, c) \/ WaitDone(r, c) \/ RunReady(r, c) \/ RunPoll(r, c)
  \/ ReactorDown(r) \/ ReactorUp(r)
  \/ StepBegin(r) \/ StepEnd(r) \/ MarkDone(r)
  \/ PollDown(r) \/ PollTake(r) \/ PollSleep(r) \/ SleepTimeout(r) \/ SleepTake(r)
  \/ PollReturns(r) \/ AwakeTake(r) \/ Drain(r) \/ Scan(r)
  \/ ResolveToken(r) \/ GiveEvent(r) \/ PopAgain(r)

Completes(w) ==
  \/ \E o \in ops : WakeDirect(w, o) \/ PostWake(w, o) \/ IoCompletes(w, o)
  \/ PostSignal(w)

Next ==
  \/ \E r \in Runners : RunnerNext(r)
  \/ \E w \in Wakers : Completes(w) \/ \E c \in Coros : CloseFd(w, c)

Spec == Init /\ [][Next]_vars

\* The threads run, and an operation that was started completes.
FairSpec ==
  /\ Spec
  /\ \A r \in Runners : WF_vars(RunnerNext(r))
  /\ \A w \in Wakers : WF_vars(Completes(w))

-----------------------------------------------------------------------------
(* Properties *)

\* Type invariant of the scheduler, the reactor and the threads around them.
TypeOK ==
  /\ backend \in Backends /\ up \in BOOLEAN /\ epoch \in Nat
  /\ events \in Seq(Tokens) /\ pipe \in Nat
  /\ regs \in Seq(Coros) /\ fdReady \subseteq Coros
  /\ tasks \subseteq Addrs
  /\ {head, tail} \subseteq Addrs \cup {Null}
  /\ next \in [Addrs -> Addrs \cup {Null}]
  /\ done \in [Addrs -> BOOLEAN] /\ queued \in [Addrs -> BOOLEAN]
  /\ owner \in [Addrs -> Coros \cup {Null}]
  /\ binding \in [Coros -> Addrs \cup {Null}]
  /\ at \in [Coros -> Addrs \cup {Null}]
  /\ state \in [Coros -> {0, 2}] /\ left \in [Coros -> 0..Steps]
  /\ ops \subseteq [via : Vias, token : Tokens] /\ due \subseteq Coros
  /\ pc \in [Runners -> {"main", "read", "step", "complete", "poll", "asleep",
                         "awake", "drain", "scan", "resolve", "give", "again"}]
  /\ todo \in [Runners -> Seq(PlanOps)]
  /\ cur \in [Runners -> Addrs \cup {Null}]
  /\ event \in [Runners -> Tokens \cup {Null}]
  /\ seen \in [Runners -> Seq(Coros)]
  /\ wpc \in [Wakers -> {"idle", "post"}]
  /\ giving \in [Wakers -> [token : Tokens \cup {Null}, epoch : Nat]]

\* The tasks marked as queued
Queued == {a \in tasks : queued[a]}

\* From ready_head one comes through next to the tasks of s in their order, and
\* ready_tail is the last of them.
Links(s) ==
  /\ head = IF s = <<>> THEN Null ELSE s[1]
  /\ tail = IF s = <<>> THEN Null ELSE s[Len(s)]
  /\ \A i \in 1..Len(s) : next[s[i]] = IF i = Len(s) THEN Null ELSE s[i + 1]

\* From ready_head one reaches exactly the tasks marked as queued, each once,
\* and ready_tail is the last of them, through every schedule, pop and the
\* destroy of a task in the middle of the list.
ReadyListExact ==
  \E s \in [1..Cardinality(Queued) -> Queued] :
    Links(s) /\ \A i, j \in DOMAIN s : s[i] = s[j] => i = j

\* The ready list leads to a, not only its own mark says so.
Linked(a) == a \in Queued /\ (a = head \/ \E b \in Queued : next[b] = a)

\* No wake is lost.  A coroutine that was woken since its last step began is in
\* the ready list, or some runner has taken it out and is about to step it, also
\* when the wake came during a step.  And on posix, for every wake in the queue
\* there is a byte in the self pipe or a waker that is about to write it, so
\* that no runner sleeps in poll(2) over it.
NoWakeLost ==
  /\ \A c \in due :
       \/ \E a \in tasks : Linked(a) /\ owner[a] = c
       \/ \E r \in Runners : pc[r] = "read" /\ owner[cur[r]] = c
  /\ backend = "posix" =>
       Len(events) <= pipe + Cardinality({w \in Wakers :
                          wpc[w] = "post" /\ giving[w].epoch = epoch})

\* The task that a runner is about to step has not been freed.
StepsLiveTask ==
  \A r \in Runners : pc[r] \in {"read", "step"} => cur[r] \in tasks

\* A descriptor of a coroutine that is gone still answers every poll(2).
Starved == \E c \in Coros : state[c] = 2 /\ c \in fdReady

\* Every coroutine that was created completes, whichever way its operations
\* wake it, unless a dead descriptor hides those registered before it or the
\* reactor is gone.
CoroutineCompletes ==
  \A c \in Coros : (at[c] # Null) ~> (state[c] = 2 \/ Starved \/ ~up)

=============================================================================
