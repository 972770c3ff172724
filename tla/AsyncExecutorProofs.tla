------------------------ MODULE AsyncExecutorProofs ------------------------
(***************************************************************************)
(* Theorems about AsyncExecutor, for every number of tasks, workers and    *)
(* clients and every program: its types, that it implements                *)
(* AsyncTaskLifecycle, that no wake-up is lost, and, for programs in which *)
(* one context makes the calls to shutdown, that its counters are exact,   *)
(* that a stopped pool is quiet and that a drain waits for every task.     *)
(*                                                                         *)
(* TypeOK alone is not inductive: that a finished task finds somebody to   *)
(* return to needs the shape of the stacks, which needs the queue to hold  *)
(* only tasks that do not execute, which needs every header to be started  *)
(* once.  Shape says this of any control state, so that it can be proved   *)
(* of the state before a broadcast and carried over the broadcast by one   *)
(* lemma (WakeShape).                                                      *)
(*                                                                         *)
(* HeaderInv ties the state of a header to the place where its task is; it *)
(* stands on ControlInv and needs nothing of the pool.  StopInv and        *)
(* CountInv tie the life of the pool to its counters and need the single   *)
(* stopper.                                                                *)
(*                                                                         *)
(* The last part is about TaskRing, the slots of the ready queue.          *)
(***************************************************************************)
EXTENDS AsyncExecutor, TaskRing, FiniteSetTheorems, SequenceTheorems, TLAPS

-----------------------------------------------------------------------------
(* The inductive invariant of the control state *)

AllPCs == WorkerPCs \cup TaskPCs
ClientPCs == BodyPCs \ {"enqAssist", "waitAssist"}
NestedPCs == {"waitAssist", "enqAssist"}

PcOK(p) ==
  /\ p \in [Ctx -> AllPCs]
  /\ \A w \in Workers : p[w] \in WorkerPCs
  /\ \A c \in Clients : p[c] \in ClientPCs
  /\ \A t \in Tasks : p[t] \in TaskPCs

\* A context between the entry and the return of meth_async_start holds a
\* header that nobody else has; a waiting one holds a header already started.
ArgOK(p, a, k) ==
  /\ \A c \in Ctx : p[c] \in StartPCs => a[c] \in Tasks \ k
  /\ \A c, d \in Ctx : p[c] \in StartPCs /\ p[d] \in StartPCs /\ a[c] = a[d]
                       => c = d
  /\ \A c \in Ctx : p[c] \in WaitPCs => a[c] \in k

\* A start that is still to be made is one context's alone, of a new header.
TodoOK(p, a, k, td) ==
  \A c \in Ctx : \A o \in td[c] : o.op = "start" =>
    /\ o.task \notin k
    /\ \A d \in Ctx : p[d] \in StartPCs => a[d] # o.task
    /\ \A d \in Ctx : o \in td[d] => c = d

\* The queue holds each task once, and none that executes.
QueueOK(p, k, q) ==
  /\ \A i \in 1..Len(q) : q[i] \in k /\ p[q[i]] = "off"
  /\ \A i, j \in 1..Len(q) : q[i] = q[j] => i = j

\* The tasks on the stacks are the executing ones, each in one place; all but
\* the innermost are inside a wait or an enqueue that assists.
StackOK(p, k, st) ==
  /\ \A w \in Workers : st[w] = <<>> <=> p[w] # "busy"
  /\ \A w \in Workers : \A i \in 1..Len(st[w]) :
       st[w][i] \in k /\ p[st[w][i]] # "off"
  /\ \A w \in Workers : \A i \in 1..Len(st[w]) :
       i < Len(st[w]) => p[st[w][i]] \in NestedPCs
  /\ \A w, v \in Workers : \A i \in 1..Len(st[w]) : \A j \in 1..Len(st[v]) :
       st[w][i] = st[v][j] => w = v /\ i = j
  /\ \A t \in Tasks : p[t] # "off" =>
       \E w \in Workers : \E i \in 1..Len(st[w]) : st[w][i] = t

Shape(p, a, k, q, st, td) ==
  PcOK(p) /\ ArgOK(p, a, k) /\ TodoOK(p, a, k, td) /\ QueueOK(p, k, q)
    /\ StackOK(p, k, st)

TasksOK ==
  /\ hstate \in [Tasks -> QUEUED..CANCELLED]
  /\ cancelReq \in [Tasks -> BOOLEAN]
  /\ known \subseteq Tasks

FlagsOK == initialized \in BOOLEAN /\ initFailed \in BOOLEAN

NumbersOK ==
  /\ queue \in Seq(Tasks)
  /\ capacity \in Nat
  /\ xstate \in RUNNING..STOPPED
  /\ live \in Nat /\ outstanding \in Nat
  /\ confWorkers \in Nat /\ confCapacity \in Nat

\* Everything that ensure_initialized may touch
PoolOK == FlagsOK /\ NumbersOK

ContextsOK ==
  /\ arg \in [Ctx -> Tasks \cup {None}]
  /\ stack \in [Workers -> Seq(Tasks)]
  /\ todo \in [Ctx -> SUBSET Ops]
  /\ timer \in [Ctx -> {"forever", "timed", "expired"}]

ControlInv ==
  TasksOK /\ PoolOK /\ ContextsOK /\ Shape(pc, arg, known, queue, stack, todo)

LEMMA ControlInvTypeOK == ControlInv => TypeOK
BY DEF ControlInv, TasksOK, PoolOK, FlagsOK, NumbersOK, ContextsOK, Shape, PcOK, TypeOK, AllPCs, ClientPCs

-----------------------------------------------------------------------------
(* Lemmas about the operators of the model *)

LEMMA ResumeFacts ==
  ASSUME NEW p \in AllPCs
  PROVE  /\ Resume(p) \in AllPCs
         /\ p \in WorkerPCs <=> Resume(p) \in WorkerPCs
         /\ p \in TaskPCs <=> Resume(p) \in TaskPCs
         /\ p \in ClientPCs <=> Resume(p) \in ClientPCs
         /\ p \in StartPCs <=> Resume(p) \in StartPCs
         /\ p \in WaitPCs <=> Resume(p) \in WaitPCs
         /\ p \in NestedPCs <=> Resume(p) \in NestedPCs
         /\ p = "off" <=> Resume(p) = "off"
         /\ p = "busy" <=> Resume(p) = "busy"
BY DEF Resume, AllPCs, ClientPCs, WorkerPCs, TaskPCs, BodyPCs, StartPCs,
       WaitPCs, StopPCs, NestedPCs

LEMMA OpsFacts ==
  ASSUME NEW o \in Ops
  PROVE  /\ o.op \in {"start", "wait", "cancel"} => o.task \in Tasks
         /\ o.op = "shutdown" => o.timer \in {"forever", "timed"}
         /\ o.op = "configure" => o.workers \in Nat /\ o.capacity \in Nat
BY DEF Ops

LEMMA OneStartOp ==
  ASSUME NEW o1 \in Ops, NEW o2 \in Ops,
         o1.op = "start", o2.op = "start", o1.task = o2.task
  PROVE  o1 = o2
BY DEF Ops

LEMMA FrontFacts ==
  ASSUME NEW S, NEW s \in Seq(S), s # <<>>
  PROVE  /\ Front(s) \in Seq(S)
         /\ Len(Front(s)) = Len(s) - 1
         /\ \A i \in 1..(Len(s) - 1) : Front(s)[i] = s[i]
<1>1. Len(s) - 1 \in Nat
  OBVIOUS
<1>2. Front(s) \in [1..(Len(s) - 1) -> S]
  BY <1>1 DEF Front
<1> QED BY <1>1, <1>2 DEF Front

-----------------------------------------------------------------------------
(* How the steps change the shape of the control state *)

\* The queue and the stacks see of a control point only whether it is "off",
\* "busy" or inside a nested execution.
LEMMA SameStack ==
  ASSUME NEW p, NEW r, NEW k \in SUBSET Tasks, NEW q \in Seq(Tasks),
         NEW st \in [Workers -> Seq(Tasks)],
         QueueOK(p, k, q), StackOK(p, k, st),
         \A c \in Ctx : /\ p[c] \in NestedPCs => r[c] \in NestedPCs
                        /\ p[c] = "off" <=> r[c] = "off"
                        /\ p[c] = "busy" <=> r[c] = "busy"
  PROVE  QueueOK(r, k, q) /\ StackOK(r, k, st)
<1>1. Workers \subseteq Ctx /\ Tasks \subseteq Ctx
  BY DEF Ctx
<1>2. QueueOK(r, k, q)
  BY <1>1 DEF QueueOK
<1>3. \A w \in Workers : \A i \in 1..Len(st[w]) : st[w][i] \in Ctx
  BY <1>1
<1>4. \A w \in Workers : st[w] = <<>> <=> r[w] # "busy"
  BY <1>1 DEF StackOK
<1>5. \A w \in Workers : \A i \in 1..Len(st[w]) :
        st[w][i] \in k /\ r[st[w][i]] # "off"
  <2>1. \A w \in Workers : \A i \in 1..Len(st[w]) :
          st[w][i] \in k /\ p[st[w][i]] # "off"
    BY DEF StackOK
  <2>2. \A c \in Ctx : p[c] = "off" <=> r[c] = "off"
    OBVIOUS
  <2> QED BY ONLY <1>3, <2>1, <2>2
<1>6. \A w \in Workers : \A i \in 1..Len(st[w]) :
        i < Len(st[w]) => r[st[w][i]] \in NestedPCs
  BY <1>3 DEF StackOK
<1>7. \A t \in Tasks : r[t] # "off" =>
        \E w \in Workers : \E i \in 1..Len(st[w]) : st[w][i] = t
  BY <1>1 DEF StackOK
<1> QED BY <1>2, <1>4, <1>5, <1>6, <1>7 DEF StackOK

\* A step is invisible to the shape when it moves nobody on or off a stack or
\* into a start or a wait.
LEMMA SameShape ==
  ASSUME NEW p, NEW r, NEW a, NEW k \in SUBSET Tasks, NEW q \in Seq(Tasks),
         NEW st \in [Workers -> Seq(Tasks)], NEW td,
         Shape(p, a, k, q, st, td),
         PcOK(r),
         \A c \in Ctx : /\ r[c] \in StartPCs => p[c] \in StartPCs
                        /\ r[c] \in WaitPCs => p[c] \in WaitPCs
                        /\ p[c] \in NestedPCs => r[c] \in NestedPCs
                        /\ p[c] = "off" <=> r[c] = "off"
                        /\ p[c] = "busy" <=> r[c] = "busy"
  PROVE  Shape(r, a, k, q, st, td)
<1>1. Workers \subseteq Ctx /\ Clients \subseteq Ctx /\ Tasks \subseteq Ctx
  BY DEF Ctx
<1>2. ArgOK(r, a, k)
  BY DEF Shape, ArgOK
<1>3. TodoOK(r, a, k, td)
  BY DEF Shape, TodoOK
<1>4. QueueOK(r, k, q) /\ StackOK(r, k, st)
  BY SameStack DEF Shape
<1> QED BY <1>2, <1>3, <1>4 DEF Shape

\* A broadcast disturbs nothing.
LEMMA WakeShape ==
  ASSUME NEW p, NEW a, NEW k \in SUBSET Tasks, NEW q \in Seq(Tasks),
         NEW st \in [Workers -> Seq(Tasks)], NEW td,
         Shape(p, a, k, q, st, td)
  PROVE  Shape(Wake(p), a, k, q, st, td)
<1> DEFINE r == Wake(p)
<1>1. PcOK(p)
  BY DEF Shape
<1>2. \A c \in Ctx :
        /\ r[c] \in AllPCs
        /\ p[c] \in WorkerPCs <=> r[c] \in WorkerPCs
        /\ p[c] \in TaskPCs <=> r[c] \in TaskPCs
        /\ p[c] \in ClientPCs <=> r[c] \in ClientPCs
        /\ p[c] \in StartPCs <=> r[c] \in StartPCs
        /\ p[c] \in WaitPCs <=> r[c] \in WaitPCs
        /\ p[c] \in NestedPCs <=> r[c] \in NestedPCs
        /\ p[c] = "off" <=> r[c] = "off"
        /\ p[c] = "busy" <=> r[c] = "busy"
  BY <1>1, ResumeFacts DEF PcOK, Wake
<1>3. r \in [Ctx -> AllPCs]
  BY <1>2 DEF Wake
<1> HIDE DEF r
<1>4. Workers \subseteq Ctx /\ Clients \subseteq Ctx /\ Tasks \subseteq Ctx
  BY DEF Ctx
<1>5. PcOK(r)
  BY <1>1, <1>2, <1>3, <1>4 DEF PcOK
<1>6. Shape(r, a, k, q, st, td)
  BY <1>2, <1>5, SameShape
<1> QED BY <1>6 DEF r

\* One context changes its control point: the types.
LEMMA MovePc ==
  ASSUME NEW p, PcOK(p), NEW c \in Ctx, NEW x \in AllPCs,
         c \in Workers => x \in WorkerPCs,
         c \in Clients => x \in ClientPCs,
         c \in Tasks => x \in TaskPCs
  PROVE  /\ PcOK([p EXCEPT ![c] = x])
         /\ \A d \in Ctx : [p EXCEPT ![c] = x][d] = IF d = c THEN x ELSE p[d]
BY DEF PcOK, Ctx

\* One context goes on inside the same call, or back to its body.
LEMMA MoveShape ==
  ASSUME NEW p, NEW a, NEW k \in SUBSET Tasks, NEW q \in Seq(Tasks),
         NEW st \in [Workers -> Seq(Tasks)], NEW td,
         Shape(p, a, k, q, st, td),
         NEW c \in Ctx, NEW x \in AllPCs,
         c \in Workers => x \in WorkerPCs,
         c \in Clients => x \in ClientPCs,
         c \in Tasks => x \in TaskPCs,
         x \in StartPCs => p[c] \in StartPCs,
         x \in WaitPCs => p[c] \in WaitPCs,
         x = "off" <=> p[c] = "off",
         x = "busy" <=> p[c] = "busy",
         p[c] \notin NestedPCs
  PROVE  Shape([p EXCEPT ![c] = x], a, k, q, st, td)
<1> DEFINE r == [p EXCEPT ![c] = x]
<1>1. PcOK(p)
  BY DEF Shape
<1>2. PcOK(r) /\ \A d \in Ctx : r[d] = IF d = c THEN x ELSE p[d]
  BY <1>1, MovePc
<1> HIDE DEF r
<1>3. Shape(r, a, k, q, st, td)
  BY <1>2, SameShape
<1> QED BY <1>3 DEF r

\* A call is made: its operation is consumed.
LEMMA ConsumeShape ==
  ASSUME NEW p, NEW a, NEW k \in SUBSET Tasks, NEW q \in Seq(Tasks),
         NEW st \in [Workers -> Seq(Tasks)], NEW td \in [Ctx -> SUBSET Ops],
         Shape(p, a, k, q, st, td),
         NEW c \in Ctx, NEW o
  PROVE  Shape(p, a, k, q, st, [td EXCEPT ![c] = @ \ {o}])
<1>1. \A d \in Ctx : [td EXCEPT ![c] = @ \ {o}][d] \subseteq td[d]
  OBVIOUS
<1> QED BY <1>1 DEF Shape, TodoOK

\* meth_async_start is called: the caller holds a header nobody else has.
LEMMA StartShape ==
  ASSUME NEW p, NEW a \in [Ctx -> Tasks \cup {None}], NEW k \in SUBSET Tasks,
         NEW q \in Seq(Tasks),
         NEW st \in [Workers -> Seq(Tasks)], NEW td \in [Ctx -> SUBSET Ops],
         Shape(p, a, k, q, st, td),
         NEW c \in Ctx, p[c] = "run",
         NEW o \in td[c], o.op = "start"
  PROVE  Shape([p EXCEPT ![c] = "init"], [a EXCEPT ![c] = o.task], k, q, st,
               [td EXCEPT ![c] = @ \ {o}])
<1> DEFINE r == [p EXCEPT ![c] = "init"]
           b == [a EXCEPT ![c] = o.task]
           u == [td EXCEPT ![c] = @ \ {o}]
<1>1. PcOK(p) /\ ArgOK(p, a, k) /\ TodoOK(p, a, k, td)
  BY DEF Shape
<1>2. p[c] # "busy" /\ p[c] \notin WorkerPCs /\ "init" \in BodyPCs
        /\ "init" \in ClientPCs /\ "init" \in TaskPCs /\ "init" \in AllPCs
        /\ "init" \in StartPCs /\ "init" \notin WaitPCs
  BY DEF WorkerPCs, BodyPCs, ClientPCs, TaskPCs, AllPCs, StartPCs, WaitPCs
<1>3. c \notin Workers
  BY <1>1, <1>2 DEF PcOK
<1>4. PcOK(r) /\ \A d \in Ctx : r[d] = IF d = c THEN "init" ELSE p[d]
  BY <1>1, <1>2, <1>3, MovePc
<1>5. \A d \in Ctx : b[d] = IF d = c THEN o.task ELSE a[d]
  OBVIOUS
<1>6. \A d \in Ctx : u[d] = IF d = c THEN td[d] \ {o} ELSE td[d]
  OBVIOUS
<1>7. o \in Ops /\ o.task \in Tasks
  BY OpsFacts
<1> HIDE DEF r, b, u
<1>8. o.task \notin k /\ \A d \in Ctx : p[d] \in StartPCs => a[d] # o.task
  BY <1>1 DEF TodoOK
<1>9. ArgOK(r, b, k)
  BY <1>1, <1>2, <1>4, <1>5, <1>7, <1>8 DEF ArgOK
<1>10. TodoOK(r, b, k, u)
  <2>1. SUFFICES ASSUME NEW d \in Ctx, NEW n \in u[d], n.op = "start"
                 PROVE  /\ n.task \notin k
                        /\ \A e \in Ctx : r[e] \in StartPCs => b[e] # n.task
                        /\ \A e \in Ctx : n \in u[e] => d = e
    BY DEF TodoOK
  <2>2. n \in td[d] /\ n \in Ops /\ (d = c => n # o)
    BY <1>6
  <2>3. /\ n.task \notin k
        /\ \A e \in Ctx : p[e] \in StartPCs => a[e] # n.task
        /\ \A e \in Ctx : n \in td[e] => d = e
    BY <1>1, <2>1, <2>2 DEF TodoOK
  <2>4. n # o
    BY <2>2, <2>3
  <2>5. n.task # o.task
    BY <1>7, <2>1, <2>2, <2>4, OneStartOp
  <2> QED BY <1>4, <1>5, <1>6, <2>3, <2>5
<1>11. QueueOK(r, k, q) /\ StackOK(r, k, st)
  BY <1>2, <1>4, SameStack DEF Shape, NestedPCs
<1> QED BY <1>4, <1>9, <1>10, <1>11 DEF Shape, r, b, u

\* The header being started is new.
LEMMA StartArg ==
  ASSUME NEW p, NEW a, NEW k, NEW q, NEW st, NEW td,
         Shape(p, a, k, q, st, td),
         NEW c \in Ctx, p[c] \in StartPCs
  PROVE  a[c] \in Tasks \ k
BY DEF Shape, ArgOK

\* meth_async_start returns: the header is known from now on.
LEMMA StartReturnShape ==
  ASSUME NEW p, NEW a \in [Ctx -> Tasks \cup {None}], NEW k \in SUBSET Tasks,
         NEW q \in Seq(Tasks),
         NEW st \in [Workers -> Seq(Tasks)], NEW td \in [Ctx -> SUBSET Ops],
         Shape(p, a, k, q, st, td),
         NEW c \in Ctx, p[c] \in StartPCs \ NestedPCs
  PROVE  Shape([p EXCEPT ![c] = "run"], [a EXCEPT ![c] = None],
               k \cup {a[c]}, q, st, td)
<1> DEFINE r == [p EXCEPT ![c] = "run"]
           b == [a EXCEPT ![c] = None]
           l == k \cup {a[c]}
<1>1. PcOK(p) /\ ArgOK(p, a, k) /\ TodoOK(p, a, k, td) /\ QueueOK(p, k, q)
        /\ StackOK(p, k, st)
  BY DEF Shape
<1>2. /\ p[c] \notin {"off", "busy"} \cup WorkerPCs
      /\ "run" \in ClientPCs \cap TaskPCs \cap AllPCs
      /\ "run" \notin StartPCs \cup WaitPCs \cup NestedPCs
  BY DEF WorkerPCs, BodyPCs, ClientPCs, TaskPCs, AllPCs, StartPCs, WaitPCs,
         NestedPCs
<1>3. c \notin Workers
  BY <1>1, <1>2 DEF PcOK
<1>4. PcOK(r) /\ \A d \in Ctx : r[d] = IF d = c THEN "run" ELSE p[d]
  BY <1>1, <1>2, <1>3, MovePc
<1>5. \A d \in Ctx : b[d] = IF d = c THEN None ELSE a[d]
  OBVIOUS
<1>6. a[c] \in Tasks \ k
  BY <1>1 DEF ArgOK
<1> HIDE DEF r, b
<1>8. ArgOK(r, b, l)
  BY <1>1, <1>2, <1>4, <1>5, <1>6 DEF ArgOK
<1>9. TodoOK(r, b, l, td)
  BY <1>1, <1>2, <1>4, <1>5 DEF TodoOK
<1>10. QueueOK(r, k, q) /\ StackOK(r, k, st)
  BY <1>1, <1>2, <1>4, SameStack
<1>11. QueueOK(r, l, q) /\ StackOK(r, l, st)
  BY <1>10 DEF QueueOK, StackOK
<1> QED BY <1>4, <1>8, <1>9, <1>11 DEF Shape, r, b

\* meth_async_wait takes up or lays down its target.
LEMMA WaitShape ==
  ASSUME NEW p, NEW a \in [Ctx -> Tasks \cup {None}], NEW k \in SUBSET Tasks,
         NEW q \in Seq(Tasks),
         NEW st \in [Workers -> Seq(Tasks)], NEW td \in [Ctx -> SUBSET Ops],
         Shape(p, a, k, q, st, td),
         NEW c \in Ctx, NEW x, NEW t,
         \/ p[c] = "run" /\ x = "wait" /\ t \in k
         \/ p[c] = "wait" /\ x = "run" /\ t = None
  PROVE  Shape([p EXCEPT ![c] = x], [a EXCEPT ![c] = t], k, q, st, td)
<1> DEFINE r == [p EXCEPT ![c] = x]
           b == [a EXCEPT ![c] = t]
<1>1. PcOK(p) /\ ArgOK(p, a, k) /\ TodoOK(p, a, k, td) /\ QueueOK(p, k, q)
        /\ StackOK(p, k, st)
  BY DEF Shape
<1>2. /\ {p[c], x} = {"run", "wait"}
      /\ p[c] \notin WorkerPCs
      /\ {"run", "wait"} \subseteq ClientPCs \cap TaskPCs \cap AllPCs
      /\ {"run", "wait"} \cap (StartPCs \cup NestedPCs \cup {"off", "busy"}) = {}
      /\ "run" \notin WaitPCs
  BY DEF WorkerPCs, BodyPCs, ClientPCs, TaskPCs, AllPCs, StartPCs, WaitPCs,
         NestedPCs
<1>3. c \notin Workers
  BY <1>1, <1>2 DEF PcOK
<1>4. PcOK(r) /\ \A d \in Ctx : r[d] = IF d = c THEN x ELSE p[d]
  BY <1>1, <1>2, <1>3, MovePc
<1>5. \A d \in Ctx : b[d] = IF d = c THEN t ELSE a[d]
  OBVIOUS
<1> HIDE DEF r, b
<1>6. ArgOK(r, b, k)
  BY <1>1, <1>2, <1>4, <1>5 DEF ArgOK
<1>7. TodoOK(r, b, k, td)
  BY <1>1, <1>2, <1>4, <1>5 DEF TodoOK
<1>8. QueueOK(r, k, q) /\ StackOK(r, k, st)
  BY <1>1, <1>2, <1>4, SameStack
<1> QED BY <1>4, <1>6, <1>7, <1>8 DEF Shape, r, b

-----------------------------------------------------------------------------
(* How the queue and the stacks change *)

LEMMA PushQueue ==
  ASSUME NEW p, NEW k \in SUBSET Tasks, NEW q \in Seq(Tasks), QueueOK(p, k, q),
         NEW t \in k, p[t] = "off", \A i \in 1..Len(q) : q[i] # t
  PROVE  Append(q, t) \in Seq(Tasks) /\ QueueOK(p, k, Append(q, t))
<1>1. t \in Tasks /\ Len(q) \in Nat
  OBVIOUS
<1>2. /\ Append(q, t) \in Seq(Tasks)
      /\ Len(Append(q, t)) = Len(q) + 1
      /\ \A i \in 1..Len(q) : Append(q, t)[i] = q[i]
      /\ Append(q, t)[Len(q) + 1] = t
  BY <1>1
<1>3. \A i \in 1..Len(Append(q, t)) : i \in 1..Len(q) \/ i = Len(q) + 1
  BY <1>1, <1>2
<1> DEFINE s == Append(q, t)
<1> HIDE DEF s
<1>4. QueueOK(p, k, s)
  BY <1>2, <1>3 DEF QueueOK, s
<1> QED BY <1>2, <1>4 DEF s

LEMMA RemoveQueue ==
  ASSUME NEW p, NEW k \in SUBSET Tasks, NEW q \in Seq(Tasks), QueueOK(p, k, q),
         NEW t, NEW n \in 1..Len(q), q[n] = t
  PROVE  /\ QueueWithout(q, t) \in Seq(Tasks) /\ QueueOK(p, k, QueueWithout(q, t))
         /\ Len(QueueWithout(q, t)) = Len(q) - 1
<1> DEFINE f == CHOOSE i \in 1..Len(q) : q[i] = t
           s == QueueWithout(q, t)
           at(i) == IF i < f THEN i ELSE i + 1
<1>1. f \in 1..Len(q) /\ Len(q) - 1 \in Nat
  OBVIOUS
<1>2. s = [i \in 1..(Len(q) - 1) |-> IF i < f THEN q[i] ELSE q[i + 1]]
  BY DEF QueueWithout
<1> HIDE DEF f, s
<1>3. \A i \in 1..(Len(q) - 1) : at(i) \in 1..Len(q) /\ s[i] = q[at(i)]
  BY <1>1, <1>2
<1>4. s \in [1..(Len(q) - 1) -> Tasks]
  BY <1>1, <1>2
<1>5. s \in Seq(Tasks) /\ Len(s) = Len(q) - 1
  BY <1>1, <1>4
<1>6. \A i, j \in 1..(Len(q) - 1) : at(i) = at(j) => i = j
  BY <1>1
<1> HIDE DEF at
<1>7. \A i \in 1..Len(s) : s[i] \in k /\ p[s[i]] = "off"
  BY <1>3, <1>5 DEF QueueOK
<1>8. \A i, j \in 1..Len(s) : s[i] = s[j] => i = j
  <2>1. \A i, j \in 1..Len(q) : q[i] = q[j] => i = j
    BY DEF QueueOK
  <2> QED BY ONLY <1>3, <1>5, <1>6, <2>1
<1>9. QueueOK(p, k, s)
  BY ONLY <1>7, <1>8 DEF QueueOK
<1> QED BY <1>5, <1>9 DEF s

LEMMA TailQueue ==
  ASSUME NEW p, NEW k \in SUBSET Tasks, NEW q \in Seq(Tasks), QueueOK(p, k, q),
         q # <<>>
  PROVE  /\ Tail(q) \in Seq(Tasks) /\ QueueOK(p, k, Tail(q))
         /\ Head(q) \in k /\ Head(q) \in Tasks /\ p[Head(q)] = "off"
         /\ \A i \in 1..Len(Tail(q)) : Tail(q)[i] # Head(q)
         /\ \A i \in 1..Len(q) : q[i] # Head(q) =>
              \E j \in 1..Len(Tail(q)) : Tail(q)[j] = q[i]
         /\ \A i \in 1..Len(Tail(q)) : \E j \in 1..Len(q) : Tail(q)[i] = q[j]
<1>1. /\ Len(q) \in Nat /\ Len(q) > 0
      /\ Tail(q) \in Seq(Tasks) /\ Len(Tail(q)) = Len(q) - 1
      /\ \A i \in 1..(Len(q) - 1) : Tail(q)[i] = q[i + 1]
      /\ Head(q) = q[1]
  OBVIOUS
<1> DEFINE s == Tail(q)
           h == Head(q)
<1> HIDE DEF s, h
<1>2. \A i \in 1..Len(s) : i + 1 \in 1..Len(q) /\ i + 1 # 1
  BY <1>1 DEF s
<1>3. QueueOK(p, k, s) /\ \A i \in 1..Len(s) : s[i] # h
  BY <1>1, <1>2 DEF QueueOK, s, h
<1>4. h \in k /\ p[h] = "off"
  BY <1>1 DEF QueueOK, h
<1>5. \A i \in 1..Len(q) : q[i] # h => \E j \in 1..Len(s) : s[j] = q[i]
  <2>1. SUFFICES ASSUME NEW i \in 1..Len(q), q[i] # h
                 PROVE  \E j \in 1..Len(s) : s[j] = q[i]
    OBVIOUS
  <2>2. i - 1 \in 1..Len(s) /\ s[i - 1] = q[i]
    BY <1>1, <2>1 DEF s, h
  <2> QED BY <2>2
<1>6. \A i \in 1..Len(s) : \E j \in 1..Len(q) : s[i] = q[j]
  BY <1>1, <1>2 DEF s
<1> QED BY <1>1, <1>3, <1>4, <1>5, <1>6 DEF s, h

\* A task is taken out of the queue and executed on top of context c.
LEMMA PopShape ==
  ASSUME NEW p, NEW a, NEW k \in SUBSET Tasks, NEW q \in Seq(Tasks),
         NEW st \in [Workers -> Seq(Tasks)], NEW td,
         Shape(p, a, k, q, st, td),
         q # <<>>,
         NEW w \in Workers, NEW c \in Ctx,
         c = (IF st[w] = <<>> THEN w ELSE st[w][Len(st[w])]),
         NEW x,
         \/ c \in Workers /\ x = "busy"
         \/ c \in Tasks /\ x = "waitAssist" /\ p[c] = "wait"
         \/ c \in Tasks /\ x = "enqAssist" /\ p[c] \in StartPCs \ NestedPCs
  PROVE  Shape([p EXCEPT ![c] = x, ![Head(q)] = "begin"], a, k, Tail(q),
               [st EXCEPT ![w] = Append(@, Head(q))], td)
<1> DEFINE h == Head(q)
           s == Tail(q)
           r == [p EXCEPT ![c] = x, ![h] = "begin"]
           su == [st EXCEPT ![w] = Append(@, h)]
           n == Len(st[w])
<1>1. PcOK(p) /\ ArgOK(p, a, k) /\ TodoOK(p, a, k, td) /\ QueueOK(p, k, q)
        /\ StackOK(p, k, st)
  BY DEF Shape
<1>2. /\ s \in Seq(Tasks) /\ QueueOK(p, k, s)
      /\ h \in k /\ h \in Tasks /\ p[h] = "off"
      /\ \A i \in 1..Len(s) : s[i] # h
  BY <1>1, TailQueue
<1>3. /\ n \in Nat
      /\ st[w] # <<>> => n > 0 /\ n \in 1..n
      /\ st[w] = <<>> => n = 0
  OBVIOUS
<1>4. st[w] # <<>> => c = st[w][n] /\ c \in Tasks /\ p[c] # "off"
  BY <1>1, <1>3 DEF StackOK
<1>5. st[w] = <<>> => c = w /\ x = "busy"
  BY ContextAssumption
<1>6. st[w] # <<>> => x \in NestedPCs
  BY <1>4, ContextAssumption DEF NestedPCs
<1>7. /\ {"waitAssist", "enqAssist", "begin"} \subseteq TaskPCs
      /\ "busy" \in WorkerPCs /\ "off" \notin WorkerPCs
      /\ "waitAssist" \notin StartPCs /\ "enqAssist" \notin WaitPCs
      /\ "wait" \in WaitPCs /\ "begin" \notin StartPCs \cup WaitPCs \cup NestedPCs
      /\ "busy" \notin StartPCs \cup WaitPCs \cup NestedPCs
      /\ WorkerPCs \subseteq AllPCs /\ TaskPCs \subseteq AllPCs
      /\ "waitAssist" \in WaitPCs /\ "enqAssist" \in StartPCs
      /\ "wait" \notin NestedPCs
  BY DEF AllPCs, WorkerPCs, TaskPCs, BodyPCs, StartPCs, WaitPCs, NestedPCs
<1>8. c # h
  BY <1>1, <1>2, <1>4, <1>5, <1>7 DEF PcOK
<1>9. r \in [Ctx -> AllPCs]
        /\ \A d \in Ctx : r[d] = IF d = h THEN "begin" ELSE IF d = c THEN x ELSE p[d]
  BY <1>1, <1>2, <1>7, <1>8 DEF PcOK, Ctx
<1>10. PcOK(r)
  <2>1. \A v \in Workers : r[v] \in WorkerPCs
    BY <1>1, <1>2, <1>7, <1>9, ContextAssumption, SMTT(30) DEF PcOK, Ctx
  <2>2. \A d \in Clients : r[d] \in ClientPCs
    BY <1>1, <1>2, <1>7, <1>9, ContextAssumption DEF PcOK, Ctx
  <2>3. \A u \in Tasks : r[u] \in TaskPCs
    BY <1>1, <1>2, <1>7, <1>9, ContextAssumption DEF PcOK, Ctx
  <2> QED BY <1>9, <2>1, <2>2, <2>3 DEF PcOK
<1>11. /\ su \in [Workers -> Seq(Tasks)]
       /\ \A v \in Workers : v # w => su[v] = st[v]
       /\ Len(su[w]) = n + 1 /\ su[w][n + 1] = h /\ su[w] # <<>>
       /\ \A i \in 1..n : su[w][i] = st[w][i]
  <2>1. su[w] = Append(st[w], h) /\ h \in Tasks /\ st[w] \in Seq(Tasks)
    BY <1>2
  <2>2. \A v \in Workers : v # w => su[v] = st[v]
    OBVIOUS
  <2>3. /\ Append(st[w], h) \in Seq(Tasks)
        /\ Len(Append(st[w], h)) = n + 1 /\ Append(st[w], h)[n + 1] = h
        /\ Append(st[w], h) # <<>>
        /\ \A i \in 1..n : Append(st[w], h)[i] = st[w][i]
    BY <2>1
  <2>4. su \in [Workers -> Seq(Tasks)]
    BY <2>1, <2>3
  <2> QED BY <2>1, <2>2, <2>3, <2>4
<1> HIDE DEF h, s, r, su, n
<1>12. /\ p[c] # "off"
       /\ \A d \in Ctx : /\ r[d] \in StartPCs => p[d] \in StartPCs
                         /\ r[d] \in WaitPCs => p[d] \in WaitPCs
                         /\ p[d] \in NestedPCs => r[d] \in NestedPCs
                         /\ r[d] = "off" => p[d] = "off" /\ d # h
                         /\ p[d] = "off" /\ d # h => r[d] = "off"
  <2>1. p[c] # "off"
    BY <1>1, <1>4, <1>5, <1>7 DEF PcOK
  <2>2. p[c] \notin NestedPCs
    BY <1>1, <1>4, <1>5, <1>7 DEF PcOK, NestedPCs, WorkerPCs
  <2>3. x # "off" /\ "begin" # "off" /\ "off" \notin NestedPCs
    BY DEF NestedPCs
  <2>4. (x \in StartPCs => p[c] \in StartPCs) /\ (x \in WaitPCs => p[c] \in WaitPCs)
    BY <1>7
  <2> QED BY <1>2, <1>7, <1>9, <2>1, <2>2, <2>3, <2>4
<1>13. ArgOK(r, a, k)
  BY <1>1, <1>12 DEF ArgOK
<1>14. TodoOK(r, a, k, td)
  BY <1>1, <1>12 DEF TodoOK
<1>15. QueueOK(r, k, s)
  BY <1>2, <1>12 DEF QueueOK, Ctx
<1>16. StackOK(r, k, su)
  <2>0. \A v \in Workers : st[v] = <<>> <=> p[v] # "busy"
    BY <1>1 DEF StackOK
  <2>9. \A v \in Workers : \A i \in 1..Len(st[v]) :
          st[v][i] \in k /\ st[v][i] \in Ctx /\ p[st[v][i]] # "off"
    BY <1>1 DEF StackOK, Ctx
  <2>10. \A v \in Workers : \A i \in 1..Len(st[v]) :
           i < Len(st[v]) => p[st[v][i]] \in NestedPCs
    BY <1>1 DEF StackOK
  <2>11. \A v, u \in Workers : \A i \in 1..Len(st[v]) : \A j \in 1..Len(st[u]) :
           st[v][i] = st[u][j] => v = u /\ i = j
    BY <1>1 DEF StackOK
  <2>12. \A t \in Tasks : p[t] # "off" =>
           \E v \in Workers : \E i \in 1..Len(st[v]) : st[v][i] = t
    BY <1>1 DEF StackOK
  <2>6. \A v \in Workers : \A i \in 1..Len(su[v]) :
          \/ v = w /\ i = n + 1 /\ su[v][i] = h
          \/ i \in 1..Len(st[v]) /\ su[v][i] = st[v][i]
    BY <1>3, <1>11 DEF n
  <2>7. \A v \in Workers : \A i \in 1..Len(st[v]) :
          i \in 1..Len(su[v]) /\ su[v][i] = st[v][i] /\ st[v][i] # h
    <3>1. ASSUME NEW v \in Workers, NEW i \in 1..Len(st[v])
          PROVE  st[v][i] # h
      BY <1>2, <2>9
    <3>2. \A i \in 1..Len(st[w]) : i \in 1..Len(su[w]) /\ su[w][i] = st[w][i]
      BY <1>3, <1>11 DEF n
    <3> QED BY ONLY <1>11, <3>1, <3>2
  <2>8. \A v \in Workers : v \in Ctx /\ v # h
    BY <1>2, ContextAssumption DEF Ctx
  <2>1. \A v \in Workers : su[v] = <<>> <=> r[v] # "busy"
    <3>1. CASE st[w] = <<>>
      BY <3>1, <1>5, <1>9, <1>11, <2>0, <2>8
    <3>2. CASE st[w] # <<>>
      <4>1. \A v \in Workers : v # c
        BY <1>4, <3>2, ContextAssumption
      <4>2. \A v \in Workers : r[v] = p[v]
        BY <1>9, <2>8, <4>1
      <4> QED BY ONLY <1>11, <2>0, <3>2, <4>2
    <3> QED BY <3>1, <3>2
  <2>2. \A v \in Workers : \A i \in 1..Len(su[v]) :
          su[v][i] \in k /\ r[su[v][i]] # "off"
    <3>1. h \in k /\ h \in Ctx /\ r[h] # "off"
      BY <1>2, <1>9 DEF Ctx
    <3>2. \A d \in Ctx : p[d] # "off" => r[d] # "off"
      BY <1>12
    <3> QED BY ONLY <2>6, <2>9, <3>1, <3>2, ZenonT(60)
  <2>3. \A v \in Workers : \A i \in 1..Len(su[v]) :
          i < Len(su[v]) => r[su[v][i]] \in NestedPCs
    <3>1. SUFFICES ASSUME NEW v \in Workers, NEW i \in 1..Len(su[v]),
                          i < Len(su[v])
                   PROVE  r[su[v][i]] \in NestedPCs
      OBVIOUS
    <3>2. ~(v = w /\ i = n + 1)
      BY <3>1, <1>11
    <3>3. i \in 1..Len(st[v]) /\ su[v][i] = st[v][i] /\ st[v][i] \in Ctx
      BY <2>6, <2>9, <3>2
    <3>4. CASE v = w /\ i = n
      <4>1. st[w] # <<>> /\ su[v][i] = c
        BY <1>3, <1>4, <3>3, <3>4 DEF n
      <4> QED BY <1>6, <1>8, <1>9, <4>1
    <3>5. CASE ~(v = w /\ i = n)
      <4>1. i < Len(st[v])
        BY <1>3, <1>11, <3>1, <3>3, <3>5 DEF n
      <4> QED BY <1>12, <2>10, <3>3, <4>1
    <3> QED BY <3>4, <3>5
  <2>4. \A v, u \in Workers : \A i \in 1..Len(su[v]) : \A j \in 1..Len(su[u]) :
          su[v][i] = su[u][j] => v = u /\ i = j
    <3>1. SUFFICES ASSUME NEW v \in Workers, NEW u \in Workers,
                          NEW i \in 1..Len(su[v]), NEW j \in 1..Len(su[u]),
                          su[v][i] = su[u][j]
                   PROVE  v = u /\ i = j
      OBVIOUS
    <3>2. \/ v = w /\ i = n + 1 /\ su[v][i] = h
          \/ i \in 1..Len(st[v]) /\ su[v][i] = st[v][i] /\ st[v][i] # h
      BY ONLY <2>6, <2>7
    <3>3. \/ u = w /\ j = n + 1 /\ su[u][j] = h
          \/ j \in 1..Len(st[u]) /\ su[u][j] = st[u][j] /\ st[u][j] # h
      BY ONLY <2>6, <2>7
    <3> QED BY ONLY <2>11, <3>1, <3>2, <3>3
  <2>5. \A t \in Tasks : r[t] # "off" =>
          \E v \in Workers : \E i \in 1..Len(su[v]) : su[v][i] = t
    <3>1. SUFFICES ASSUME NEW t \in Tasks, r[t] # "off"
                   PROVE  \E v \in Workers : \E i \in 1..Len(su[v]) : su[v][i] = t
      OBVIOUS
    <3>2. CASE t = h
      <4>1. n + 1 \in 1..Len(su[w])
        BY <1>3, <1>11
      <4> QED BY <1>11, <3>2, <4>1
    <3>3. CASE t # h
      <4>1. p[t] # "off"
        BY <1>12, <3>1, <3>3 DEF Ctx
      <4>2. PICK v \in Workers : \E i \in 1..Len(st[v]) : st[v][i] = t
        BY <2>12, <4>1
      <4> QED BY <2>7, <4>2
    <3> QED BY <3>2, <3>3
  <2> QED BY ONLY <2>1, <2>2, <2>3, <2>4, <2>5 DEF StackOK
<1> QED BY <1>10, <1>13, <1>14, <1>15, <1>16 DEF Shape, h, s, r, su

\* The innermost task of a worker returns to whoever executed it.
LEMMA ReturnShape ==
  ASSUME NEW p, NEW a, NEW k \in SUBSET Tasks, NEW q \in Seq(Tasks),
         NEW st \in [Workers -> Seq(Tasks)], NEW td,
         Shape(p, a, k, q, st, td),
         NEW w \in Workers, st[w] # <<>>,
         NEW t, t = st[w][Len(st[w])], p[t] = "end",
         NEW b, b = IF Len(st[w]) = 1 THEN w ELSE st[w][Len(st[w]) - 1]
  PROVE  /\ Shape([p EXCEPT ![t] = "off", ![b] = AfterExecute(p[b])], a, k, q,
                  [st EXCEPT ![w] = Front(@)], td)
         /\ [st EXCEPT ![w] = Front(@)] \in [Workers -> Seq(Tasks)]
<1> DEFINE y == AfterExecute(p[b])
           r == [p EXCEPT ![t] = "off", ![b] = y]
           su == [st EXCEPT ![w] = Front(@)]
           n == Len(st[w])
<1>1. PcOK(p) /\ ArgOK(p, a, k) /\ TodoOK(p, a, k, td) /\ QueueOK(p, k, q)
        /\ StackOK(p, k, st)
  BY DEF Shape
<1>2. /\ n \in Nat /\ n > 0 /\ n \in 1..n
      /\ n # 1 => n - 1 \in 1..n /\ n - 1 < n
  <2>1. st[w] \in Seq(Tasks)
    OBVIOUS
  <2>2. n \in Nat /\ n # 0
    BY <2>1
  <2> HIDE DEF n
  <2> QED BY <2>2
<1>3. \A v \in Workers : st[v] = <<>> <=> p[v] # "busy"
  BY <1>1 DEF StackOK
<1>4. \A v \in Workers : \A i \in 1..Len(st[v]) :
        st[v][i] \in k /\ st[v][i] \in Tasks /\ p[st[v][i]] # "off"
  BY <1>1 DEF StackOK
<1>5. \A v \in Workers : \A i \in 1..Len(st[v]) :
        i < Len(st[v]) => p[st[v][i]] \in NestedPCs
  BY <1>1 DEF StackOK
<1>6. \A v, u \in Workers : \A i \in 1..Len(st[v]) : \A j \in 1..Len(st[u]) :
        st[v][i] = st[u][j] => v = u /\ i = j
  BY <1>1 DEF StackOK
<1>7. \A s \in Tasks : p[s] # "off" =>
        \E v \in Workers : \E i \in 1..Len(st[v]) : st[v][i] = s
  BY <1>1 DEF StackOK
<1>8. t \in Tasks /\ t \in k
  BY <1>2, <1>4
<1>9. /\ n = 1 => b = w /\ p[b] = "busy" /\ y = "idle"
      /\ n # 1 => b \in Tasks /\ b = st[w][n - 1] /\ p[b] \in NestedPCs
      /\ b # t /\ b \in Ctx
  <2>1. CASE n = 1
    BY <2>1, <1>3, <1>8, ContextAssumption DEF AfterExecute, Ctx
  <2>2. CASE n # 1
    BY <2>2, <1>2, <1>4, <1>5, <1>6 DEF Ctx
  <2> QED BY <2>1, <2>2
<1>10. n # 1 => \/ p[b] = "waitAssist" /\ y = "wait"
                \/ p[b] = "enqAssist" /\ y = "enq"
  BY <1>9 DEF NestedPCs, AfterExecute
<1>11. /\ {"off", "wait", "enq"} \subseteq TaskPCs \cap AllPCs
       /\ "idle" \in WorkerPCs \cap AllPCs
       /\ "off" \notin StartPCs \cup WaitPCs \cup NestedPCs
       /\ "idle" \notin StartPCs \cup WaitPCs \cup NestedPCs
       /\ "enq" \notin WaitPCs /\ "wait" \notin StartPCs
       /\ "waitAssist" \in WaitPCs /\ "enqAssist" \in StartPCs
       /\ "end" \notin NestedPCs
  BY DEF AllPCs, WorkerPCs, TaskPCs, BodyPCs, StartPCs, WaitPCs, NestedPCs
<1>12. /\ r \in [Ctx -> AllPCs]
       /\ \A d \in Ctx : r[d] = IF d = b THEN y ELSE IF d = t THEN "off" ELSE p[d]
  <2>1. y \in AllPCs /\ "off" \in AllPCs
    BY <1>9, <1>10, <1>11
  <2> HIDE DEF y
  <2> QED BY <1>1, <1>8, <1>9, <2>1 DEF PcOK, Ctx
<1> HIDE DEF r, y
<1>13. PcOK(r)
  <2>1. \A v \in Workers : r[v] \in WorkerPCs
    BY <1>1, <1>8, <1>9, <1>11, <1>12, ContextAssumption DEF PcOK, Ctx
  <2>2. \A d \in Clients : r[d] \in ClientPCs
    BY <1>1, <1>8, <1>9, <1>12, ContextAssumption DEF PcOK, Ctx
  <2>3. \A u \in Tasks : r[u] \in TaskPCs
    BY <1>1, <1>9, <1>10, <1>11, <1>12, ContextAssumption DEF PcOK, Ctx
  <2> QED BY <1>12, <2>1, <2>2, <2>3 DEF PcOK
<1>14. \A d \in Ctx : /\ r[d] \in StartPCs => p[d] \in StartPCs
                      /\ r[d] \in WaitPCs => p[d] \in WaitPCs
                      /\ p[d] = "off" => r[d] = "off"
                      /\ r[d] = "off" => p[d] = "off" \/ d = t
                      /\ p[d] \in NestedPCs /\ d # b => r[d] \in NestedPCs
  <2>1. p[b] # "off" /\ y # "off"
    BY <1>9, <1>10, <1>11
  <2> QED BY <1>9, <1>10, <1>11, <1>12, <2>1
<1>15. ArgOK(r, a, k)
  BY <1>1, <1>14 DEF ArgOK
<1>16. TodoOK(r, a, k, td)
  BY <1>1, <1>14 DEF TodoOK
<1>17. QueueOK(r, k, q)
  BY <1>1, <1>14 DEF QueueOK, Ctx
<1>18. /\ su \in [Workers -> Seq(Tasks)]
       /\ \A v \in Workers : v # w => su[v] = st[v]
       /\ Len(su[w]) = n - 1
       /\ \A i \in 1..(n - 1) : su[w][i] = st[w][i]
  BY FrontFacts
<1>19. su[w] = <<>> <=> n = 1
  BY <1>2, <1>18
<1> HIDE DEF su
<1>20. \A v \in Workers : \A i \in 1..Len(su[v]) :
         /\ i \in 1..Len(st[v]) /\ su[v][i] = st[v][i]
         /\ v = w => i < n
  BY <1>2, <1>18
<1>21. \A v \in Workers : \A i \in 1..Len(st[v]) :
         ~(v = w /\ i = n) => i \in 1..Len(su[v]) /\ su[v][i] = st[v][i]
  BY <1>2, <1>18, SMTT(30)
<1> HIDE DEF n
<1>22. StackOK(r, k, su)
  <2>1. \A v \in Workers : su[v] = <<>> <=> r[v] # "busy"
    <3>1. CASE n = 1
      BY <3>1, <1>3, <1>8, <1>9, <1>12, <1>18, <1>19, ContextAssumption, ZenonT(60) DEF Ctx
    <3>2. CASE n # 1
      BY <3>2, <1>3, <1>8, <1>9, <1>12, <1>18, <1>19, ContextAssumption, ZenonT(60) DEF Ctx
    <3> QED BY <3>1, <3>2
  <2>2. \A v \in Workers : \A i \in 1..Len(su[v]) :
          su[v][i] \in k /\ r[su[v][i]] # "off"
    <3>1. SUFFICES ASSUME NEW v \in Workers, NEW i \in 1..Len(su[v])
                   PROVE  su[v][i] \in k /\ r[su[v][i]] # "off"
      OBVIOUS
    <3>2. i \in 1..Len(st[v]) /\ su[v][i] = st[v][i] /\ ~(v = w /\ i = n)
      BY <1>2, <1>20
    <3>3. st[v][i] # t
      BY <1>2, <1>6, <3>2 DEF n
    <3> QED BY <1>4, <1>14, <3>2, <3>3 DEF Ctx
  <2>3. \A v \in Workers : \A i \in 1..Len(su[v]) :
          i < Len(su[v]) => r[su[v][i]] \in NestedPCs
    <3>1. SUFFICES ASSUME NEW v \in Workers, NEW i \in 1..Len(su[v]), i < Len(su[v])
                   PROVE  r[su[v][i]] \in NestedPCs
      OBVIOUS
    <3>2. i \in 1..Len(st[v]) /\ su[v][i] = st[v][i] /\ i < Len(st[v])
      BY <1>2, <1>18, <1>20, <3>1 DEF n
    <3>3. v = w => i < n - 1
      BY <1>18, <3>1
    <3>4. st[v][i] # b
      BY <1>2, <1>4, <1>6, <1>9, <3>2, <3>3, ContextAssumption DEF n
    <3> QED BY <1>4, <1>5, <1>14, <3>2, <3>4 DEF Ctx
  <2>4. \A v, u \in Workers : \A i \in 1..Len(su[v]) : \A j \in 1..Len(su[u]) :
          su[v][i] = su[u][j] => v = u /\ i = j
    BY ONLY <1>6, <1>20
  <2>5. \A s \in Tasks : r[s] # "off" =>
          \E v \in Workers : \E i \in 1..Len(su[v]) : su[v][i] = s
    <3>1. SUFFICES ASSUME NEW s \in Tasks, r[s] # "off"
                   PROVE  \E v \in Workers : \E i \in 1..Len(su[v]) : su[v][i] = s
      OBVIOUS
    <3>2. p[s] # "off" /\ s # t
      BY <1>9, <1>12, <1>14, <3>1 DEF Ctx
    <3>3. PICK v \in Workers : \E i \in 1..Len(st[v]) : st[v][i] = s
      BY <1>7, <3>2
    <3>4. PICK i \in 1..Len(st[v]) : st[v][i] = s
      BY <3>3
    <3>5. ~(v = w /\ i = n)
      BY <3>2, <3>4 DEF n
    <3> QED BY <1>21, <3>4, <3>5
  <2> QED BY ONLY <2>1, <2>2, <2>3, <2>4, <2>5 DEF StackOK
<1> QED BY <1>13, <1>15, <1>16, <1>17, <1>18, <1>22 DEF Shape, r, y, su

-----------------------------------------------------------------------------
(* The shape along the moves that the actions are made of *)

\* A context in a body goes on without entering a start or a wait.
LEMMA BodyMove ==
  ASSUME NEW p, NEW a, NEW k \in SUBSET Tasks, NEW q \in Seq(Tasks),
         NEW st \in [Workers -> Seq(Tasks)], NEW td,
         Shape(p, a, k, q, st, td),
         NEW c \in Ctx, p[c] \in ClientPCs, NEW x \in ClientPCs,
         x \in StartPCs => p[c] \in StartPCs,
         x \in WaitPCs => p[c] \in WaitPCs
  PROVE  Shape([p EXCEPT ![c] = x], a, k, q, st, td)
<1>1. /\ p[c] \notin WorkerPCs \cup NestedPCs \cup {"off", "busy"}
      /\ x \in TaskPCs \cap AllPCs /\ x \notin {"off", "busy"}
  BY DEF ClientPCs, BodyPCs, StartPCs, WaitPCs, StopPCs, WorkerPCs, NestedPCs,
         TaskPCs, AllPCs
<1>2. c \notin Workers
  BY <1>1 DEF Shape, PcOK
<1> QED BY <1>1, <1>2, MoveShape

\* A worker that executes nothing goes on.
LEMMA WorkerMove ==
  ASSUME NEW p, NEW a, NEW k \in SUBSET Tasks, NEW q \in Seq(Tasks),
         NEW st \in [Workers -> Seq(Tasks)], NEW td,
         Shape(p, a, k, q, st, td),
         NEW w \in Workers, p[w] # "busy", NEW x \in WorkerPCs \ {"busy"}
  PROVE  Shape([p EXCEPT ![w] = x], a, k, q, st, td)
<1>1. p[w] \in WorkerPCs
  BY DEF Shape, PcOK
<1>2. /\ p[w] \notin NestedPCs \cup {"off", "busy"}
      /\ x \in AllPCs /\ x # "off" /\ x \notin StartPCs \cup WaitPCs
  BY <1>1 DEF WorkerPCs, NestedPCs, AllPCs, StartPCs, WaitPCs
<1> QED BY <1>1, <1>2, MoveShape, ContextAssumption DEF Ctx

\* A task begins or ends its body.
LEMMA TaskMove ==
  ASSUME NEW p, NEW a, NEW k \in SUBSET Tasks, NEW q \in Seq(Tasks),
         NEW st \in [Workers -> Seq(Tasks)], NEW td,
         Shape(p, a, k, q, st, td),
         NEW t \in Tasks, p[t] \in {"begin", "run"}, NEW x \in {"run", "end"}
  PROVE  Shape([p EXCEPT ![t] = x], a, k, q, st, td)
<1>1. /\ p[t] \notin NestedPCs \cup {"off", "busy"}
      /\ x \in AllPCs \cap TaskPCs /\ x \notin {"off", "busy"} \cup StartPCs \cup WaitPCs
  BY DEF WorkerPCs, NestedPCs, AllPCs, StartPCs, WaitPCs, TaskPCs, BodyPCs
<1> QED BY <1>1, MoveShape, ContextAssumption DEF Ctx

\* The pool starts: the queue is new, and the threads come to life.
LEMMA SpawnShape ==
  ASSUME NEW p, NEW a, NEW k \in SUBSET Tasks, NEW q \in Seq(Tasks),
         NEW st \in [Workers -> Seq(Tasks)], NEW td,
         Shape(p, a, k, q, st, td),
         NEW S \in SUBSET Workers, \A w \in S : p[w] = "gone"
  PROVE  Shape(Wake(Spawned(S, p)), a, k, <<>>, st, td)
<1>1. PcOK(p)
  BY DEF Shape
<1>2. \A c \in Ctx : Spawned(S, p)[c] = IF c \in S THEN "idle" ELSE p[c]
  BY DEF Spawned
<1>3. PcOK(Spawned(S, p))
  BY <1>1, ContextAssumption DEF PcOK, Spawned, Ctx, AllPCs, WorkerPCs
<1>4. Shape(Spawned(S, p), a, k, q, st, td)
  BY <1>2, <1>3, SameShape DEF NestedPCs, StartPCs, WaitPCs
<1>5. Shape(Wake(Spawned(S, p)), a, k, q, st, td)
  BY <1>4, WakeShape
<1> QED BY <1>5 DEF Shape, QueueOK

-----------------------------------------------------------------------------
(* Every action preserves ControlInv *)

LEMMA InitControlInv == Init => ControlInv
<1> SUFFICES ASSUME Init PROVE ControlInv
  OBVIOUS
<1>1. PcOK(pc)
  BY ContextAssumption DEF Init, PcOK, Ctx, AllPCs, ClientPCs, WorkerPCs, TaskPCs,
     BodyPCs, StartPCs, WaitPCs
<1>2. /\ \A c \in Ctx : pc[c] \in {"gone", "run", "off"}
      /\ \A w \in Workers : pc[w] = "gone"
      /\ \A t \in Tasks : pc[t] = "off"
  BY ContextAssumption DEF Init, Ctx
<1>3. \A c \in Ctx : pc[c] \notin StartPCs /\ pc[c] \notin WaitPCs
  BY <1>2 DEF StartPCs, WaitPCs
<1>4. todo \in [Ctx -> SUBSET Ops]
  BY ScriptAssumption DEF Init
<1>5. TasksOK /\ PoolOK /\ ContextsOK
  <2>1. <<>> \in Seq(Tasks) /\ {} \subseteq Tasks
    OBVIOUS
  <2>2. stack \in [Workers -> Seq(Tasks)]
    BY <2>1 DEF Init
  <2>3. TasksOK
    BY <2>1 DEF Init, TasksOK, QUEUED, CANCELLED
  <2>4. FlagsOK
    BY DEF Init, FlagsOK
  <2>5. NumbersOK
    BY <2>1 DEF Init, NumbersOK, RUNNING, STOPPED
  <2>6. ContextsOK
    BY <1>4, <2>2 DEF Init, ContextsOK
  <2> QED BY <2>3, <2>4, <2>5, <2>6 DEF PoolOK
<1>6. ArgOK(pc, arg, known)
  BY <1>3 DEF ArgOK
<1>7. TodoOK(pc, arg, known, todo)
  BY <1>3, <1>4, ScriptAssumption DEF TodoOK, Init
<1>8. QueueOK(pc, known, queue)
  BY DEF QueueOK, Init
<1>9. StackOK(pc, known, stack)
  BY <1>2 DEF StackOK, Init
<1> QED BY <1>1, <1>5, <1>6, <1>7, <1>8, <1>9 DEF ControlInv, Shape


LEMMA InitReturns1Shape ==
  ASSUME PoolOK, NEW c \in Ctx \ Workers, NEW x, InitReturns1(c, x),
         NEW a, NEW k \in SUBSET Tasks, NEW td,
         stack \in [Workers -> Seq(Tasks)],
         pc \in [Ctx -> AllPCs],
         Shape([pc EXCEPT ![c] = x], a, k, queue, stack, td)
  PROVE  PoolOK' /\ Shape(pc', a, k, queue', stack, td)
<1>1. CASE InitAccepts /\ PoolUnchanged /\ pc' = [pc EXCEPT ![c] = x]
  BY <1>1 DEF PoolOK, FlagsOK, NumbersOK, PoolUnchanged, confVars
<1>2. CASE \E S \in FreshPools : StartPool(S) /\ pc' = Wake(Spawned(S, [pc EXCEPT ![c] = x]))
  <2>1. PICK S \in FreshPools : StartPool(S) /\ pc' = Wake(Spawned(S, [pc EXCEPT ![c] = x]))
    BY <1>2
  <2>2. S \in SUBSET Workers /\ \A w \in S : [pc EXCEPT ![c] = x][w] = "gone"
    BY DEF FreshPools, Ctx
  <2>3. Cardinality(S) \in Nat
    BY <2>2, FiniteAssumption, FS_Subset, FS_CardinalityType
  <2>4. ResolvedCapacity \in Nat
    BY SizeAssumption DEF ResolvedCapacity, PoolOK, FlagsOK, NumbersOK
  <2>5. queue \in Seq(Tasks) /\ <<>> \in Seq(Tasks)
    BY DEF PoolOK, FlagsOK, NumbersOK
  <2>6. Shape(pc', a, k, queue', stack, td)
    BY <2>1, <2>2, <2>5, SpawnShape DEF StartPool
  <2> QED BY <2>1, <2>3, <2>4, <2>5, <2>6 DEF PoolOK, FlagsOK, NumbersOK, StartPool, confVars
<1> QED BY <1>1, <1>2 DEF InitReturns1

LEMMA InitReturns0Shape ==
  ASSUME PoolOK, NEW c, NEW x, InitReturns0(c, x)
  PROVE  PoolOK' /\ pc' = [pc EXCEPT ![c] = x] /\ queue' = queue
BY DEF PoolOK, FlagsOK, NumbersOK, InitReturns0, PoolUnchanged, PoolFails, confVars

\* What a call finds
LEMMA CallFacts ==
  ASSUME ControlInv, NEW c \in Ctx, NEW o \in todo[c], Calls(c, o), Consume(c, o)
  PROVE  /\ o \in Ops /\ pc[c] = "run" /\ c \notin Workers
         /\ todo' \in [Ctx -> SUBSET Ops]
         /\ Shape(pc, arg, known, queue, stack, todo')
<1>1. todo \in [Ctx -> SUBSET Ops] /\ pc[c] = "run"
  BY DEF ControlInv, TasksOK, PoolOK, FlagsOK, NumbersOK, ContextsOK, Calls
<1>2. c \notin Workers
  BY <1>1 DEF ControlInv, Shape, PcOK, WorkerPCs
<1>3. todo' \in [Ctx -> SUBSET Ops]
  BY <1>1 DEF Consume
<1>4. Shape(pc, arg, known, queue, stack, todo')
  BY <1>1, ConsumeShape DEF Consume, ControlInv, TasksOK, PoolOK, FlagsOK, NumbersOK, ContextsOK
<1> QED BY <1>1, <1>2, <1>3, <1>4

LEMMA QueryStep ==
  ASSUME ControlInv, NEW c \in Ctx, NEW o \in todo[c], QueryCall(c, o)
  PROVE  ControlInv'
<1>1. /\ pc[c] = "run" /\ c \notin Workers /\ todo' \in [Ctx -> SUBSET Ops]
      /\ Shape(pc, arg, known, queue, stack, todo')
  BY CallFacts DEF QueryCall
<1>2. PoolOK /\ stack \in [Workers -> Seq(Tasks)] /\ known \in SUBSET Tasks
        /\ pc \in [Ctx -> AllPCs] /\ queue \in Seq(Tasks)
  BY DEF ControlInv, TasksOK, PoolOK, FlagsOK, NumbersOK, ContextsOK, Shape, PcOK
<1>3. [pc EXCEPT ![c] = "run"] = pc
  BY <1>1, <1>2
<1>4. PoolOK' /\ Shape(pc', arg, known, queue', stack, todo')
  <2>1. CASE InitReturns1(c, "run")
    BY <1>1, <1>2, <1>3, <2>1, InitReturns1Shape
  <2>2. CASE InitReturns0(c, "run")
    BY <1>1, <1>2, <1>3, <2>2, InitReturns0Shape
  <2> QED BY <2>1, <2>2 DEF QueryCall
<1> QED BY <1>1, <1>4 DEF ControlInv, TasksOK, PoolOK, FlagsOK, NumbersOK, ContextsOK, QueryCall, taskVars

LEMMA StartCallStep ==
  ASSUME ControlInv, NEW c \in Ctx, NEW o \in todo[c], StartCall(c, o)
  PROVE  ControlInv'
<1>1. o \in Ops /\ pc[c] = "run" /\ c \notin Workers /\ todo' \in [Ctx -> SUBSET Ops]
  BY CallFacts DEF StartCall
<1>2. o.op = "start" /\ o.task \in Tasks
  BY <1>1, OpsFacts DEF StartCall
<1>3. TasksOK' /\ PoolOK' /\ ContextsOK'
  <2>1. TasksOK'
    BY <1>1, <1>2 DEF ControlInv, TasksOK, StartCall, poolVars, QUEUED, CANCELLED
  <2>2. PoolOK'
    BY <1>1, <1>2 DEF ControlInv, PoolOK, FlagsOK, NumbersOK, StartCall, poolVars, QUEUED, CANCELLED
  <2>3. ContextsOK'
    BY <1>1, <1>2 DEF ControlInv, ContextsOK, StartCall, poolVars, QUEUED, CANCELLED
  <2> QED BY <2>1, <2>2, <2>3
<1>4. Shape(pc', arg', known, queue, stack, todo')
  BY <1>1, <1>2, StartShape DEF ControlInv, TasksOK, PoolOK, FlagsOK, NumbersOK, ContextsOK, StartCall, Consume
<1> QED BY <1>3, <1>4 DEF ControlInv, StartCall, poolVars

LEMMA ShutdownIdleStep ==
  ASSUME ControlInv, NEW c \in Ctx, NEW o \in todo[c], ShutdownIdle(c, o)
  PROVE  ControlInv'
<1>1. /\ todo' \in [Ctx -> SUBSET Ops]
      /\ Shape(pc, arg, known, queue, stack, todo')
  BY CallFacts DEF ShutdownIdle
<1>2. TasksOK' /\ PoolOK' /\ ContextsOK'
  <2>1. TasksOK'
    BY <1>1 DEF ControlInv, TasksOK, ShutdownIdle, taskVars, confVars, RUNNING, STOPPED
  <2>2. PoolOK'
    <3>1. FlagsOK'
      BY <1>1 DEF ControlInv, PoolOK, FlagsOK, ShutdownIdle
    <3>2. NumbersOK'
      BY <1>1 DEF ControlInv, PoolOK, NumbersOK, ShutdownIdle, confVars, RUNNING, STOPPED
    <3> QED BY <3>1, <3>2 DEF PoolOK
  <2>3. ContextsOK'
    BY <1>1 DEF ControlInv, ContextsOK, ShutdownIdle, taskVars, confVars, RUNNING, STOPPED
  <2> QED BY <2>1, <2>2, <2>3
<1>3. Shape(pc', arg, known, queue, stack, todo')
  BY <1>1, WakeShape DEF ControlInv, TasksOK, PoolOK, FlagsOK, NumbersOK, ContextsOK, ShutdownIdle
<1> QED BY <1>2, <1>3 DEF ControlInv, ShutdownIdle, taskVars

LEMMA ResetStep ==
  ASSUME ControlInv, NEW c \in Ctx, NEW o \in todo[c], ResetCall(c, o)
  PROVE  ControlInv'
<1>1. /\ todo' \in [Ctx -> SUBSET Ops]
      /\ Shape(pc, arg, known, queue, stack, todo')
  BY CallFacts DEF ResetCall
<1>2. TasksOK' /\ PoolOK' /\ ContextsOK'
  <2>1. TasksOK'
    BY <1>1 DEF ControlInv, TasksOK, ResetCall, taskVars, confVars, RUNNING, STOPPED
  <2>2. PoolOK'
    <3>1. FlagsOK'
      BY <1>1 DEF ControlInv, PoolOK, FlagsOK, ResetCall
    <3>2. NumbersOK'
      BY <1>1 DEF ControlInv, PoolOK, NumbersOK, ResetCall, confVars, RUNNING, STOPPED
    <3> QED BY <3>1, <3>2 DEF PoolOK
  <2>3. ContextsOK'
    BY <1>1 DEF ControlInv, ContextsOK, ResetCall, taskVars, confVars, RUNNING, STOPPED
  <2> QED BY <2>1, <2>2, <2>3
<1> QED BY <1>1, <1>2 DEF ControlInv, ResetCall, taskVars

LEMMA ConfigureStep ==
  ASSUME ControlInv, NEW c \in Ctx, NEW o \in todo[c], ConfigureCall(c, o)
  PROVE  ControlInv'
<1>1. /\ o \in Ops /\ todo' \in [Ctx -> SUBSET Ops]
      /\ Shape(pc, arg, known, queue, stack, todo')
  BY CallFacts DEF ConfigureCall
<1>2. o.workers \in Nat /\ o.capacity \in Nat
  BY <1>1, OpsFacts DEF ConfigureCall
<1>3. TasksOK' /\ PoolOK' /\ ContextsOK'
  <2>1. TasksOK'
    BY <1>1, <1>2 DEF ControlInv, TasksOK, ConfigureCall, taskVars, confVars
  <2>2. PoolOK'
    BY <1>1, <1>2 DEF ControlInv, PoolOK, FlagsOK, NumbersOK, ConfigureCall, taskVars, confVars
  <2>3. ContextsOK'
    BY <1>1, <1>2 DEF ControlInv, ContextsOK, ConfigureCall, taskVars, confVars
  <2> QED BY <2>1, <2>2, <2>3
<1> QED BY <1>1, <1>3 DEF ControlInv, ConfigureCall, taskVars

LEMMA StartInitStep ==
  ASSUME ControlInv, NEW c \in Ctx, StartInit(c)
  PROVE  ControlInv'
<1>1. /\ pc[c] = "init" /\ pc[c] \in StartPCs \ NestedPCs /\ pc[c] \in ClientPCs
      /\ "enq" \in ClientPCs /\ "enq" \notin WaitPCs
  BY DEF StartInit, StartPCs, NestedPCs, ClientPCs, BodyPCs, WaitPCs
<1>2. /\ PoolOK /\ stack \in [Workers -> Seq(Tasks)] /\ known \in SUBSET Tasks
      /\ pc \in [Ctx -> AllPCs] /\ queue \in Seq(Tasks)
      /\ arg \in [Ctx -> Tasks \cup {None}]
      /\ todo \in [Ctx -> SUBSET Ops]
      /\ Shape(pc, arg, known, queue, stack, todo)
  BY DEF ControlInv, TasksOK, PoolOK, FlagsOK, NumbersOK, ContextsOK, Shape, PcOK
<1>3. c \notin Workers
  BY <1>1, <1>2 DEF Shape, PcOK, WorkerPCs
<1>4. UNCHANGED <<cancelReq, stack, todo, timer>>
  BY DEF StartInit
<1>5. CASE InitReturns1(c, "enq") /\ UNCHANGED <<hstate, known, arg>>
  <2>1. Shape([pc EXCEPT ![c] = "enq"], arg, known, queue, stack, todo)
    BY <1>1, <1>2, BodyMove
  <2>2. PoolOK' /\ Shape(pc', arg, known, queue', stack, todo)
    BY <1>2, <1>3, <1>5, <2>1, InitReturns1Shape
  <2> QED BY <1>4, <1>5, <2>2 DEF ControlInv, TasksOK, PoolOK, FlagsOK, NumbersOK, ContextsOK
<1>6. CASE InitReturns0(c, "run") /\ StartReturns(c, FALSE)
  <2>1. PoolOK' /\ pc' = [pc EXCEPT ![c] = "run"] /\ queue' = queue
    BY <1>2, <1>6, InitReturns0Shape
  <2>2. /\ Shape(pc', arg', known', queue', stack, todo)
        /\ arg[c] \in Tasks
    BY <1>1, <1>2, <1>6, <2>1, StartReturnShape, StartArg DEF StartReturns
  <2>3. /\ hstate' \in [Tasks -> QUEUED..CANCELLED] /\ known' \subseteq Tasks
        /\ arg' \in [Ctx -> Tasks \cup {None}]
    BY <1>2, <1>6, <2>2 DEF StartReturns, ControlInv, TasksOK, PoolOK, FlagsOK, NumbersOK, ContextsOK, QUEUED, CANCELLED
  <2> QED BY <1>4, <2>1, <2>2, <2>3 DEF ControlInv, TasksOK, PoolOK, FlagsOK, NumbersOK, ContextsOK
<1> QED BY <1>5, <1>6 DEF StartInit

LEMMA EnqueueRefusedStep ==
  ASSUME ControlInv, NEW c \in Ctx, EnqueueRefused(c)
  PROVE  ControlInv'
<1>1. pc[c] \in StartPCs \ NestedPCs
  BY DEF EnqueueRefused, StartPCs, NestedPCs
<1>2. Shape(pc', arg', known', queue, stack, todo) /\ arg[c] \in Tasks
  BY <1>1, StartReturnShape, StartArg DEF EnqueueRefused, StartReturns, ControlInv, TasksOK, PoolOK, FlagsOK, NumbersOK, ContextsOK
<1>3. /\ hstate' \in [Tasks -> QUEUED..CANCELLED] /\ known' \subseteq Tasks
      /\ arg' \in [Ctx -> Tasks \cup {None}]
  BY <1>2 DEF EnqueueRefused, StartReturns, ControlInv, TasksOK, PoolOK, FlagsOK, NumbersOK, ContextsOK, QUEUED, CANCELLED
<1> QED BY <1>2, <1>3 DEF ControlInv, TasksOK, PoolOK, FlagsOK, NumbersOK, ContextsOK, EnqueueRefused, poolVars

LEMMA EnqueuePushStep ==
  ASSUME ControlInv, NEW c \in Ctx, EnqueuePush(c)
  PROVE  ControlInv'
<1> DEFINE p == [pc EXCEPT ![c] = "run"]
<1>1. pc[c] \in StartPCs \ NestedPCs /\ pc[c] # "off"
  BY DEF EnqueuePush, EnqueueOpen, StartPCs, NestedPCs
<1>2. /\ Shape(p, arg', known', queue, stack, todo)
      /\ arg[c] \in Tasks \ known /\ pc[arg[c]] = "off" /\ arg[c] # c
  <2>1. /\ Shape(pc, arg, known, queue, stack, todo)
        /\ arg \in [Ctx -> Tasks \cup {None}] /\ known \in SUBSET Tasks
        /\ queue \in Seq(Tasks) /\ stack \in [Workers -> Seq(Tasks)]
        /\ todo \in [Ctx -> SUBSET Ops]
    BY DEF ControlInv, TasksOK, PoolOK, NumbersOK, ContextsOK
  <2>2. arg' = [arg EXCEPT ![c] = None] /\ known' = known \cup {arg[c]}
    BY DEF EnqueuePush, StartReturns
  <2>3. Shape([pc EXCEPT ![c] = "run"], [arg EXCEPT ![c] = None],
              known \cup {arg[c]}, queue, stack, todo)
    BY <1>1, <2>1, StartReturnShape
  <2>4. arg[c] \in Tasks \ known /\ pc[arg[c]] = "off" /\ arg[c] # c
    <3>1. arg[c] \in Tasks \ known
      BY <1>1, <2>1 DEF Shape, ArgOK
    <3>2. pc[arg[c]] = "off"
      BY <2>1, <3>1 DEF Shape, StackOK
    <3> QED BY <1>1, <3>1, <3>2
  <2> QED BY <2>2, <2>3, <2>4
<1>3. /\ hstate' \in [Tasks -> QUEUED..CANCELLED] /\ known' \subseteq Tasks
      /\ arg' \in [Ctx -> Tasks \cup {None}] /\ arg[c] \in known'
  BY <1>2 DEF EnqueuePush, StartReturns, ControlInv, TasksOK, PoolOK, FlagsOK, NumbersOK, ContextsOK, QUEUED, CANCELLED
<1>4. \A i \in 1..Len(queue) : queue[i] # arg[c]
  BY <1>2 DEF ControlInv, Shape, QueueOK
<1>5. p[arg[c]] = "off"
  BY <1>2 DEF ControlInv, Shape, PcOK, Ctx
<1>6. queue \in Seq(Tasks) /\ QueueOK(p, known', queue) /\ stack \in [Workers -> Seq(Tasks)]
  BY <1>2 DEF ControlInv, TasksOK, PoolOK, FlagsOK, NumbersOK, ContextsOK, Shape
<1> HIDE DEF p
<1>7. queue' \in Seq(Tasks) /\ QueueOK(p, known', queue')
  BY <1>3, <1>4, <1>5, <1>6, PushQueue DEF EnqueuePush
<1>8. Shape(p, arg', known', queue', stack, todo)
  BY <1>2, <1>7 DEF Shape
<1>9. Shape(pc', arg', known', queue', stack, todo)
  BY <1>3, <1>6, <1>7, <1>8, WakeShape DEF EnqueuePush, p
<1> QED BY <1>3, <1>7, <1>9 DEF ControlInv, TasksOK, PoolOK, FlagsOK, NumbersOK, ContextsOK, EnqueuePush, poolVars

LEMMA EnqueueWaitStep ==
  ASSUME ControlInv, NEW c \in Ctx, EnqueueWait(c) PROVE ControlInv'
<1>1. TasksOK' /\ PoolOK' /\ ContextsOK'
  <2>1. TasksOK'
    BY DEF ControlInv, TasksOK, EnqueueWait, taskVars, poolVars
  <2>2. PoolOK'
    BY DEF ControlInv, PoolOK, FlagsOK, NumbersOK, EnqueueWait, taskVars, poolVars
  <2>3. ContextsOK'
    BY DEF ControlInv, ContextsOK, EnqueueWait, taskVars, poolVars
  <2> QED BY <2>1, <2>2, <2>3
<1>2. Shape(pc', arg, known, queue, stack, todo)
  BY BodyMove DEF ControlInv, TasksOK, PoolOK, FlagsOK, NumbersOK, ContextsOK, EnqueueWait, EnqueueOpen, ClientPCs, BodyPCs,
     StartPCs, WaitPCs
<1> QED BY <1>1, <1>2 DEF ControlInv, EnqueueWait, taskVars, poolVars

LEMMA CountedOutNat ==
  ASSUME NEW n \in Nat, NEW x, NEW y PROVE CountedOut(n, x, y) \in Nat
BY DEF CountedOut

\* A context executes the oldest task of q, which is the queue or what a
\* cancellation left of it.
LEMMA PopStep ==
  ASSUME ControlInv, NEW q \in Seq(Tasks), QueueOK(pc, known, q), q # <<>>,
         NEW c \in Ctx, NEW x, PopAndExecute(c, q, x),
         \/ c \in Workers /\ x = "busy"
         \/ c \in Tasks /\ x = "waitAssist" /\ pc[c] = "wait"
         \/ c \in Tasks /\ x = "enqAssist" /\ pc[c] \in StartPCs \ NestedPCs
  PROVE  /\ queue' \in Seq(Tasks) /\ stack' \in [Workers -> Seq(Tasks)]
         /\ Shape(pc', arg, known, queue', stack', todo)
<1>1. /\ Shape(pc, arg, known, q, stack, todo)
      /\ known \in SUBSET Tasks /\ stack \in [Workers -> Seq(Tasks)]
  BY DEF ControlInv, Shape, TasksOK, ContextsOK
<1>2. PICK w \in Workers :
        /\ Top(w) = c
        /\ queue' = Tail(q)
        /\ stack' = [stack EXCEPT ![w] = Append(@, Head(q))]
        /\ pc' = Wake([pc EXCEPT ![c] = x, ![Head(q)] = "begin"])
  BY DEF PopAndExecute
<1>3. c = IF stack[w] = <<>> THEN w ELSE stack[w][Len(stack[w])]
  BY <1>2 DEF Top
<1>4. Head(q) \in Tasks /\ Tail(q) \in Seq(Tasks)
  BY TailQueue, <1>1
<1>5. queue' \in Seq(Tasks) /\ stack' \in [Workers -> Seq(Tasks)]
  BY <1>1, <1>2, <1>4
<1>6. Shape([pc EXCEPT ![c] = x, ![Head(q)] = "begin"], arg, known, Tail(q),
            [stack EXCEPT ![w] = Append(@, Head(q))], todo)
  BY <1>1, <1>3, PopShape
<1>7. Shape([pc EXCEPT ![c] = x, ![Head(q)] = "begin"], arg, known, queue',
            stack', todo)
  BY <1>2, <1>6
<1>8. Shape(pc', arg, known, queue', stack', todo)
  BY <1>1, <1>2, <1>5, <1>7, WakeShape
<1> QED BY <1>5, <1>8

LEMMA EnqueueAssistStep ==
  ASSUME ControlInv, NEW c \in Ctx, EnqueueAssist(c) PROVE ControlInv'
<1>1. queue \in Seq(Tasks) /\ QueueOK(pc, known, queue)
  BY DEF ControlInv, PoolOK, NumbersOK, Shape
<1>2. pc[c] \in StartPCs \ NestedPCs /\ c \in Tasks /\ queue # <<>>
  BY DEF EnqueueAssist, EnqueueOpen, EnqueueMayAssist, StartPCs, NestedPCs
<1>3. PopAndExecute(c, queue, "enqAssist")
  BY DEF EnqueueAssist
<1>4. /\ queue' \in Seq(Tasks) /\ stack' \in [Workers -> Seq(Tasks)]
      /\ Shape(pc', arg, known, queue', stack', todo)
  BY <1>1, <1>2, <1>3, PopStep
<1> QED BY <1>4 DEF ControlInv, TasksOK, PoolOK, FlagsOK, NumbersOK, ContextsOK,
     EnqueueAssist, taskVars, poolVars

\* What meth_async_cancel_locked does to the tasks and to the queue
LEMMA CancelFacts ==
  ASSUME ControlInv, NEW t \in Tasks, CancelLocked(t)
  PROVE  /\ hstate' \in [Tasks -> QUEUED..CANCELLED]
         /\ cancelReq' \in [Tasks -> BOOLEAN]
         /\ outstanding' \in Nat
         /\ QueueAfterCancel(t) \in Seq(Tasks)
         /\ QueueOK(pc, known, QueueAfterCancel(t))
<1>1. hstate' \in [Tasks -> QUEUED..CANCELLED]
  BY DEF ControlInv, TasksOK, CancelLocked, QUEUED, CANCELLED
<1>2. cancelReq' \in [Tasks -> BOOLEAN]
  BY DEF ControlInv, TasksOK, CancelLocked
<1>3. outstanding' \in Nat
  BY CountedOutNat DEF ControlInv, PoolOK, NumbersOK, CancelLocked
<1>4. queue \in Seq(Tasks) /\ QueueOK(pc, known, queue) /\ known \in SUBSET Tasks
  BY DEF ControlInv, TasksOK, PoolOK, NumbersOK, Shape
<1>5. /\ QueueAfterCancel(t) \in Seq(Tasks)
      /\ QueueOK(pc, known, QueueAfterCancel(t))
  <2>1. CASE TakesOut(t)
    <3>1. PICK n \in 1..Len(queue) : queue[n] = t
      BY <2>1 DEF TakesOut, InQueue
    <3> QED BY <1>4, <2>1, <3>1, RemoveQueue DEF QueueAfterCancel
  <2>2. CASE ~TakesOut(t)
    BY <1>4, <2>2 DEF QueueAfterCancel
  <2> QED BY <2>1, <2>2
<1> QED BY <1>1, <1>2, <1>3, <1>5

LEMMA CancelStep ==
  ASSUME ControlInv, NEW c \in Ctx, NEW o \in todo[c], CancelCall(c, o)
  PROVE  ControlInv'
<1>1. /\ o \in Ops /\ todo' \in [Ctx -> SUBSET Ops]
      /\ Shape(pc, arg, known, queue, stack, todo')
  BY CallFacts DEF CancelCall
<1>2. o.task \in Tasks
  BY <1>1, OpsFacts DEF CancelCall
<1>3. /\ hstate' \in [Tasks -> QUEUED..CANCELLED]
      /\ cancelReq' \in [Tasks -> BOOLEAN]
      /\ outstanding' \in Nat
      /\ queue' \in Seq(Tasks) /\ QueueOK(pc, known, queue')
  BY <1>2, CancelFacts DEF CancelCall
<1>4. Shape(pc, arg, known, queue', stack, todo')
  BY <1>1, <1>3 DEF Shape
<1>5. Shape(pc', arg, known, queue', stack, todo')
  BY <1>3, <1>4, WakeShape DEF CancelCall, ControlInv, TasksOK, ContextsOK
<1> QED BY <1>1, <1>3, <1>5 DEF ControlInv, TasksOK, PoolOK, FlagsOK, NumbersOK,
     ContextsOK, CancelCall, poolVars

LEMMA WaitCallStep ==
  ASSUME ControlInv, NEW c \in Ctx, NEW o \in todo[c], WaitCall(c, o)
  PROVE  ControlInv'
<1>1. /\ o \in Ops /\ pc[c] = "run" /\ c \notin Workers
      /\ todo' \in [Ctx -> SUBSET Ops]
      /\ Shape(pc, arg, known, queue, stack, todo')
  BY CallFacts DEF WaitCall
<1>2. /\ PoolOK /\ stack \in [Workers -> Seq(Tasks)] /\ known \in SUBSET Tasks
      /\ pc \in [Ctx -> AllPCs] /\ queue \in Seq(Tasks)
      /\ arg \in [Ctx -> Tasks \cup {None}]
  BY DEF ControlInv, TasksOK, PoolOK, NumbersOK, ContextsOK, Shape, PcOK
<1>3. o.task \in known
  BY DEF WaitCall
<1>4. [pc EXCEPT ![c] = "run"] = pc
  BY <1>1, <1>2
<1>5. PoolOK' /\ Shape(pc', arg', known, queue', stack, todo')
        /\ arg' \in [Ctx -> Tasks \cup {None}]
  <2>1. CASE InitReturns1(c, "wait") /\ arg' = [arg EXCEPT ![c] = o.task]
    <3>1. Shape([pc EXCEPT ![c] = "wait"], arg', known, queue, stack, todo')
      BY <1>1, <1>2, <1>3, <2>1, WaitShape
    <3> QED BY <1>1, <1>2, <1>3, <2>1, <3>1, InitReturns1Shape
  <2>2. CASE InitReturns1(c, "run") /\ arg' = arg
    BY <1>1, <1>2, <1>4, <2>2, InitReturns1Shape
  <2>3. CASE InitReturns0(c, "run") /\ arg' = arg
    BY <1>1, <1>2, <1>4, <2>3, InitReturns0Shape
  <2> QED BY <2>1, <2>2, <2>3 DEF WaitCall
<1> QED BY <1>1, <1>2, <1>5 DEF ControlInv, TasksOK, ContextsOK, WaitCall, taskVars

LEMMA WaitReturnStep ==
  ASSUME ControlInv, NEW c \in Ctx, WaitReturn(c) PROVE ControlInv'
<1>1. Shape(pc', arg', known, queue, stack, todo)
  BY WaitShape DEF ControlInv, TasksOK, PoolOK, NumbersOK, ContextsOK, WaitReturn
<1> QED BY <1>1 DEF ControlInv, TasksOK, PoolOK, FlagsOK, NumbersOK, ContextsOK,
     WaitReturn, taskVars, poolVars

LEMMA WaitAssistStep ==
  ASSUME ControlInv, NEW c \in Ctx, WaitAssist(c) PROVE ControlInv'
<1>1. queue \in Seq(Tasks) /\ QueueOK(pc, known, queue)
  BY DEF ControlInv, PoolOK, NumbersOK, Shape
<1>2. pc[c] = "wait" /\ c \in Tasks /\ queue # <<>>
  BY DEF WaitAssist, WaitGoesOn, MayAssist
<1>3. PopAndExecute(c, queue, "waitAssist")
  BY DEF WaitAssist
<1>4. /\ queue' \in Seq(Tasks) /\ stack' \in [Workers -> Seq(Tasks)]
      /\ Shape(pc', arg, known, queue', stack', todo)
  BY <1>1, <1>2, <1>3, PopStep
<1> QED BY <1>4 DEF ControlInv, TasksOK, PoolOK, FlagsOK, NumbersOK, ContextsOK,
     WaitAssist, taskVars, poolVars

LEMMA WaitParkStep ==
  ASSUME ControlInv, NEW c \in Ctx, WaitPark(c) PROVE ControlInv'
<1>1. Shape(pc', arg, known, queue, stack, todo)
  BY BodyMove DEF ControlInv, TasksOK, PoolOK, NumbersOK, ContextsOK, WaitPark,
     WaitGoesOn, ClientPCs, BodyPCs, StartPCs, WaitPCs
<1> QED BY <1>1 DEF ControlInv, TasksOK, PoolOK, FlagsOK, NumbersOK, ContextsOK,
     WaitPark, taskVars, poolVars

LEMMA WaitPassCancelStep ==
  ASSUME ControlInv, NEW c \in Ctx, WaitPassCancel(c) PROVE ControlInv'
<1> DEFINE q == QueueAfterCancel(arg[c])
<1>1. pc[c] = "wait" /\ c \in Tasks /\ arg[c] \in Tasks
  BY DEF WaitPassCancel, WaitGoesOn, PassesCancelOn, ControlInv, Shape, ArgOK,
     WaitPCs, TasksOK
<1>2. /\ hstate' \in [Tasks -> QUEUED..CANCELLED]
      /\ cancelReq' \in [Tasks -> BOOLEAN]
      /\ outstanding' \in Nat
      /\ q \in Seq(Tasks) /\ QueueOK(pc, known, q)
  BY <1>1, CancelFacts DEF WaitPassCancel
<1>3. \/ q # <<>> /\ PopAndExecute(c, q, "waitAssist")
      \/ /\ queue' = q
         /\ pc' = [Wake(pc) EXCEPT ![c] = "waitPark"]
         /\ UNCHANGED stack
  BY DEF WaitPassCancel, MayAssist
<1> HIDE DEF q
<1>4. /\ queue' \in Seq(Tasks) /\ stack' \in [Workers -> Seq(Tasks)]
      /\ Shape(pc', arg, known, queue', stack', todo)
  <2>1. CASE q # <<>> /\ PopAndExecute(c, q, "waitAssist")
    BY <1>1, <1>2, <2>1, PopStep
  <2>2. CASE /\ queue' = q
             /\ pc' = [Wake(pc) EXCEPT ![c] = "waitPark"]
             /\ UNCHANGED stack
    <3>1. /\ known \in SUBSET Tasks /\ stack \in [Workers -> Seq(Tasks)]
          /\ Shape(pc, arg, known, queue', stack, todo)
      BY <1>2, <2>2 DEF ControlInv, TasksOK, ContextsOK, Shape
    <3>2. Shape(Wake(pc), arg, known, queue', stack, todo)
      BY <1>2, <2>2, <3>1, WakeShape
    <3>3. Wake(pc)[c] = "wait"
      BY <1>1 DEF Wake, Resume
    <3>4. Shape(pc', arg, known, queue', stack, todo)
      BY <1>2, <2>2, <3>1, <3>2, <3>3, BodyMove DEF ClientPCs, BodyPCs, StartPCs, WaitPCs
    <3> QED BY <1>2, <2>2, <3>1, <3>4
  <2> QED BY <1>3, <2>1, <2>2
<1> QED BY <1>2, <1>4 DEF ControlInv, TasksOK, PoolOK, FlagsOK, NumbersOK, ContextsOK,
     WaitPassCancel, poolVars

LEMMA WorkerPopStep ==
  ASSUME ControlInv, NEW w \in Workers, WorkerPop(w) PROVE ControlInv'
<1>1. queue \in Seq(Tasks) /\ QueueOK(pc, known, queue)
  BY DEF ControlInv, PoolOK, NumbersOK, Shape
<1>2. queue # <<>> /\ PopAndExecute(w, queue, "busy")
  BY DEF WorkerPop
<1>3. /\ queue' \in Seq(Tasks) /\ stack' \in [Workers -> Seq(Tasks)]
      /\ Shape(pc', arg, known, queue', stack', todo)
  BY <1>1, <1>2, PopStep DEF Ctx
<1> QED BY <1>3 DEF ControlInv, TasksOK, PoolOK, FlagsOK, NumbersOK, ContextsOK,
     WorkerPop, taskVars, poolVars

LEMMA WorkerParkStep ==
  ASSUME ControlInv, NEW w \in Workers, WorkerPark(w) PROVE ControlInv'
<1>1. Shape(pc', arg, known, queue, stack, todo)
  BY WorkerMove DEF ControlInv, TasksOK, PoolOK, NumbersOK, ContextsOK, WorkerPark,
     WorkerPCs
<1> QED BY <1>1 DEF ControlInv, TasksOK, PoolOK, FlagsOK, NumbersOK, ContextsOK,
     WorkerPark, taskVars, poolVars

LEMMA WorkerLeaveStep ==
  ASSUME ControlInv, NEW w \in Workers, WorkerLeave(w) PROVE ControlInv'
<1>1. Shape([pc EXCEPT ![w] = "gone"], arg, known, queue, stack, todo)
  BY WorkerMove DEF ControlInv, TasksOK, PoolOK, NumbersOK, ContextsOK, WorkerLeave,
     WorkerPCs
<1>2. Shape(pc', arg, known, queue, stack, todo)
  BY <1>1, WakeShape DEF ControlInv, TasksOK, PoolOK, NumbersOK, ContextsOK,
     WorkerLeave
<1>3. live' \in Nat
  BY DEF ControlInv, PoolOK, NumbersOK, WorkerLeave
<1> QED BY <1>2, <1>3 DEF ControlInv, TasksOK, PoolOK, FlagsOK, NumbersOK, ContextsOK,
     WorkerLeave, taskVars, poolVars

LEMMA ExecBeginStep ==
  ASSUME ControlInv, NEW t \in Tasks, ExecBegin(t) PROVE ControlInv'
<1>1. Shape(pc', arg, known, queue, stack, todo)
  BY TaskMove DEF ControlInv, TasksOK, PoolOK, NumbersOK, ContextsOK, ExecBegin
<1>2. hstate' \in [Tasks -> QUEUED..CANCELLED]
  BY DEF ControlInv, TasksOK, ExecBegin, QUEUED, EXECUTING, COMPLETED, CANCELLED
<1>3. outstanding' \in Nat
  BY CountedOutNat DEF ControlInv, PoolOK, NumbersOK, ExecBegin
<1> QED BY <1>1, <1>2, <1>3 DEF ControlInv, TasksOK, PoolOK, FlagsOK, NumbersOK, ContextsOK,
     ExecBegin, poolVars

LEMMA BodyReturnStep ==
  ASSUME ControlInv, NEW t \in Tasks, BodyReturn(t) PROVE ControlInv'
<1>1. Shape(pc', arg, known, queue, stack, todo)
  BY TaskMove DEF ControlInv, TasksOK, PoolOK, NumbersOK, ContextsOK, BodyReturn
<1> QED BY <1>1 DEF ControlInv, TasksOK, PoolOK, FlagsOK, NumbersOK, ContextsOK,
     BodyReturn, taskVars, poolVars

LEMMA BodyFinishStep ==
  ASSUME ControlInv, NEW t \in Tasks, BodyFinish(t) PROVE ControlInv'
<1>1. Shape([pc EXCEPT ![t] = "end"], arg, known, queue, stack, todo)
  BY TaskMove DEF ControlInv, TasksOK, PoolOK, NumbersOK, ContextsOK, BodyFinish
<1>2. Shape(pc', arg, known, queue, stack, todo)
  BY <1>1, WakeShape DEF ControlInv, TasksOK, PoolOK, NumbersOK, ContextsOK,
     BodyFinish
<1>3. hstate' \in [Tasks -> QUEUED..CANCELLED]
  BY DEF ControlInv, TasksOK, BodyFinish, FinalState, QUEUED, COMPLETED, CANCELLED
<1>4. outstanding' \in Nat
  BY CountedOutNat DEF ControlInv, PoolOK, NumbersOK, BodyFinish
<1> QED BY <1>2, <1>3, <1>4 DEF ControlInv, TasksOK, PoolOK, FlagsOK, NumbersOK, ContextsOK,
     BodyFinish, poolVars

LEMMA ExecEndStep ==
  ASSUME ControlInv, NEW t \in Tasks, ExecEnd(t) PROVE ControlInv'
<1>1. /\ Shape(pc, arg, known, queue, stack, todo)
      /\ known \in SUBSET Tasks /\ queue \in Seq(Tasks)
      /\ stack \in [Workers -> Seq(Tasks)]
  BY DEF ControlInv, TasksOK, PoolOK, NumbersOK, ContextsOK
<1>2. PICK w \in Workers :
        /\ Top(w) = t
        /\ stack' = [stack EXCEPT ![w] = Front(@)]
        /\ LET n == Len(stack[w])
               below == IF n = 1 THEN w ELSE stack[w][n - 1]
           IN  pc' = Wake([pc EXCEPT ![t] = "off",
                                     ![below] = AfterExecute(pc[below])])
  BY DEF ExecEnd
<1> DEFINE b == IF Len(stack[w]) = 1 THEN w ELSE stack[w][Len(stack[w]) - 1]
           r == [pc EXCEPT ![t] = "off", ![b] = AfterExecute(pc[b])]
<1>3. stack[w] # <<>> /\ t = stack[w][Len(stack[w])]
  BY <1>2, ContextAssumption DEF Top
<1>4. pc[t] = "end" /\ pc' = Wake(r)
  BY <1>2 DEF ExecEnd
<1>5. /\ Shape(r, arg, known, queue, [stack EXCEPT ![w] = Front(@)], todo)
      /\ [stack EXCEPT ![w] = Front(@)] \in [Workers -> Seq(Tasks)]
  BY <1>1, <1>3, <1>4, ReturnShape
<1> HIDE DEF r
<1>6. stack' \in [Workers -> Seq(Tasks)] /\ Shape(r, arg, known, queue, stack', todo)
  BY <1>2, <1>5
<1>7. Shape(pc', arg, known, queue, stack', todo)
  BY <1>1, <1>4, <1>6, WakeShape
<1>8. hstate' \in [Tasks -> QUEUED..CANCELLED]
  BY DEF ControlInv, TasksOK, ExecEnd, FinalState, QUEUED, COMPLETED, CANCELLED
<1>9. outstanding' \in Nat
  BY CountedOutNat DEF ControlInv, PoolOK, NumbersOK, ExecEnd
<1> QED BY <1>6, <1>7, <1>8, <1>9 DEF ControlInv, TasksOK, PoolOK, FlagsOK, NumbersOK, ContextsOK,
     ExecEnd, poolVars

\* The loop of shutdown in context c, which is at its entry or at its head
LEMMA LoopFacts ==
  ASSUME ControlInv, NEW c \in Ctx, NEW td,
         Shape(pc, arg, known, queue, stack, td),
         pc[c] \in {"run", "sdLoop"},
         NEW x \in RUNNING..STOPPED, NEW entered, ShutdownLoop(c, x, entered)
  PROVE  /\ hstate' \in [Tasks -> QUEUED..CANCELLED]
         /\ cancelReq' \in [Tasks -> BOOLEAN]
         /\ outstanding' \in Nat /\ queue' \in Seq(Tasks)
         /\ xstate' \in RUNNING..STOPPED
         /\ Shape(pc', arg, known, queue', stack, td)
<1>1. /\ known \in SUBSET Tasks /\ queue \in Seq(Tasks)
      /\ stack \in [Workers -> Seq(Tasks)]
      /\ hstate \in [Tasks -> QUEUED..CANCELLED]
      /\ cancelReq \in [Tasks -> BOOLEAN]
      /\ outstanding \in Nat
  BY DEF ControlInv, TasksOK, PoolOK, NumbersOK, ContextsOK
<1>2. xstate' \in RUNNING..STOPPED
  BY DEF ShutdownLoop, RUNNING, STOPPING, STOPPED
<1>3. PICK doIt : AbortQueued(doIt)
  BY DEF ShutdownLoop
<1>4. queue' = <<>> \/ queue' = queue
  BY <1>3 DEF AbortQueued
<1>5. queue' \in Seq(Tasks) /\ Shape(pc, arg, known, queue', stack, td)
  <2>1. CASE queue' = queue
    BY <1>1, <2>1
  <2>2. CASE queue' = <<>>
    BY <1>1, <2>2 DEF Shape, QueueOK
  <2> QED BY <1>4, <2>1, <2>2
<1>6. hstate' \in [Tasks -> QUEUED..CANCELLED]
  BY <1>1, <1>3 DEF AbortQueued, QUEUED, CANCELLED
<1>7. cancelReq' \in [Tasks -> BOOLEAN]
  BY <1>1, <1>3 DEF AbortQueued
<1>8. outstanding' \in Nat
  BY <1>1, <1>3 DEF AbortQueued
<1>9. \E y \in {"sdFinal", "run", "sdPark"} :
        pc' = [pc EXCEPT ![c] = y] \/ pc' = [Wake(pc) EXCEPT ![c] = y]
  BY DEF ShutdownLoop
<1>10. PICK y \in {"sdFinal", "run", "sdPark"} :
        pc' = [pc EXCEPT ![c] = y] \/ pc' = [Wake(pc) EXCEPT ![c] = y]
  BY <1>9
<1>11. /\ y \in ClientPCs /\ y \notin StartPCs \cup WaitPCs
       /\ {"run", "sdLoop"} \subseteq ClientPCs
  BY DEF ClientPCs, BodyPCs, StartPCs, WaitPCs, StopPCs
<1>12. Shape(pc', arg, known, queue', stack, td)
  <2>1. CASE pc' = [pc EXCEPT ![c] = y]
    BY <1>1, <1>5, <1>11, <2>1, BodyMove
  <2>2. CASE pc' = [Wake(pc) EXCEPT ![c] = y]
    <3>1. Shape(Wake(pc), arg, known, queue', stack, td)
      BY <1>1, <1>5, WakeShape
    <3>2. Wake(pc)[c] = pc[c]
      BY DEF Wake, Resume
    <3> QED BY <1>1, <1>5, <1>11, <2>2, <3>1, <3>2, BodyMove
  <2> QED BY <1>10, <2>1, <2>2
<1> QED BY <1>2, <1>5, <1>6, <1>7, <1>8, <1>12

LEMMA ShutdownCallStep ==
  ASSUME ControlInv, NEW c \in Ctx, NEW o \in todo[c], ShutdownCall(c, o)
  PROVE  ControlInv'
<1>1. /\ o \in Ops /\ pc[c] = "run" /\ todo' \in [Ctx -> SUBSET Ops]
      /\ Shape(pc, arg, known, queue, stack, todo')
  BY CallFacts DEF ShutdownCall
<1> DEFINE x == IF o.drain /\ xstate = RUNNING THEN DRAINING ELSE STOPPING
<1>2. ShutdownLoop(c, x, TRUE)
  BY DEF ShutdownCall
<1>6. x = DRAINING \/ x = STOPPING
  OBVIOUS
<1>7. x \in RUNNING..STOPPED
  BY <1>6 DEF RUNNING, DRAINING, STOPPING, STOPPED
<1> HIDE DEF x
<1>3. /\ hstate' \in [Tasks -> QUEUED..CANCELLED]
      /\ cancelReq' \in [Tasks -> BOOLEAN]
      /\ outstanding' \in Nat /\ queue' \in Seq(Tasks)
      /\ xstate' \in RUNNING..STOPPED
      /\ Shape(pc', arg, known, queue', stack, todo')
  BY <1>1, <1>2, <1>7, LoopFacts
<1>4. o.timer \in {"forever", "timed"}
  BY <1>1, OpsFacts DEF ShutdownCall
<1>5. timer' \in [Ctx -> {"forever", "timed", "expired"}]
  BY <1>4 DEF ShutdownCall, ControlInv, ContextsOK
<1> QED BY <1>1, <1>3, <1>5 DEF ControlInv, TasksOK, PoolOK, FlagsOK, NumbersOK, ContextsOK,
     ShutdownCall, poolVars

LEMMA ShutdownWakeStep ==
  ASSUME ControlInv, NEW c \in Ctx, ShutdownWake(c) PROVE ControlInv'
<1>1. /\ pc[c] = "sdLoop" /\ ShutdownLoop(c, xstate, FALSE)
      /\ Shape(pc, arg, known, queue, stack, todo) /\ xstate \in RUNNING..STOPPED
  BY DEF ShutdownWake, ControlInv, PoolOK, NumbersOK
<1>2. /\ hstate' \in [Tasks -> QUEUED..CANCELLED]
      /\ cancelReq' \in [Tasks -> BOOLEAN]
      /\ outstanding' \in Nat /\ queue' \in Seq(Tasks)
      /\ xstate' \in RUNNING..STOPPED
      /\ Shape(pc', arg, known, queue', stack, todo)
  BY <1>1, LoopFacts
<1> QED BY <1>2 DEF ControlInv, TasksOK, PoolOK, FlagsOK, NumbersOK, ContextsOK,
     ShutdownWake, poolVars

LEMMA ShutdownFinalStep ==
  ASSUME ControlInv, NEW c \in Ctx, ShutdownFinal(c) PROVE ControlInv'
<1>1. /\ known \in SUBSET Tasks /\ <<>> \in Seq(Tasks)
      /\ stack \in [Workers -> Seq(Tasks)]
      /\ Shape(pc, arg, known, <<>>, stack, todo)
  BY DEF ControlInv, TasksOK, ContextsOK, Shape, QueueOK
<1>2. Shape([pc EXCEPT ![c] = "run"], arg, known, <<>>, stack, todo)
  BY <1>1, BodyMove DEF ShutdownFinal, ClientPCs, BodyPCs, StopPCs, StartPCs, WaitPCs
<1>3. Shape(pc', arg, known, queue', stack, todo)
  BY <1>1, <1>2, WakeShape DEF ShutdownFinal
<1>4. FlagsOK'
  BY DEF FlagsOK, ShutdownFinal
<1>5. NumbersOK'
  BY <1>1 DEF ControlInv, PoolOK, NumbersOK, ShutdownFinal, confVars, RUNNING, STOPPED
<1>6. TasksOK' /\ ContextsOK'
  BY DEF ControlInv, TasksOK, ContextsOK, ShutdownFinal, taskVars
<1> QED BY <1>3, <1>4, <1>5, <1>6 DEF ControlInv, PoolOK, ShutdownFinal, taskVars

LEMMA DeadlineStep ==
  ASSUME ControlInv, NEW c \in Ctx, DeadlineExpires(c) PROVE ControlInv'
<1>1. Shape(pc', arg, known, queue, stack, todo)
  BY BodyMove DEF ControlInv, TasksOK, PoolOK, NumbersOK, ContextsOK,
     DeadlineExpires, ClientPCs, BodyPCs, StopPCs, StartPCs, WaitPCs
<1>2. timer' \in [Ctx -> {"forever", "timed", "expired"}]
  BY DEF ControlInv, ContextsOK, DeadlineExpires
<1> QED BY <1>1, <1>2 DEF ControlInv, TasksOK, PoolOK, FlagsOK, NumbersOK, ContextsOK,
     DeadlineExpires, taskVars, poolVars

LEMMA SpuriousWakeStep ==
  ASSUME ControlInv, NEW c \in Ctx, SpuriousWake(c) PROVE ControlInv'
<1>1. /\ known \in SUBSET Tasks /\ queue \in Seq(Tasks)
      /\ stack \in [Workers -> Seq(Tasks)]
      /\ Shape(pc, arg, known, queue, stack, todo) /\ PcOK(pc)
  BY DEF ControlInv, TasksOK, PoolOK, NumbersOK, ContextsOK, Shape
<1>2. pc' = [pc EXCEPT ![c] = Resume(pc[c])] /\ pc[c] \in AllPCs
  BY <1>1 DEF SpuriousWake, PcOK
<1>3. PcOK(pc') /\ \A d \in Ctx : pc'[d] = IF d = c THEN Resume(pc[c]) ELSE pc[d]
  <2>1. /\ Resume(pc[c]) \in AllPCs
        /\ c \in Workers => Resume(pc[c]) \in WorkerPCs
        /\ c \in Clients => Resume(pc[c]) \in ClientPCs
        /\ c \in Tasks => Resume(pc[c]) \in TaskPCs
    BY <1>1, <1>2, ResumeFacts DEF PcOK
  <2>2. PcOK([pc EXCEPT ![c] = Resume(pc[c])])
    BY <1>1, <2>1, MovePc
  <2>3. \A d \in Ctx : pc'[d] = IF d = c THEN Resume(pc[c]) ELSE pc[d]
    BY <1>1, <1>2 DEF PcOK
  <2> QED BY <1>2, <2>2, <2>3
<1>4. \A d \in Ctx : /\ pc'[d] \in StartPCs => pc[d] \in StartPCs
                     /\ pc'[d] \in WaitPCs => pc[d] \in WaitPCs
                     /\ pc[d] \in NestedPCs => pc'[d] \in NestedPCs
                     /\ pc[d] = "off" <=> pc'[d] = "off"
                     /\ pc[d] = "busy" <=> pc'[d] = "busy"
  BY <1>2, <1>3, ResumeFacts
<1>5. Shape(pc', arg, known, queue, stack, todo)
  BY <1>1, <1>3, <1>4, SameShape
<1> QED BY <1>5 DEF ControlInv, TasksOK, PoolOK, FlagsOK, NumbersOK, ContextsOK,
     SpuriousWake, taskVars, poolVars

LEMMA UnchangedStep ==
  ASSUME ControlInv, UNCHANGED vars PROVE ControlInv'
BY DEF ControlInv, TasksOK, PoolOK, FlagsOK, NumbersOK, ContextsOK,
     vars

LEMMA NextControlInv ==
  ASSUME ControlInv, [Next]_vars PROVE ControlInv'
<1>1. ASSUME NEW c \in Ctx, Call(c) PROVE ControlInv'
  <2>1. PICK o \in todo[c] :
          \/ QueryCall(c, o) \/ StartCall(c, o) \/ CancelCall(c, o)
          \/ WaitCall(c, o) \/ ShutdownIdle(c, o) \/ ShutdownCall(c, o)
          \/ ResetCall(c, o) \/ ConfigureCall(c, o)
    BY <1>1 DEF Call
  <2> QED BY <2>1, QueryStep, StartCallStep, CancelStep, WaitCallStep,
             ShutdownIdleStep, ShutdownCallStep, ResetStep, ConfigureStep
<1>2. ASSUME NEW c \in Ctx, Step(c) PROVE ControlInv'
  BY <1>1, <1>2, StartInitStep, EnqueueRefusedStep, EnqueuePushStep,
     EnqueueAssistStep, EnqueueWaitStep, WaitReturnStep, WaitAssistStep,
     WaitParkStep, WaitPassCancelStep, ShutdownWakeStep, ShutdownFinalStep DEF Step
<1>3. ASSUME NEW w \in Workers, WorkerStep(w) PROVE ControlInv'
  BY <1>3, WorkerPopStep, WorkerParkStep, WorkerLeaveStep DEF WorkerStep
<1>4. ASSUME NEW t \in Tasks, ExecStep(t) PROVE ControlInv'
  BY <1>4, ExecBeginStep, BodyReturnStep, BodyFinishStep, ExecEndStep DEF ExecStep
<1>5. CASE UNCHANGED vars
  BY <1>5, UnchangedStep
<1>6. CASE Next
  BY <1>2, <1>3, <1>4, <1>6, DeadlineStep, SpuriousWakeStep DEF Next
<1> QED BY <1>5, <1>6

\* The control state of the executor keeps its shape, whatever the threads do.
THEOREM ControlInvariant == Spec => []ControlInv
<1>1. Init => ControlInv
  BY InitControlInv
<1>2. ControlInv /\ [Next]_vars => ControlInv'
  BY NextControlInv
<1> QED BY <1>1, <1>2, PTL DEF Spec

\* Every variable of the executor keeps its type: in particular a finished
\* task always finds a context that executes it to return to.
THEOREM TypeCorrect == Spec => []TypeOK
<1>1. ControlInv => TypeOK
  BY ControlInvTypeOK
<1> QED BY <1>1, ControlInvariant, PTL

-----------------------------------------------------------------------------
(* The invariants *)

\* A header is in the state its place says: untouched until its start has
\* returned, QUEUED in the queue, EXECUTING in its body, not QUEUED after it.
HeaderInv ==
  /\ \A t \in Tasks \ known : hstate[t] = QUEUED /\ ~cancelReq[t]
  /\ \A i \in 1..Len(queue) : hstate[queue[i]] = QUEUED
  /\ \A t \in Tasks : pc[t] \in BodyPCs => hstate[t] = EXECUTING
  /\ \A t \in Tasks : pc[t] = "end" => hstate[t] # QUEUED

\* What one step may do to the header of t
HeaderMove(t) ==
  \/ hstate'[t] = hstate[t] /\ (t \in known' <=> t \in known)
  \/ t \notin known /\ t \in known' /\ hstate'[t] \in {QUEUED, CANCELLED}
  \/ /\ t \in known /\ t \in known'
     /\ \/ hstate[t] = QUEUED /\ ~cancelReq[t] /\ hstate'[t] = EXECUTING
        \/ hstate[t] = EXECUTING /\ ~cancelReq[t] /\ hstate'[t] = COMPLETED
        \/ hstate[t] < COMPLETED /\ hstate'[t] = CANCELLED

HeaderMoves ==
  /\ \A t \in Tasks : HeaderMove(t)
  /\ \A t \in Tasks : cancelReq[t] => cancelReq'[t]
  /\ \A t \in Tasks : cancelReq'[t] => cancelReq[t] \/ t \in known

\* Between the control states p and r no task enters or leaves its body.
Calm(p, r) ==
  \A t \in Tasks : /\ r[t] \in BodyPCs => p[t] \in BodyPCs
                   /\ r[t] = "end" => p[t] = "end"

-----------------------------------------------------------------------------
(* Control points *)

\* What ControlInv says of the variables, one by one
LEMMA ControlFacts ==
  ASSUME ControlInv
  PROVE  /\ hstate \in [Tasks -> QUEUED..CANCELLED]
         /\ cancelReq \in [Tasks -> BOOLEAN]
         /\ known \in SUBSET Tasks
         /\ queue \in Seq(Tasks)
         /\ xstate \in RUNNING..STOPPED
         /\ live \in Nat /\ outstanding \in Nat /\ capacity \in Nat
         /\ confWorkers \in Nat /\ confCapacity \in Nat
         /\ initialized \in BOOLEAN /\ initFailed \in BOOLEAN
         /\ pc \in [Ctx -> AllPCs]
         /\ \A w \in Workers : pc[w] \in WorkerPCs
         /\ \A c \in Clients : pc[c] \in ClientPCs
         /\ \A t \in Tasks : pc[t] \in TaskPCs
         /\ arg \in [Ctx -> Tasks \cup {None}]
         /\ stack \in [Workers -> Seq(Tasks)]
         /\ todo \in [Ctx -> SUBSET Ops]
         /\ timer \in [Ctx -> {"forever", "timed", "expired"}]
         /\ \A t \in Tasks : pc[t] # "off" => t \in known
         /\ \A i \in 1..Len(queue) : queue[i] \in known /\ pc[queue[i]] = "off"
         /\ \A c \in Ctx : pc[c] \in StartPCs => arg[c] \in Tasks \ known
         /\ \A c \in Ctx : pc[c] \in WaitPCs => arg[c] \in known
<1>1. TasksOK /\ PoolOK /\ ContextsOK /\ Shape(pc, arg, known, queue, stack, todo)
  BY DEF ControlInv
<1>2. \A t \in Tasks : pc[t] # "off" => t \in known
  <2>1. SUFFICES ASSUME NEW t \in Tasks, pc[t] # "off" PROVE t \in known
    OBVIOUS
  <2>2. PICK w \in Workers : \E i \in 1..Len(stack[w]) : stack[w][i] = t
    BY <1>1, <2>1 DEF Shape, StackOK
  <2>3. PICK i \in 1..Len(stack[w]) : stack[w][i] = t
    BY <2>2
  <2>4. stack[w][i] \in known
    BY <1>1 DEF Shape, StackOK
  <2> QED BY <2>3, <2>4
<1>3. \A i \in 1..Len(queue) : queue[i] \in known /\ pc[queue[i]] = "off"
  BY <1>1 DEF Shape, QueueOK
<1>4. /\ \A c \in Ctx : pc[c] \in StartPCs => arg[c] \in Tasks \ known
      /\ \A c \in Ctx : pc[c] \in WaitPCs => arg[c] \in known
  BY <1>1 DEF Shape, ArgOK
<1>5. /\ pc \in [Ctx -> AllPCs]
      /\ \A w \in Workers : pc[w] \in WorkerPCs
      /\ \A c \in Clients : pc[c] \in ClientPCs
      /\ \A t \in Tasks : pc[t] \in TaskPCs
  BY <1>1 DEF Shape, PcOK
<1> QED BY <1>1, <1>2, <1>3, <1>4, <1>5
        DEF TasksOK, PoolOK, FlagsOK, NumbersOK, ContextsOK

\* What a broadcast does to one control point
LEMMA ResumeKinds ==
  ASSUME NEW p \in AllPCs
  PROVE  /\ Resume(p) \in AllPCs
         /\ Resume(p) \notin Parked
         /\ p \in BodyPCs <=> Resume(p) \in BodyPCs
         /\ p \in StopPCs <=> Resume(p) \in StopPCs
         /\ p \in {"sdLoop", "sdPark"} <=> Resume(p) \in {"sdLoop", "sdPark"}
         /\ \A x \in {"gone", "busy", "off", "begin", "end", "run", "sdFinal"} :
              p = x <=> Resume(p) = x
BY DEF Resume, AllPCs, WorkerPCs, TaskPCs, BodyPCs, StartPCs, WaitPCs, StopPCs,
       Parked

LEMMA WakeKinds ==
  ASSUME NEW p \in [Ctx -> AllPCs]
  PROVE  /\ Wake(p) \in [Ctx -> AllPCs]
         /\ \A c \in Ctx :
              /\ Wake(p)[c] \notin Parked
              /\ p[c] \in BodyPCs <=> Wake(p)[c] \in BodyPCs
              /\ p[c] \in StopPCs <=> Wake(p)[c] \in StopPCs
              /\ p[c] \in {"sdLoop", "sdPark"} <=> Wake(p)[c] \in {"sdLoop", "sdPark"}
              /\ \A x \in {"gone", "busy", "off", "begin", "end", "run", "sdFinal"} :
                   p[c] = x <=> Wake(p)[c] = x
<1>1. \A c \in Ctx : Wake(p)[c] = Resume(p[c]) /\ p[c] \in AllPCs
  BY DEF Wake
<1>2. \A c \in Ctx : Resume(p[c]) \in AllPCs
  BY <1>1, ResumeKinds
<1>3. Wake(p) \in [Ctx -> AllPCs]
  BY <1>2 DEF Wake
<1>4. SUFFICES ASSUME NEW c \in Ctx
      PROVE  /\ Wake(p)[c] \notin Parked
             /\ p[c] \in BodyPCs <=> Wake(p)[c] \in BodyPCs
             /\ p[c] \in StopPCs <=> Wake(p)[c] \in StopPCs
             /\ p[c] \in {"sdLoop", "sdPark"} <=> Wake(p)[c] \in {"sdLoop", "sdPark"}
             /\ \A x \in {"gone", "busy", "off", "begin", "end", "run", "sdFinal"} :
                  p[c] = x <=> Wake(p)[c] = x
  BY <1>3
<1>5. Wake(p)[c] = Resume(p[c]) /\ p[c] \in AllPCs
  BY <1>1
<1> QED BY ONLY <1>5, ResumeKinds

\* A broadcast begins and ends no body.
LEMMA WakeCalm ==
  ASSUME NEW p, NEW r \in [Ctx -> AllPCs], Calm(p, r)
  PROVE  Calm(p, Wake(r))
BY WakeKinds DEF Calm, Ctx

\* Nor does a context that goes on inside its body or outside of any.
LEMMA MoveCalm ==
  ASSUME NEW p \in [Ctx -> AllPCs], NEW c \in Ctx, NEW x \in AllPCs,
         x \in BodyPCs => p[c] \in BodyPCs \/ c \notin Tasks,
         x = "end" => p[c] = "end"
  PROVE  [p EXCEPT ![c] = x] \in [Ctx -> AllPCs] /\ Calm(p, [p EXCEPT ![c] = x])
BY DEF Calm, Ctx

LEMMA CalmTrans ==
  ASSUME NEW p, NEW q, NEW r, Calm(p, q), Calm(q, r) PROVE Calm(p, r)
BY DEF Calm

\* A step that begins and ends no body, touches no header and adds nothing to
\* the queue says nothing new of the headers.
LEMMA CalmHeader ==
  ASSUME HeaderInv, Calm(pc, pc'), UNCHANGED taskVars,
         \A i \in 1..Len(queue') : \E j \in 1..Len(queue) : queue'[i] = queue[j]
  PROVE  HeaderInv' /\ HeaderMoves
<1>1. HeaderMoves
  BY DEF HeaderMoves, HeaderMove, taskVars
<1>2. HeaderInv'
  BY DEF HeaderInv, Calm, taskVars
<1> QED BY <1>1, <1>2

-----------------------------------------------------------------------------
(* The control points after the composite steps *)

\* The pool may come to life, and the caller goes on at x.
LEMMA InitMove ==
  ASSUME ControlInv, NEW c \in Ctx \ Workers, NEW x \in BodyPCs, pc[c] \in BodyPCs,
         InitReturns1(c, x) \/ InitReturns0(c, x)
  PROVE  /\ Calm(pc, pc')
         /\ queue' = queue \/ queue' = <<>>
<1>1. pc \in [Ctx -> AllPCs] /\ x \in AllPCs /\ x # "end"
  BY ControlFacts DEF AllPCs, TaskPCs, BodyPCs, StartPCs, WaitPCs, StopPCs
<1> DEFINE p == [pc EXCEPT ![c] = x]
<1>2. p \in [Ctx -> AllPCs] /\ Calm(pc, p)
  BY <1>1, MoveCalm
<1>3. CASE pc' = p /\ (PoolUnchanged \/ PoolFails)
  BY <1>2, <1>3 DEF PoolUnchanged, PoolFails
<1>4. CASE \E S \in FreshPools : StartPool(S) /\ pc' = Wake(Spawned(S, p))
  <2>1. PICK S \in FreshPools : StartPool(S) /\ pc' = Wake(Spawned(S, p))
    BY <1>4
  <2>2. S \in SUBSET Workers
    BY DEF FreshPools
  <2> HIDE DEF p
  <2>3. Spawned(S, p) \in [Ctx -> AllPCs]
    BY <1>2, <2>2 DEF Spawned, AllPCs, WorkerPCs
  <2>4. Calm(p, Spawned(S, p))
    BY <2>2, ContextAssumption DEF Calm, Spawned, Ctx
  <2>5. Calm(pc, Spawned(S, p))
    BY <1>2, <2>4, CalmTrans
  <2> QED BY <2>1, <2>3, <2>5, WakeCalm DEF StartPool
<1> QED BY <1>3, <1>4 DEF InitReturns1, InitReturns0

\* Context c sets out to execute the oldest task of q.
LEMMA PopMove ==
  ASSUME ControlInv, NEW q \in Seq(Tasks), q # <<>>, NEW c \in Ctx,
         NEW x \in AllPCs, x \notin {"end"},
         x \in BodyPCs => pc[c] \in BodyPCs \/ c \notin Tasks,
         pc[Head(q)] = "off", pc[c] # "off",
         PopAndExecute(c, q, x)
  PROVE  /\ Calm(pc, pc')
         /\ \A d \in Ctx : pc'[d] \notin Parked
         /\ queue' = Tail(q)
         /\ \A i \in 1..Len(Tail(q)) : Tail(q)[i] = q[i + 1] /\ i + 1 \in 1..Len(q)
         /\ \E p \in [Ctx -> AllPCs] :
              /\ pc' = Wake(p)
              /\ \A d \in Ctx : p[d] = IF d = Head(q) THEN "begin"
                                       ELSE IF d = c THEN x ELSE pc[d]
<1>1. pc \in [Ctx -> AllPCs] /\ "begin" \in AllPCs /\ "begin" \notin BodyPCs
  BY ControlFacts DEF AllPCs, TaskPCs, BodyPCs, StartPCs, WaitPCs, StopPCs
<1>2. Head(q) \in Tasks /\ \A i \in 1..Len(Tail(q)) :
                              Tail(q)[i] = q[i + 1] /\ i + 1 \in 1..Len(q)
  OBVIOUS
<1> DEFINE r == [pc EXCEPT ![c] = x]
           p == [r EXCEPT ![Head(q)] = "begin"]
<1>3. r \in [Ctx -> AllPCs] /\ Calm(pc, r)
  BY <1>1, MoveCalm
<1>4. Head(q) # c /\ Head(q) \in Ctx
  BY <1>2 DEF Ctx
<1>5. p \in [Ctx -> AllPCs] /\ Calm(r, p)
  BY <1>1, <1>3, <1>4, MoveCalm
<1>6. queue' = Tail(q) /\ pc' = Wake(p)
  BY DEF PopAndExecute
<1>7. \A d \in Ctx : p[d] = IF d = Head(q) THEN "begin"
                            ELSE IF d = c THEN x ELSE pc[d]
  BY <1>1, <1>4
<1>8. Calm(pc, p)
  BY <1>3, <1>5, CalmTrans
<1> HIDE DEF p, r
<1>9. Calm(pc, pc') /\ \A d \in Ctx : pc'[d] \notin Parked
  BY <1>5, <1>6, <1>8, WakeCalm, WakeKinds
<1> QED BY <1>2, <1>5, <1>6, <1>7, <1>9

\* The context that executed t goes on.
LEMMA EndMove ==
  ASSUME ControlInv, NEW t \in Tasks, ExecEnd(t)
  PROVE  /\ Calm(pc, pc')
         /\ \A d \in Ctx : pc'[d] \notin Parked
         /\ pc'[t] = "off"
         /\ \E p \in [Ctx -> AllPCs], b \in Ctx :
              /\ pc' = Wake(p)
              /\ pc[b] \in NestedPCs \cup {"busy"} /\ b # t
              /\ \A d \in Ctx : p[d] = IF d = t THEN "off"
                                       ELSE IF d = b THEN AfterExecute(pc[b])
                                       ELSE pc[d]
<1>1. PICK w \in Workers :
        /\ Top(w) = t
        /\ LET n == Len(stack[w])
               below == IF n = 1 THEN w ELSE stack[w][n - 1]
           IN  pc' = Wake([pc EXCEPT ![t] = "off",
                                     ![below] = AfterExecute(pc[below])])
  BY DEF ExecEnd
<1> DEFINE n == Len(stack[w])
           b == IF n = 1 THEN w ELSE stack[w][n - 1]
           r == [pc EXCEPT ![t] = "off"]
           p == [r EXCEPT ![b] = AfterExecute(pc[b])]
<1>2. pc[t] = "end" /\ pc' = Wake(p)
  BY <1>1 DEF ExecEnd
<1>3. /\ pc \in [Ctx -> AllPCs] /\ \A v \in Workers : pc[v] \in WorkerPCs
      /\ stack \in [Workers -> Seq(Tasks)] /\ StackOK(pc, known, stack)
      /\ \A u \in Tasks : pc[u] \in TaskPCs
  BY ControlFacts DEF ControlInv, Shape
<1>4. stack[w] # <<>> /\ t = stack[w][n]
  BY <1>1, ContextAssumption DEF Top
<1>5. n \in Nat \ {0} /\ stack[w] \in Seq(Tasks)
  BY <1>3, <1>4
<1>6. \A k \in Nat \ {0} : k \in 1..k /\ (k # 1 => k - 1 \in 1..k /\ k - 1 < k /\ k - 1 # k)
  OBVIOUS
<1>7. n # 1 => n \in 1..n /\ n - 1 \in 1..n /\ n - 1 < n
  BY <1>5, <1>6
<1>8. /\ b \in Ctx /\ b # t /\ pc[b] \in NestedPCs \cup {"busy"}
      /\ b \in Tasks => pc[b] \in NestedPCs
  <2>1. b \in Ctx /\ b # t /\ pc[b] \in NestedPCs \cup {"busy"}
    <3>1. CASE n = 1
      <4>1. b = w /\ pc[w] = "busy" /\ w # t
        BY <1>3, <1>4, <3>1, ContextAssumption DEF StackOK
      <4> QED BY <4>1 DEF Ctx
    <3>2. CASE n # 1
      <4>1. n - 1 \in 1..n /\ n \in 1..n
        BY <1>7, <3>2
      <4>2. b = stack[w][n - 1] /\ b \in Tasks
        BY <1>5, <3>2, <4>1
      <4>3. pc[stack[w][n - 1]] \in NestedPCs
        BY <1>3, <1>7, <3>2 DEF StackOK
      <4> QED BY <1>2, <4>2, <4>3 DEF NestedPCs, Ctx
    <3> QED BY <3>1, <3>2
  <2>2. "busy" \notin TaskPCs
    BY DEF TaskPCs, BodyPCs, StartPCs, WaitPCs, StopPCs
  <2> HIDE DEF b
  <2> QED BY <1>3, <2>1, <2>2
<1> HIDE DEF b
<1>9. "off" \in AllPCs /\ "off" \notin BodyPCs /\ NestedPCs \subseteq BodyPCs
  BY DEF AllPCs, TaskPCs, BodyPCs, StartPCs, WaitPCs, StopPCs, NestedPCs
<1>10. /\ AfterExecute(pc[b]) \in {"idle", "wait", "enq"}
       /\ AfterExecute(pc[b]) \in AllPCs
  BY <1>8 DEF AfterExecute, NestedPCs, AllPCs, TaskPCs, BodyPCs, StartPCs, WaitPCs,
     WorkerPCs
<1>11. r \in [Ctx -> AllPCs] /\ Calm(pc, r) /\ t \in Ctx
  BY <1>3, <1>9, MoveCalm DEF Ctx
<1>12. r[b] = pc[b]
  BY <1>3, <1>8
<1>13. p \in [Ctx -> AllPCs] /\ Calm(r, p)
  BY <1>8, <1>9, <1>10, <1>11, <1>12, MoveCalm
<1>14. \A d \in Ctx : p[d] = IF d = t THEN "off"
                             ELSE IF d = b THEN AfterExecute(pc[b]) ELSE pc[d]
  BY <1>3, <1>8, <1>11
<1>15. Calm(pc, p)
  BY <1>11, <1>13, CalmTrans
<1> HIDE DEF p, r
<1>16. Calm(pc, pc') /\ \A d \in Ctx : pc'[d] \notin Parked
  BY <1>2, <1>13, <1>15, WakeCalm, WakeKinds
<1>17. pc'[t] = "off"
  BY <1>2, <1>11, <1>13, <1>14, WakeKinds
<1> QED BY <1>2, <1>8, <1>13, <1>14, <1>16, <1>17

-----------------------------------------------------------------------------
(* Every action preserves HeaderInv and moves headers as HeaderMoves allows *)

LEMMA QueryHeader ==
  ASSUME ControlInv, HeaderInv, NEW c \in Ctx, NEW o \in todo[c], QueryCall(c, o)
  PROVE  HeaderInv' /\ HeaderMoves
<1>1. c \notin Workers /\ pc[c] = "run"
  BY CallFacts DEF QueryCall
<1>2. "run" \in BodyPCs /\ (InitReturns1(c, "run") \/ InitReturns0(c, "run"))
  BY DEF BodyPCs, QueryCall
<1>3. Calm(pc, pc') /\ (queue' = queue \/ queue' = <<>>)
  BY <1>1, <1>2, InitMove
<1> QED BY <1>3, CalmHeader DEF QueryCall

LEMMA WaitCallHeader ==
  ASSUME ControlInv, HeaderInv, NEW c \in Ctx, NEW o \in todo[c], WaitCall(c, o)
  PROVE  HeaderInv' /\ HeaderMoves
<1>1. c \notin Workers /\ pc[c] = "run"
  BY CallFacts DEF WaitCall
<1>2. /\ "run" \in BodyPCs /\ "wait" \in BodyPCs
      /\ InitReturns1(c, "run") \/ InitReturns0(c, "run") \/ InitReturns1(c, "wait")
  BY DEF BodyPCs, WaitPCs, WaitCall
<1>3. Calm(pc, pc') /\ (queue' = queue \/ queue' = <<>>)
  BY <1>1, <1>2, InitMove
<1> QED BY <1>3, CalmHeader DEF WaitCall

LEMMA StartCallHeader ==
  ASSUME ControlInv, HeaderInv, NEW c \in Ctx, NEW o \in todo[c], StartCall(c, o)
  PROVE  HeaderInv' /\ HeaderMoves
<1>1. /\ o \in Ops /\ pc[c] = "run"
      /\ Shape(pc, arg, known, queue, stack, todo)
  BY CallFacts DEF StartCall, ControlInv
<1>2. o.task \in Tasks /\ o.task \notin known
  BY <1>1, OpsFacts DEF StartCall, Shape, TodoOK
<1>3. /\ hstate \in [Tasks -> QUEUED..CANCELLED] /\ cancelReq \in [Tasks -> BOOLEAN]
      /\ pc \in [Ctx -> AllPCs]
  BY ControlFacts
<1>4. hstate[o.task] = QUEUED /\ cancelReq[o.task] = FALSE
  BY <1>2 DEF HeaderInv
<1>5. UNCHANGED taskVars
  BY <1>3, <1>4 DEF StartCall, taskVars
<1>6. Calm(pc, pc')
  BY <1>1, <1>3, MoveCalm DEF StartCall, BodyPCs, StartPCs, AllPCs, TaskPCs
<1> QED BY <1>5, <1>6, CalmHeader DEF StartCall

\* A start returns: its header, new so far, is known, QUEUED in the queue or
\* CANCELLED outside of it.
LEMMA StartReturnsHeader ==
  ASSUME ControlInv, HeaderInv, NEW c \in Ctx, pc[c] \in StartPCs,
         NEW accepted \in BOOLEAN, StartReturns(c, accepted), UNCHANGED cancelReq,
         Calm(pc, pc'),
         \/ queue' = queue \/ queue' = <<>>
         \/ accepted /\ queue' = Append(queue, arg[c])
  PROVE  HeaderInv' /\ HeaderMoves
<1> DEFINE t == arg[c]
<1>1. /\ hstate \in [Tasks -> QUEUED..CANCELLED] /\ cancelReq \in [Tasks -> BOOLEAN]
      /\ known \in SUBSET Tasks /\ queue \in Seq(Tasks)
      /\ t \in Tasks /\ t \notin known
      /\ \A u \in Tasks : pc[u] # "off" => u \in known
      /\ \A i \in 1..Len(queue) : queue[i] \in known
  BY ControlFacts
<1>2. known' = known \cup {t} /\ cancelReq' = cancelReq
      /\ hstate' = IF accepted THEN hstate ELSE [hstate EXCEPT ![t] = CANCELLED]
  BY DEF StartReturns
<1>3. \/ queue' = queue \/ queue' = <<>>
      \/ hstate' = hstate /\ queue' = Append(queue, t)
  BY <1>2
<1> HIDE DEF t
<1>4. hstate[t] = QUEUED /\ ~cancelReq[t] /\ pc[t] = "off"
  BY <1>1 DEF HeaderInv
<1>5. /\ \A u \in Tasks : u # t => hstate'[u] = hstate[u]
      /\ hstate'[t] \in {QUEUED, CANCELLED}
  BY <1>1, <1>2, <1>4
<1>6. HeaderMoves
  BY <1>1, <1>2, <1>4, <1>5 DEF HeaderMoves, HeaderMove
<1>7. \A i \in 1..Len(queue') : hstate'[queue'[i]] = QUEUED
  <2>1. \A i \in 1..Len(queue) : queue[i] # t /\ hstate'[queue[i]] = QUEUED
    BY <1>1, <1>5 DEF HeaderInv
  <2>2. CASE queue' = queue \/ queue' = <<>>
    BY <2>1, <2>2
  <2>3. CASE hstate' = hstate /\ queue' = Append(queue, t)
    <3>1. \A i \in 1..Len(queue') :
            queue'[i] = t \/ (i \in 1..Len(queue) /\ queue'[i] = queue[i])
      BY <1>1, <2>3
    <3> QED BY <1>4, <2>1, <2>3, <3>1
  <2> QED BY <1>3, <2>2, <2>3
<1>8. t \in Tasks /\ pc'[t] \notin BodyPCs /\ pc'[t] # "end"
  BY <1>1, <1>4 DEF Calm, BodyPCs, StartPCs, WaitPCs, StopPCs
<1> QED BY <1>1, <1>2, <1>5, <1>6, <1>7, <1>8 DEF HeaderInv, Calm

LEMMA StartInitHeader ==
  ASSUME ControlInv, HeaderInv, NEW c \in Ctx, StartInit(c)
  PROVE  HeaderInv' /\ HeaderMoves
<1>1. /\ pc[c] = "init" /\ pc[c] \in StartPCs /\ pc[c] \in BodyPCs
      /\ "enq" \in BodyPCs /\ "run" \in BodyPCs /\ c \notin Workers
  BY ControlFacts DEF StartInit, StartPCs, BodyPCs, WorkerPCs
<1>2. CASE InitReturns1(c, "enq") /\ UNCHANGED <<hstate, known, arg>>
  BY <1>1, <1>2, InitMove, CalmHeader DEF StartInit, taskVars
<1>3. CASE InitReturns0(c, "run") /\ StartReturns(c, FALSE)
  BY <1>1, <1>3, InitMove, StartReturnsHeader DEF StartInit
<1> QED BY <1>2, <1>3 DEF StartInit

LEMMA EnqueueRefusedHeader ==
  ASSUME ControlInv, HeaderInv, NEW c \in Ctx, EnqueueRefused(c)
  PROVE  HeaderInv' /\ HeaderMoves
<1>1. pc[c] \in StartPCs /\ pc[c] \in BodyPCs /\ "run" \in BodyPCs /\ "run" \in AllPCs
  BY DEF EnqueueRefused, StartPCs, BodyPCs, AllPCs, TaskPCs
<1>2. Calm(pc, pc')
  BY <1>1, ControlFacts, MoveCalm DEF EnqueueRefused
<1> QED BY <1>1, <1>2, StartReturnsHeader DEF EnqueueRefused

LEMMA EnqueuePushHeader ==
  ASSUME ControlInv, HeaderInv, NEW c \in Ctx, EnqueuePush(c)
  PROVE  HeaderInv' /\ HeaderMoves
<1>1. pc[c] \in StartPCs /\ pc[c] \in BodyPCs /\ "run" \in BodyPCs /\ "run" \in AllPCs
  BY DEF EnqueuePush, EnqueueOpen, StartPCs, BodyPCs, AllPCs, TaskPCs
<1> DEFINE p == [pc EXCEPT ![c] = "run"]
<1>2. p \in [Ctx -> AllPCs] /\ Calm(pc, p)
  BY <1>1, ControlFacts, MoveCalm
<1>3. pc' = Wake(p)
  BY DEF EnqueuePush
<1> HIDE DEF p
<1>4. Calm(pc, pc')
  BY <1>2, <1>3, WakeCalm
<1> QED BY <1>1, <1>4, StartReturnsHeader DEF EnqueuePush

\* A context executes the oldest task of the queue.
LEMMA PopHeader ==
  ASSUME ControlInv, HeaderInv, UNCHANGED taskVars, queue # <<>>, NEW c \in Ctx,
         NEW x \in {"busy", "enqAssist", "waitAssist"},
         (c \in Workers /\ x = "busy") \/ pc[c] \in BodyPCs,
         PopAndExecute(c, queue, x)
  PROVE  HeaderInv' /\ HeaderMoves
<1>1. /\ queue \in Seq(Tasks) /\ pc[queue[1]] = "off"
      /\ \A w \in Workers : pc[w] \in WorkerPCs
  BY ControlFacts
<1>2. Head(queue) = queue[1]
  BY <1>1
<1>3. x \in AllPCs /\ x # "end" /\ pc[c] # "off" /\ (x = "busy" => x \notin BodyPCs)
  BY <1>1 DEF AllPCs, TaskPCs, WorkerPCs, BodyPCs, StartPCs, WaitPCs, StopPCs
<1>4. c \in Workers => c \notin Tasks
  BY ContextAssumption
<1>5. /\ Calm(pc, pc') /\ queue' = Tail(queue)
      /\ \A i \in 1..Len(Tail(queue)) :
           Tail(queue)[i] = queue[i + 1] /\ i + 1 \in 1..Len(queue)
  BY <1>1, <1>2, <1>3, <1>4, PopMove
<1> QED BY <1>5, CalmHeader

LEMMA EnqueueAssistHeader ==
  ASSUME ControlInv, HeaderInv, NEW c \in Ctx, EnqueueAssist(c)
  PROVE  HeaderInv' /\ HeaderMoves
BY PopHeader DEF EnqueueAssist, EnqueueOpen, EnqueueMayAssist, BodyPCs, StartPCs

LEMMA WaitAssistHeader ==
  ASSUME ControlInv, HeaderInv, NEW c \in Ctx, WaitAssist(c)
  PROVE  HeaderInv' /\ HeaderMoves
BY PopHeader DEF WaitAssist, WaitGoesOn, MayAssist, BodyPCs, WaitPCs

LEMMA WorkerPopHeader ==
  ASSUME ControlInv, HeaderInv, NEW w \in Workers, WorkerPop(w)
  PROVE  HeaderInv' /\ HeaderMoves
BY PopHeader DEF WorkerPop, Ctx

\* One context moves inside its body or outside of any, and wakes the others
\* or not.
LEMMA MoveHeader ==
  ASSUME ControlInv, HeaderInv, UNCHANGED taskVars, queue' = queue \/ queue' = <<>>,
         NEW c \in Ctx, NEW x \in AllPCs,
         x \in BodyPCs => pc[c] \in BodyPCs \/ c \notin Tasks,
         x = "end" => pc[c] = "end",
         \/ pc' = [pc EXCEPT ![c] = x]
         \/ pc' = Wake([pc EXCEPT ![c] = x])
  PROVE  HeaderInv' /\ HeaderMoves
<1> DEFINE p == [pc EXCEPT ![c] = x]
<1>1. p \in [Ctx -> AllPCs] /\ Calm(pc, p)
  BY ControlFacts, MoveCalm
<1>2. pc' = p \/ pc' = Wake(p)
  OBVIOUS
<1> HIDE DEF p
<1>3. Calm(pc, pc')
  BY <1>1, <1>2, WakeCalm
<1> QED BY <1>3, CalmHeader

\* Nobody moves, or everybody is woken.
LEMMA StillHeader ==
  ASSUME ControlInv, HeaderInv, UNCHANGED taskVars, queue' = queue,
         pc' = pc \/ pc' = Wake(pc)
  PROVE  HeaderInv' /\ HeaderMoves
<1>1. pc \in [Ctx -> AllPCs] /\ Calm(pc, pc)
  BY ControlFacts DEF Calm
<1>2. Calm(pc, pc')
  BY <1>1, WakeCalm
<1> QED BY <1>2, CalmHeader

LEMMA SleepHeader ==
  ASSUME ControlInv, HeaderInv, NEW c \in Ctx,
         EnqueueWait(c) \/ WaitReturn(c) \/ WaitPark(c)
  PROVE  HeaderInv' /\ HeaderMoves
<1>1. /\ pc[c] \in BodyPCs /\ {"enqPark", "run", "waitPark"} \subseteq BodyPCs \cap AllPCs
      /\ "end" \notin {"enqPark", "run", "waitPark"}
  BY DEF EnqueueWait, WaitReturn, WaitPark, EnqueueOpen, WaitGoesOn, BodyPCs,
     StartPCs, WaitPCs, AllPCs, TaskPCs
<1>2. UNCHANGED taskVars /\ queue' = queue
  BY DEF EnqueueWait, WaitReturn, WaitPark, taskVars
<1>3. \E x \in {"enqPark", "run", "waitPark"} : pc' = [pc EXCEPT ![c] = x]
  BY DEF EnqueueWait, WaitReturn, WaitPark
<1> QED BY <1>1, <1>2, <1>3, MoveHeader

LEMMA WorkerHeader ==
  ASSUME ControlInv, HeaderInv, NEW w \in Workers, WorkerPark(w) \/ WorkerLeave(w)
  PROVE  HeaderInv' /\ HeaderMoves
<1>1. w \in Ctx /\ {"idlePark", "gone"} \subseteq AllPCs \ BodyPCs
      /\ "end" \notin {"idlePark", "gone"}
  BY DEF Ctx, AllPCs, WorkerPCs, BodyPCs, StartPCs, WaitPCs, StopPCs
<1>2. UNCHANGED taskVars /\ queue' = queue
  BY DEF WorkerPark, WorkerLeave, taskVars
<1>3. \E x \in {"idlePark", "gone"} :
        pc' = [pc EXCEPT ![w] = x] \/ pc' = Wake([pc EXCEPT ![w] = x])
  BY DEF WorkerPark, WorkerLeave
<1> QED BY <1>1, <1>2, <1>3, MoveHeader

LEMMA ShutdownFinalHeader ==
  ASSUME ControlInv, HeaderInv, NEW c \in Ctx, ShutdownFinal(c)
  PROVE  HeaderInv' /\ HeaderMoves
<1>1. pc[c] \in BodyPCs /\ "run" \in BodyPCs \cap AllPCs
  BY DEF ShutdownFinal, BodyPCs, StopPCs, AllPCs, TaskPCs
<1> QED BY <1>1, MoveHeader DEF ShutdownFinal

LEMMA DeadlineHeader ==
  ASSUME ControlInv, HeaderInv, NEW c \in Ctx, DeadlineExpires(c)
  PROVE  HeaderInv' /\ HeaderMoves
<1>1. pc[c] \in BodyPCs /\ "sdLoop" \in BodyPCs \cap AllPCs
  BY DEF DeadlineExpires, BodyPCs, StopPCs, AllPCs, TaskPCs
<1> QED BY <1>1, MoveHeader DEF DeadlineExpires

LEMMA SpuriousWakeHeader ==
  ASSUME ControlInv, HeaderInv, NEW c \in Ctx, SpuriousWake(c)
  PROVE  HeaderInv' /\ HeaderMoves
<1>1. pc[c] \in AllPCs
  BY ControlFacts
<1>2. /\ Resume(pc[c]) \in AllPCs
      /\ Resume(pc[c]) \in BodyPCs => pc[c] \in BodyPCs
      /\ Resume(pc[c]) = "end" => pc[c] = "end"
  BY <1>1, ResumeKinds
<1> QED BY <1>2, MoveHeader DEF SpuriousWake

LEMMA StillCallHeader ==
  ASSUME ControlInv, HeaderInv, NEW c \in Ctx, NEW o,
         ShutdownIdle(c, o) \/ ResetCall(c, o) \/ ConfigureCall(c, o)
  PROVE  HeaderInv' /\ HeaderMoves
BY StillHeader DEF ShutdownIdle, ResetCall, ConfigureCall

\* meth_async_cancel_locked
LEMMA CancelLockedHeader ==
  ASSUME ControlInv, HeaderInv, NEW t \in known, CancelLocked(t), UNCHANGED known,
         Calm(pc, pc'),
         \A i \in 1..Len(queue') : \E j \in 1..Len(QueueAfterCancel(t)) :
           queue'[i] = QueueAfterCancel(t)[j]
  PROVE  HeaderInv' /\ HeaderMoves
<1>1. /\ hstate \in [Tasks -> QUEUED..CANCELLED] /\ cancelReq \in [Tasks -> BOOLEAN]
      /\ known \in SUBSET Tasks /\ queue \in Seq(Tasks)
      /\ \A u \in Tasks : pc[u] # "off" => u \in known
      /\ \A i \in 1..Len(queue) : pc[queue[i]] = "off"
      /\ QueueOK(pc, known, queue)
  BY ControlFacts DEF ControlInv, Shape
<1>2. cancelReq' = [cancelReq EXCEPT ![t] = TRUE]
  BY DEF CancelLocked
<1>3. CASE TakesOut(t)
  <2>1. PICK n \in 1..Len(queue) : queue[n] = t
    BY <1>3 DEF TakesOut, InQueue
  <2>2. \A i \in 1..Len(queue') :
          \E j \in 1..Len(queue) : queue'[i] = queue[j] /\ queue[j] # t
    <3>1. QueueAfterCancel(t) = QueueWithout(queue, t)
      BY <1>3 DEF QueueAfterCancel
    <3>2. (CHOOSE i \in 1..Len(queue) : queue[i] = t) = n
      BY <1>1, <2>1 DEF QueueOK
    <3>3. QueueWithout(queue, t) =
            [i \in 1..(Len(queue) - 1) |-> IF i < n THEN queue[i] ELSE queue[i + 1]]
      BY <3>2 DEF QueueWithout
    <3>4. Len(queue) \in Nat \ {0}
      BY <1>1, <2>1
    <3>5. Len(QueueWithout(queue, t)) = Len(queue) - 1
      BY <3>3, <3>4
    <3>6. ASSUME NEW j \in 1..(Len(queue) - 1)
          PROVE  \E m \in 1..Len(queue) :
                   QueueWithout(queue, t)[j] = queue[m] /\ queue[m] # t
      <4>1. CASE j < n
        <5>1. j \in 1..Len(queue) /\ j # n
          BY <2>1, <3>4, <4>1
        <5>2. QueueWithout(queue, t)[j] = queue[j]
          BY <3>3, <4>1
        <5> QED BY <1>1, <2>1, <5>1, <5>2 DEF QueueOK
      <4>2. CASE ~(j < n)
        <5>1. j + 1 \in 1..Len(queue) /\ j + 1 # n
          BY <2>1, <3>4, <4>2
        <5>2. QueueWithout(queue, t)[j] = queue[j + 1]
          BY <3>3, <4>2
        <5> QED BY <1>1, <2>1, <5>1, <5>2 DEF QueueOK
      <4> QED BY <4>1, <4>2
    <3>7. ASSUME NEW i \in 1..Len(queue')
          PROVE  \E j \in 1..Len(queue) : queue'[i] = queue[j] /\ queue[j] # t
      <4>1. PICK k \in 1..Len(QueueWithout(queue, t)) :
              queue'[i] = QueueWithout(queue, t)[k]
        BY <3>1
      <4>2. k \in 1..(Len(queue) - 1)
        BY <3>5
      <4> QED BY <3>6, <4>1, <4>2
    <3> QED BY <3>7
  <2>3. hstate' = [hstate EXCEPT ![t] = CANCELLED] /\ hstate[t] = QUEUED
        /\ pc[t] = "off" /\ t \in Tasks
    BY <1>1, <1>3, <2>1 DEF CancelLocked, TakesOut
  <2>4. HeaderMoves
    BY <1>1, <1>2, <2>3 DEF HeaderMoves, HeaderMove, QUEUED, COMPLETED
  <2>5. pc'[t] \notin BodyPCs /\ pc'[t] # "end"
    BY <2>3 DEF Calm, BodyPCs, StartPCs, WaitPCs, StopPCs
  <2>6. \A u \in Tasks : u # t => hstate'[u] = hstate[u]
    BY <1>1, <2>3
  <2>7. \A u \in Tasks \ known' : hstate'[u] = QUEUED /\ ~cancelReq'[u]
    BY <1>1, <1>2, <2>6 DEF HeaderInv
  <2>8. \A i \in 1..Len(queue') : hstate'[queue'[i]] = QUEUED
    <3>1. \A j \in 1..Len(queue) : queue[j] \in Tasks
      BY <1>1
    <3>2. \A j \in 1..Len(queue) : queue[j] # t => hstate'[queue[j]] = QUEUED
      BY <2>6, <3>1 DEF HeaderInv
    <3> QED BY ONLY <2>2, <3>2
  <2>9. \A u \in Tasks : /\ pc'[u] \in BodyPCs => hstate'[u] = EXECUTING
                         /\ pc'[u] = "end" => hstate'[u] # QUEUED
    BY <2>5, <2>6 DEF HeaderInv, Calm
  <2> QED BY <2>4, <2>7, <2>8, <2>9 DEF HeaderInv
<1>4. CASE ~TakesOut(t)
  <2>1. hstate' = hstate /\ QueueAfterCancel(t) = queue
    BY <1>4 DEF CancelLocked, QueueAfterCancel
  <2>2. HeaderMoves
    BY <1>1, <1>2, <2>1 DEF HeaderMoves, HeaderMove
  <2>3. \A u \in Tasks \ known' : hstate'[u] = QUEUED /\ ~cancelReq'[u]
    BY <1>1, <1>2, <2>1 DEF HeaderInv
  <2>4. \A i \in 1..Len(queue') : hstate'[queue'[i]] = QUEUED
    BY <2>1 DEF HeaderInv
  <2>5. \A u \in Tasks : /\ pc'[u] \in BodyPCs => hstate'[u] = EXECUTING
                         /\ pc'[u] = "end" => hstate'[u] # QUEUED
    BY <2>1 DEF HeaderInv, Calm
  <2> QED BY <2>2, <2>3, <2>4, <2>5 DEF HeaderInv
<1> QED BY <1>3, <1>4

LEMMA CancelCallHeader ==
  ASSUME ControlInv, HeaderInv, NEW c \in Ctx, NEW o \in todo[c], CancelCall(c, o)
  PROVE  HeaderInv' /\ HeaderMoves
<1>1. pc \in [Ctx -> AllPCs] /\ Calm(pc, pc)
  BY ControlFacts DEF Calm
<1>2. Calm(pc, pc')
  BY <1>1, WakeCalm DEF CancelCall
<1> QED BY <1>2, CancelLockedHeader DEF CancelCall

LEMMA WaitPassCancelHeader ==
  ASSUME ControlInv, HeaderInv, NEW c \in Ctx, WaitPassCancel(c)
  PROVE  HeaderInv' /\ HeaderMoves
<1> DEFINE q == QueueAfterCancel(arg[c])
<1>1. pc[c] = "wait" /\ pc[c] \in WaitPCs /\ pc[c] \in BodyPCs /\ c \in Tasks
  BY DEF WaitPassCancel, WaitGoesOn, PassesCancelOn, BodyPCs, WaitPCs
<1>2. pc \in [Ctx -> AllPCs] /\ arg[c] \in known /\ arg[c] \in Tasks
  BY <1>1, ControlFacts
<1>3. CancelLocked(arg[c]) /\ known' = known
  BY DEF WaitPassCancel
<1>4. q \in Seq(Tasks) /\ QueueOK(pc, known, q)
  BY <1>2, <1>3, CancelFacts
<1>5. \/ q # <<>> /\ PopAndExecute(c, q, "waitAssist")
      \/ queue' = q /\ pc' = [Wake(pc) EXCEPT ![c] = "waitPark"]
  BY DEF WaitPassCancel, MayAssist
<1> HIDE DEF q
<1>6. /\ {"waitAssist", "waitPark"} \subseteq AllPCs
      /\ "end" \notin {"waitAssist", "waitPark"} /\ pc[c] # "off"
  BY <1>1 DEF AllPCs, TaskPCs, BodyPCs, WaitPCs
<1>7. CASE q # <<>> /\ PopAndExecute(c, q, "waitAssist")
  <2>1. Head(q) = q[1] /\ 1 \in 1..Len(q)
    BY <1>4, <1>7
  <2>2. pc[Head(q)] = "off"
    BY <1>4, <2>1 DEF QueueOK
  <2>3. /\ Calm(pc, pc') /\ queue' = Tail(q)
        /\ \A i \in 1..Len(Tail(q)) : Tail(q)[i] = q[i + 1] /\ i + 1 \in 1..Len(q)
    BY <1>1, <1>4, <1>6, <1>7, <2>2, PopMove
  <2>4. \A i \in 1..Len(queue') : \E j \in 1..Len(q) : queue'[i] = q[j]
    BY <2>3
  <2> QED BY <1>2, <1>3, <2>3, <2>4, CancelLockedHeader DEF q
<1>8. CASE queue' = q /\ pc' = [Wake(pc) EXCEPT ![c] = "waitPark"]
  <2>1. Wake(pc) \in [Ctx -> AllPCs] /\ Calm(pc, Wake(pc)) /\ Wake(pc)[c] \in BodyPCs
    BY <1>1, <1>2, WakeKinds, WakeCalm DEF Calm
  <2>2. Calm(Wake(pc), pc')
    BY <1>6, <1>8, <2>1, MoveCalm
  <2>3. Calm(pc, pc')
    BY <2>1, <2>2, CalmTrans
  <2>4. \A i \in 1..Len(queue') : \E j \in 1..Len(q) : queue'[i] = q[j]
    BY <1>8
  <2> QED BY <1>2, <1>3, <2>3, <2>4, CancelLockedHeader DEF q
<1> QED BY <1>5, <1>7, <1>8

\* meth_async_execute_task decides whether the body runs.
LEMMA ExecBeginHeader ==
  ASSUME ControlInv, HeaderInv, NEW t \in Tasks, ExecBegin(t)
  PROVE  HeaderInv' /\ HeaderMoves
<1> DEFINE skipped == hstate[t] >= COMPLETED
           s == IF skipped THEN hstate[t]
                ELSE IF cancelReq[t] \/ xstate >= STOPPING THEN CANCELLED
                ELSE EXECUTING
<1>1. /\ hstate \in [Tasks -> QUEUED..CANCELLED] /\ pc \in [Ctx -> AllPCs]
      /\ pc[t] = "begin" /\ t \in known /\ t \in Ctx /\ known \in SUBSET Tasks
      /\ \A i \in 1..Len(queue) : queue[i] \in Tasks /\ queue[i] # t
  <2>1. pc[t] = "begin" /\ t \in Ctx
    BY DEF ExecBegin, Ctx
  <2> QED BY <2>1, ControlFacts
<1>2. /\ hstate' = [hstate EXCEPT ![t] = s]
      /\ pc' = [pc EXCEPT ![t] = IF s = EXECUTING THEN "run" ELSE "end"]
      /\ cancelReq' = cancelReq /\ known' = known /\ queue' = queue
  BY DEF ExecBegin
<1>3. /\ s \in {hstate[t], CANCELLED, EXECUTING}
      /\ s = EXECUTING => hstate[t] < COMPLETED /\ ~cancelReq[t]
      /\ s = CANCELLED => hstate[t] < COMPLETED \/ s = hstate[t]
      /\ s # QUEUED
  BY <1>1 DEF QUEUED, EXECUTING, COMPLETED, CANCELLED
<1> HIDE DEF s
<1>4. hstate[t] < COMPLETED => hstate[t] \in {QUEUED, EXECUTING}
  BY <1>1 DEF QUEUED, EXECUTING, COMPLETED, CANCELLED
<1>5. \A u \in Tasks : hstate'[u] = IF u = t THEN s ELSE hstate[u]
  BY <1>1, <1>2
<1>6. HeaderMoves
  <2>1. HeaderMove(t)
    BY <1>1, <1>2, <1>3, <1>4, <1>5 DEF HeaderMove
  <2>2. \A u \in Tasks : u # t => HeaderMove(u)
    BY <1>2, <1>5 DEF HeaderMove
  <2> QED BY <1>2, <2>1, <2>2 DEF HeaderMoves
<1>7. \A u \in Tasks : u # t => pc'[u] = pc[u]
  BY <1>1, <1>2 DEF Ctx
<1>8. pc'[t] = IF s = EXECUTING THEN "run" ELSE "end"
  BY <1>1, <1>2
<1>9. /\ \A u \in Tasks : pc'[u] \in BodyPCs => hstate'[u] = EXECUTING
      /\ \A u \in Tasks : pc'[u] = "end" => hstate'[u] # QUEUED
  <2>1. "end" \notin BodyPCs
    BY DEF BodyPCs, StartPCs, WaitPCs, StopPCs
  <2> QED BY <1>3, <1>5, <1>7, <1>8, <2>1 DEF HeaderInv
<1>10. \A u \in Tasks \ known' : hstate'[u] = QUEUED /\ ~cancelReq'[u]
  BY <1>1, <1>2, <1>5 DEF HeaderInv
<1>11. \A i \in 1..Len(queue') : hstate'[queue'[i]] = QUEUED
  BY <1>1, <1>2, <1>5 DEF HeaderInv
<1> QED BY <1>6, <1>9, <1>10, <1>11 DEF HeaderInv

\* The header of t, whose body runs or has returned, becomes final or stays.
LEMMA FinalHeader ==
  ASSUME ControlInv, HeaderInv, NEW t \in known, pc[t] # "off",
         hstate[t] # QUEUED, NEW s,
         \/ s = hstate[t]
         \/ hstate[t] < COMPLETED /\ s = FinalState(t),
         hstate' = [hstate EXCEPT ![t] = s], UNCHANGED <<cancelReq, known, queue>>,
         pc'[t] \in {"end", "off"},
         \A u \in Tasks \ {t} : /\ pc'[u] \in BodyPCs => pc[u] \in BodyPCs
                                /\ pc'[u] = "end" => pc[u] = "end"
  PROVE  HeaderInv' /\ HeaderMoves
<1>1. /\ hstate \in [Tasks -> QUEUED..CANCELLED]
      /\ t \in Tasks /\ known \in SUBSET Tasks
      /\ \A i \in 1..Len(queue) : queue[i] \in Tasks /\ queue[i] # t
  BY ControlFacts
<1>2. /\ s = COMPLETED => hstate[t] = s \/ (hstate[t] < COMPLETED /\ ~cancelReq[t])
      /\ s \in {hstate[t], COMPLETED, CANCELLED}
      /\ s = CANCELLED => hstate[t] = s \/ hstate[t] < COMPLETED
  BY DEF FinalState, COMPLETED, CANCELLED
<1>3. hstate[t] < COMPLETED => hstate[t] = EXECUTING
  BY <1>1 DEF QUEUED, EXECUTING, COMPLETED, CANCELLED
<1>4. s # QUEUED
  BY <1>1, <1>2 DEF QUEUED, EXECUTING, COMPLETED, CANCELLED
<1>5. \A u \in Tasks : hstate'[u] = IF u = t THEN s ELSE hstate[u]
  BY <1>1
<1>6. HeaderMoves
  <2>1. HeaderMove(t)
    BY <1>1, <1>2, <1>3, <1>5 DEF HeaderMove
  <2>2. \A u \in Tasks : u # t => HeaderMove(u)
    BY <1>5 DEF HeaderMove
  <2> QED BY <2>1, <2>2 DEF HeaderMoves
<1>7. /\ \A u \in Tasks : pc'[u] \in BodyPCs => hstate'[u] = EXECUTING
      /\ \A u \in Tasks : pc'[u] = "end" => hstate'[u] # QUEUED
  <2>1. "end" \notin BodyPCs /\ "off" \notin BodyPCs
    BY DEF BodyPCs, StartPCs, WaitPCs, StopPCs
  <2> QED BY <1>4, <1>5, <2>1 DEF HeaderInv
<1>8. \A u \in Tasks \ known' : hstate'[u] = QUEUED /\ ~cancelReq'[u]
  BY <1>1, <1>5 DEF HeaderInv
<1>9. \A i \in 1..Len(queue') : hstate'[queue'[i]] = QUEUED
  BY <1>1, <1>5 DEF HeaderInv
<1> QED BY <1>6, <1>7, <1>8, <1>9 DEF HeaderInv

LEMMA BodyReturnHeader ==
  ASSUME ControlInv, HeaderInv, NEW t \in Tasks, BodyReturn(t)
  PROVE  HeaderInv' /\ HeaderMoves
<1>1. /\ hstate \in [Tasks -> QUEUED..CANCELLED] /\ pc \in [Ctx -> AllPCs]
      /\ t \in known /\ t \in Ctx /\ pc[t] = "run" /\ "run" \in BodyPCs
  <2>1. pc[t] = "run" /\ "run" \in BodyPCs /\ t \in Ctx
    BY DEF BodyReturn, BodyPCs, Ctx
  <2> QED BY <2>1, ControlFacts
<1>2. hstate[t] # QUEUED
  BY <1>1 DEF HeaderInv, QUEUED, EXECUTING
<1>3. hstate' = [hstate EXCEPT ![t] = hstate[t]]
  BY <1>1 DEF BodyReturn, taskVars
<1>4. pc' = [pc EXCEPT ![t] = "end"]
  BY DEF BodyReturn
<1>5. pc'[t] = "end" /\ \A u \in Tasks \ {t} : pc'[u] = pc[u]
  BY <1>1, <1>4 DEF Ctx
<1> QED BY <1>1, <1>2, <1>3, <1>5, FinalHeader DEF BodyReturn, taskVars

LEMMA BodyFinishHeader ==
  ASSUME ControlInv, HeaderInv, NEW t \in Tasks, BodyFinish(t)
  PROVE  HeaderInv' /\ HeaderMoves
<1>1. /\ hstate \in [Tasks -> QUEUED..CANCELLED] /\ pc \in [Ctx -> AllPCs]
      /\ t \in known /\ t \in Ctx /\ pc[t] = "run" /\ "run" \in BodyPCs
  <2>1. pc[t] = "run" /\ "run" \in BodyPCs /\ t \in Ctx
    BY DEF BodyFinish, BodyPCs, Ctx
  <2> QED BY <2>1, ControlFacts
<1>2. hstate[t] = EXECUTING /\ hstate[t] # QUEUED /\ hstate[t] < COMPLETED
  BY <1>1 DEF HeaderInv, QUEUED, EXECUTING, COMPLETED
<1> DEFINE p == [pc EXCEPT ![t] = "end"]
<1>3. p \in [Ctx -> AllPCs] /\ p[t] = "end" /\ \A u \in Tasks \ {t} : p[u] = pc[u]
  BY <1>1 DEF AllPCs, TaskPCs, Ctx
<1>4. pc' = Wake(p)
  BY DEF BodyFinish
<1> HIDE DEF p
<1>5. /\ pc'[t] = "end"
      /\ \A u \in Tasks \ {t} : /\ pc'[u] \in BodyPCs => pc[u] \in BodyPCs
                                /\ pc'[u] = "end" => pc[u] = "end"
  <2>1. Tasks \subseteq Ctx
    BY DEF Ctx
  <2>2. \A u \in Tasks : /\ p[u] \in BodyPCs <=> pc'[u] \in BodyPCs
                         /\ p[u] = "end" <=> pc'[u] = "end"
    BY <1>3, <1>4, <2>1, WakeKinds
  <2> QED BY <1>3, <2>2
<1> QED BY <1>1, <1>2, <1>5, FinalHeader DEF BodyFinish

LEMMA ExecEndHeader ==
  ASSUME ControlInv, HeaderInv, NEW t \in Tasks, ExecEnd(t)
  PROVE  HeaderInv' /\ HeaderMoves
<1>1. t \in known /\ pc[t] = "end"
  BY ControlFacts DEF ExecEnd
<1>2. hstate[t] # QUEUED
  BY <1>1 DEF HeaderInv
<1>3. Calm(pc, pc') /\ pc'[t] = "off"
  BY EndMove
<1> DEFINE s == IF hstate[t] < COMPLETED THEN FinalState(t) ELSE hstate[t]
<1>4. hstate' = [hstate EXCEPT ![t] = s]
  BY DEF ExecEnd
<1>5. s = hstate[t] \/ (hstate[t] < COMPLETED /\ s = FinalState(t))
  OBVIOUS
<1> HIDE DEF s
<1>6. UNCHANGED <<cancelReq, known, queue>>
  BY DEF ExecEnd
<1>7. \A u \in Tasks \ {t} : /\ pc'[u] \in BodyPCs => pc[u] \in BodyPCs
                             /\ pc'[u] = "end" => pc[u] = "end"
  BY <1>3 DEF Calm
<1> QED BY <1>1, <1>2, <1>3, <1>4, <1>5, <1>6, <1>7, FinalHeader

\* The queue is aborted, when doIt holds: every task in it is cancelled.
LEMMA AbortHeader ==
  ASSUME ControlInv, HeaderInv, NEW doIt, AbortQueued(doIt), UNCHANGED known,
         Calm(pc, pc')
  PROVE  HeaderInv' /\ HeaderMoves
<1>1. /\ hstate \in [Tasks -> QUEUED..CANCELLED] /\ cancelReq \in [Tasks -> BOOLEAN]
      /\ known \in SUBSET Tasks
      /\ \A t \in Tasks : pc[t] # "off" => t \in known
      /\ \A i \in 1..Len(queue) : queue[i] \in known /\ pc[queue[i]] = "off"
  BY ControlFacts
<1>2. CASE doIt
  <2>1. /\ queue' = <<>>
        /\ \A t \in Tasks : hstate'[t] = IF InQueue(t) THEN CANCELLED ELSE hstate[t]
        /\ \A t \in Tasks : cancelReq'[t] = (cancelReq[t] \/ InQueue(t))
    BY <1>2 DEF AbortQueued
  <2>2. \A t \in Tasks : InQueue(t) => t \in known /\ pc[t] = "off" /\ hstate[t] = QUEUED
    BY <1>1 DEF InQueue, HeaderInv
  <2>3. QUEUED < COMPLETED
    BY DEF QUEUED, COMPLETED
  <2>4. HeaderMoves
    BY <2>1, <2>2, <2>3 DEF HeaderMoves, HeaderMove
  <2>5. "off" \notin BodyPCs
    BY DEF BodyPCs, StartPCs, WaitPCs, StopPCs
  <2>6. /\ \A t \in Tasks : pc'[t] \in BodyPCs => hstate'[t] = EXECUTING
        /\ \A t \in Tasks : pc'[t] = "end" => hstate'[t] # QUEUED
    BY <2>1, <2>2, <2>5 DEF HeaderInv, Calm
  <2>7. \A t \in Tasks \ known' : hstate'[t] = QUEUED /\ ~cancelReq'[t]
    BY <2>1, <2>2 DEF HeaderInv
  <2> QED BY <2>1, <2>4, <2>6, <2>7 DEF HeaderInv
<1>3. CASE ~doIt
  BY <1>3, CalmHeader DEF AbortQueued, taskVars
<1> QED BY <1>2, <1>3

\* One turn of the loop of shutdown
LEMMA LoopHeader ==
  ASSUME ControlInv, HeaderInv, NEW c \in Ctx, pc[c] \in {"run", "sdLoop"}, NEW x,
         NEW entered, ShutdownLoop(c, x, entered), UNCHANGED known
  PROVE  HeaderInv' /\ HeaderMoves
<1>1. PICK doIt : AbortQueued(doIt)
  BY DEF ShutdownLoop
<1>2. PICK y \in {"sdFinal", "run", "sdPark"} :
        pc' = [pc EXCEPT ![c] = y] \/ pc' = [Wake(pc) EXCEPT ![c] = y]
  BY DEF ShutdownLoop
<1>3. /\ y \in BodyPCs /\ y \in AllPCs /\ y # "end" /\ pc[c] \in BodyPCs
  BY DEF BodyPCs, StopPCs, AllPCs, TaskPCs
<1>4. pc \in [Ctx -> AllPCs] /\ Calm(pc, pc)
  BY ControlFacts DEF Calm
<1>5. Wake(pc) \in [Ctx -> AllPCs] /\ Calm(pc, Wake(pc)) /\ Wake(pc)[c] \in BodyPCs
  BY <1>3, <1>4, WakeKinds, WakeCalm
<1>6. CASE pc' = [pc EXCEPT ![c] = y]
  BY <1>1, <1>3, <1>4, <1>6, MoveCalm, AbortHeader
<1>7. CASE pc' = [Wake(pc) EXCEPT ![c] = y]
  <2>1. Calm(Wake(pc), pc')
    BY <1>3, <1>5, <1>7, MoveCalm
  <2> QED BY <1>1, <1>5, <2>1, CalmTrans, AbortHeader
<1> QED BY <1>2, <1>6, <1>7

LEMMA ShutdownCallHeader ==
  ASSUME ControlInv, HeaderInv, NEW c \in Ctx, NEW o, ShutdownCall(c, o)
  PROVE  HeaderInv' /\ HeaderMoves
BY LoopHeader DEF ShutdownCall, Calls

LEMMA ShutdownWakeHeader ==
  ASSUME ControlInv, HeaderInv, NEW c \in Ctx, ShutdownWake(c)
  PROVE  HeaderInv' /\ HeaderMoves
BY LoopHeader DEF ShutdownWake

LEMMA UnchangedHeader ==
  ASSUME ControlInv, HeaderInv, UNCHANGED vars
  PROVE  HeaderInv' /\ HeaderMoves
BY StillHeader DEF vars, taskVars

LEMMA InitHeader == Init => HeaderInv
<1> SUFFICES ASSUME Init PROVE HeaderInv
  OBVIOUS
<1>1. /\ \A t \in Tasks : hstate[t] = QUEUED /\ ~cancelReq[t] /\ pc[t] = "off"
      /\ queue = <<>>
  BY ContextAssumption DEF Init, Ctx
<1> QED BY <1>1 DEF HeaderInv, BodyPCs, StartPCs, WaitPCs, StopPCs

LEMMA NextHeader ==
  ASSUME ControlInv, HeaderInv, [Next]_vars PROVE HeaderInv' /\ HeaderMoves
<1>1. ASSUME NEW c \in Ctx, Call(c) PROVE HeaderInv' /\ HeaderMoves
  <2>1. PICK o \in todo[c] :
          \/ QueryCall(c, o) \/ StartCall(c, o) \/ CancelCall(c, o)
          \/ WaitCall(c, o) \/ ShutdownIdle(c, o) \/ ShutdownCall(c, o)
          \/ ResetCall(c, o) \/ ConfigureCall(c, o)
    BY <1>1 DEF Call
  <2> QED BY <2>1, QueryHeader, StartCallHeader, CancelCallHeader, WaitCallHeader,
             StillCallHeader, ShutdownCallHeader
<1>2. ASSUME NEW c \in Ctx, Step(c) PROVE HeaderInv' /\ HeaderMoves
  BY <1>1, <1>2, StartInitHeader, EnqueueRefusedHeader, EnqueuePushHeader,
     EnqueueAssistHeader, SleepHeader, WaitAssistHeader, WaitPassCancelHeader,
     ShutdownWakeHeader, ShutdownFinalHeader DEF Step
<1>3. ASSUME NEW w \in Workers, WorkerStep(w) PROVE HeaderInv' /\ HeaderMoves
  BY <1>3, WorkerPopHeader, WorkerHeader DEF WorkerStep
<1>4. ASSUME NEW t \in Tasks, ExecStep(t) PROVE HeaderInv' /\ HeaderMoves
  BY <1>4, ExecBeginHeader, BodyReturnHeader, BodyFinishHeader, ExecEndHeader
     DEF ExecStep
<1>5. CASE UNCHANGED vars
  BY <1>5, UnchangedHeader
<1>6. CASE Next
  BY <1>2, <1>3, <1>4, <1>6, DeadlineHeader, SpuriousWakeHeader DEF Next
<1> QED BY <1>5, <1>6

\* A header is always in the state that the place of its task tells: what the
\* unlocked start, the locked cancel, execute_task and finish write agree.
THEOREM HeaderInvariant == Spec => []HeaderInv
<1>1. Init => HeaderInv
  BY InitHeader
<1>2. HeaderInv /\ ControlInv /\ [Next]_vars => HeaderInv'
  BY NextHeader
<1> QED BY <1>1, <1>2, ControlInvariant, PTL DEF Spec

-----------------------------------------------------------------------------
(* The refinement of AsyncTaskLifecycle *)

LEMMA PhaseFacts ==
  ASSUME hstate \in [Tasks -> QUEUED..CANCELLED]
  PROVE  \A t \in Tasks :
           /\ PhaseOf(t) \in Lifecycle!Phases
           /\ PhaseOf(t) = "new" <=> t \notin known
           /\ t \in known => /\ hstate[t] = QUEUED    => PhaseOf(t) = "submitted"
                             /\ hstate[t] = EXECUTING => PhaseOf(t) = "running"
                             /\ hstate[t] = COMPLETED => PhaseOf(t) = "completed"
                             /\ hstate[t] = CANCELLED => PhaseOf(t) = "cancelled"
<1> SUFFICES ASSUME NEW t \in Tasks
    PROVE  /\ PhaseOf(t) \in Lifecycle!Phases
           /\ PhaseOf(t) = "new" <=> t \notin known
           /\ t \in known => /\ hstate[t] = QUEUED    => PhaseOf(t) = "submitted"
                             /\ hstate[t] = EXECUTING => PhaseOf(t) = "running"
                             /\ hstate[t] = COMPLETED => PhaseOf(t) = "completed"
                             /\ hstate[t] = CANCELLED => PhaseOf(t) = "cancelled"
  OBVIOUS
<1>1. \/ hstate[t] = QUEUED \/ hstate[t] = EXECUTING
      \/ hstate[t] = COMPLETED \/ hstate[t] = CANCELLED
  BY DEF QUEUED, EXECUTING, COMPLETED, CANCELLED
<1>2. /\ QUEUED # EXECUTING /\ QUEUED # COMPLETED /\ QUEUED # CANCELLED
      /\ EXECUTING # COMPLETED /\ EXECUTING # CANCELLED /\ COMPLETED # CANCELLED
  BY DEF QUEUED, EXECUTING, COMPLETED, CANCELLED
<1> QED BY <1>1, <1>2 DEF PhaseOf, Lifecycle!Phases

\* The phases after a step, of which PhaseFacts speaks in the same words
LEMMA NextPhaseFacts ==
  ASSUME hstate' \in [Tasks -> QUEUED..CANCELLED]
  PROVE  \A t \in Tasks :
           /\ PhaseOf(t)' \in Lifecycle!Phases
           /\ PhaseOf(t)' = "new" <=> t \notin known'
           /\ t \in known' => /\ hstate'[t] = QUEUED    => PhaseOf(t)' = "submitted"
                              /\ hstate'[t] = EXECUTING => PhaseOf(t)' = "running"
                              /\ hstate'[t] = COMPLETED => PhaseOf(t)' = "completed"
                              /\ hstate'[t] = CANCELLED => PhaseOf(t)' = "cancelled"
<1> SUFFICES ASSUME NEW t \in Tasks
    PROVE  /\ PhaseOf(t)' \in Lifecycle!Phases
           /\ PhaseOf(t)' = "new" <=> t \notin known'
           /\ t \in known' => /\ hstate'[t] = QUEUED    => PhaseOf(t)' = "submitted"
                              /\ hstate'[t] = EXECUTING => PhaseOf(t)' = "running"
                              /\ hstate'[t] = COMPLETED => PhaseOf(t)' = "completed"
                              /\ hstate'[t] = CANCELLED => PhaseOf(t)' = "cancelled"
  OBVIOUS
<1>1. \/ hstate'[t] = QUEUED \/ hstate'[t] = EXECUTING
      \/ hstate'[t] = COMPLETED \/ hstate'[t] = CANCELLED
  BY DEF QUEUED, EXECUTING, COMPLETED, CANCELLED
<1>2. /\ QUEUED # EXECUTING /\ QUEUED # COMPLETED /\ QUEUED # CANCELLED
      /\ EXECUTING # COMPLETED /\ EXECUTING # CANCELLED /\ COMPLETED # CANCELLED
  BY DEF QUEUED, EXECUTING, COMPLETED, CANCELLED
<1> QED BY <1>1, <1>2 DEF PhaseOf, Lifecycle!Phases

\* What a step does to a header is one of the moves of a task, or none.
LEMMA MovePhase ==
  ASSUME hstate \in [Tasks -> QUEUED..CANCELLED],
         hstate' \in [Tasks -> QUEUED..CANCELLED],
         NEW t \in Tasks, HeaderMove(t)
  PROVE  \/ PhaseOf(t) = "new" /\ PhaseOf(t)' \in {"submitted", "cancelled"}
         \/ PhaseOf(t) = "submitted" /\ ~cancelReq[t] /\ PhaseOf(t)' = "running"
         \/ PhaseOf(t) = "running" /\ ~cancelReq[t] /\ PhaseOf(t)' = "completed"
         \/ PhaseOf(t) \in {"submitted", "running"} /\ PhaseOf(t)' = "cancelled"
         \/ PhaseOf(t)' = PhaseOf(t)
<1>1. /\ PhaseOf(t) = "new" <=> t \notin known
      /\ t \in known => /\ hstate[t] = QUEUED    => PhaseOf(t) = "submitted"
                        /\ hstate[t] = EXECUTING => PhaseOf(t) = "running"
                        /\ hstate[t] = COMPLETED => PhaseOf(t) = "completed"
                        /\ hstate[t] = CANCELLED => PhaseOf(t) = "cancelled"
  BY PhaseFacts
<1>2. /\ PhaseOf(t)' = "new" <=> t \notin known'
      /\ t \in known' => /\ hstate'[t] = QUEUED    => PhaseOf(t)' = "submitted"
                         /\ hstate'[t] = EXECUTING => PhaseOf(t)' = "running"
                         /\ hstate'[t] = COMPLETED => PhaseOf(t)' = "completed"
                         /\ hstate'[t] = CANCELLED => PhaseOf(t)' = "cancelled"
  BY NextPhaseFacts
<1>3. /\ hstate[t] \in {QUEUED, EXECUTING, COMPLETED, CANCELLED}
      /\ hstate[t] < COMPLETED => hstate[t] \in {QUEUED, EXECUTING}
  BY DEF QUEUED, EXECUTING, COMPLETED, CANCELLED
<1>4. CASE hstate'[t] = hstate[t] /\ (t \in known' <=> t \in known)
  BY <1>1, <1>2, <1>3, <1>4
<1>5. CASE t \notin known /\ t \in known' /\ hstate'[t] \in {QUEUED, CANCELLED}
  BY <1>1, <1>2, <1>5
<1>6. CASE /\ t \in known /\ t \in known'
           /\ \/ hstate[t] = QUEUED /\ ~cancelReq[t] /\ hstate'[t] = EXECUTING
              \/ hstate[t] = EXECUTING /\ ~cancelReq[t] /\ hstate'[t] = COMPLETED
              \/ hstate[t] < COMPLETED /\ hstate'[t] = CANCELLED
  BY <1>1, <1>2, <1>3, <1>6
<1> QED BY <1>4, <1>5, <1>6 DEF HeaderMove

LEMMA RefinementStep ==
  ASSUME hstate \in [Tasks -> QUEUED..CANCELLED],
         hstate' \in [Tasks -> QUEUED..CANCELLED], HeaderMoves
  PROVE  Lifecycle!Move
<1> DEFINE phase == [t \in Tasks |-> PhaseOf(t)]
           asked == {t \in Tasks : cancelReq[t]}
<1>1. phase' \in [Tasks -> Lifecycle!Phases]
  BY NextPhaseFacts
<1>2. \A t \in Tasks : phase[t] = PhaseOf(t) /\ phase'[t] = PhaseOf(t)'
  OBVIOUS
<1>3. \A t \in Tasks : t \in asked <=> cancelReq[t]
  OBVIOUS
<1>4. asked \subseteq asked' /\ asked' \subseteq Tasks
  BY DEF HeaderMoves
<1>5. \A t \in asked' \ asked : t \in Tasks /\ t \in known
  BY DEF HeaderMoves
<1>6. \A t \in asked' \ asked : phase[t] # "new"
  BY <1>2, <1>5, PhaseFacts
<1> HIDE DEF phase, asked
<1>7. ASSUME NEW t \in Tasks
      PROVE  \/ phase[t] = "new" /\ phase'[t] = "submitted"
             \/ phase[t] = "new" /\ phase'[t] = "cancelled"
             \/ phase[t] = "submitted" /\ t \notin asked /\ phase'[t] = "running"
             \/ phase[t] = "running" /\ t \notin asked /\ phase'[t] = "completed"
             \/ phase[t] \in {"submitted", "running"} /\ phase'[t] = "cancelled"
             \/ phase'[t] = phase[t]
  <2>1. HeaderMove(t)
    BY DEF HeaderMoves
  <2>2. \/ PhaseOf(t) = "new" /\ PhaseOf(t)' \in {"submitted", "cancelled"}
        \/ PhaseOf(t) = "submitted" /\ ~cancelReq[t] /\ PhaseOf(t)' = "running"
        \/ PhaseOf(t) = "running" /\ ~cancelReq[t] /\ PhaseOf(t)' = "completed"
        \/ PhaseOf(t) \in {"submitted", "running"} /\ PhaseOf(t)' = "cancelled"
        \/ PhaseOf(t)' = PhaseOf(t)
    BY <2>1, MovePhase
  <2>3. phase[t] = PhaseOf(t) /\ phase'[t] = PhaseOf(t)' /\ (t \in asked <=> cancelReq[t])
    BY <1>2, <1>3
  <2> QED BY <2>2, <2>3
<1> QED BY <1>1, <1>4, <1>6, <1>7
        DEF Lifecycle!Move, Lifecycle!Submit, Lifecycle!Refuse, Lifecycle!Begin,
            Lifecycle!Complete, Lifecycle!CancelTask, Lifecycle!Stay, phase, asked

\* The pool keeps the promises of AsyncTaskLifecycle whatever its threads, its
\* size and its programs: no body begins twice or after a request to cancel it,
\* no terminal state changes, no cancelled task reports success.
THEOREM ExecutorImplementsLifecycle == Spec => ImplementsLifecycle
<1>1. Init => Lifecycle!Init
  BY DEF Init, Lifecycle!Init, PhaseOf
<1>2. ASSUME ControlInv, HeaderInv, [Next]_vars
      PROVE  [Lifecycle!Move]_(Lifecycle!vars)
  <2>1. ControlInv' /\ HeaderMoves
    BY <1>2, NextControlInv, NextHeader
  <2>2. /\ hstate \in [Tasks -> QUEUED..CANCELLED]
        /\ hstate' \in [Tasks -> QUEUED..CANCELLED]
    BY <1>2, <2>1 DEF ControlInv, TasksOK
  <2> QED BY <2>1, <2>2, RefinementStep
<1> QED BY <1>1, <1>2, ControlInvariant, HeaderInvariant, PTL
        DEF Spec, ImplementsLifecycle, Lifecycle!Spec

-----------------------------------------------------------------------------
(* No wake-up is lost *)

\* The part of NoLostWakeup that is about c
SleepsRightly(c) ==
  /\ pc[c] = "idlePark" => queue = <<>> /\ ~WorkerMayLeave
  /\ pc[c] = "enqPark"  => xstate = RUNNING /\ QueueFull
  /\ pc[c] = "sdPark"   => \/ ~Drained(xstate) /\ ~(xstate = STOPPING /\ live = 0)
                           \/ \E t \in Tasks : pc[t] = "end"
  /\ pc[c] = "waitPark" =>
       /\ xstate < STOPPING
       /\ \/ hstate[arg[c]] < COMPLETED
          \/ pc[arg[c]] = "end"
          \/ c \in Tasks /\ cancelReq[c]

LEMMA WakeupIsSleepsRightly == NoLostWakeup <=> \A c \in Ctx : SleepsRightly(c)
BY DEF NoLostWakeup, SleepsRightly

\* A step that changes nothing a sleeper waits for, but may make a task ready
\* to broadcast
Quiet ==
  /\ UNCHANGED <<queue, capacity, initialized, xstate, live>>
  /\ outstanding' = outstanding \/ \E t \in Tasks : pc'[t] = "end"
  /\ \A t \in Tasks : pc[t] = "end" => pc'[t] = "end"
  /\ \A t \in known : hstate[t] < COMPLETED => hstate'[t] < COMPLETED \/ pc'[t] = "end"
  /\ \A t \in Tasks : cancelReq[t] => cancelReq'[t]

\* After a broadcast nobody sleeps.
LEMMA AwakeWakeup ==
  ASSUME \A c \in Ctx : pc'[c] \notin Parked
  PROVE  NoLostWakeup'
BY DEF NoLostWakeup, Parked

LEMMA KeepsSleeping ==
  ASSUME ControlInv, Quiet, NEW d \in Ctx, SleepsRightly(d),
         pc'[d] = pc[d], arg'[d] = arg[d]
  PROVE  SleepsRightly(d)'
<1>1. pc[d] = "waitPark" => arg[d] \in known /\ arg[d] \in Tasks
  BY ControlFacts DEF WaitPCs
<1>2. CASE pc[d] = "idlePark"
  BY <1>2 DEF SleepsRightly, Quiet, WorkerMayLeave
<1>3. CASE pc[d] = "enqPark"
  BY <1>3 DEF SleepsRightly, Quiet, QueueFull
<1>4. CASE pc[d] = "sdPark"
  BY <1>4 DEF SleepsRightly, Quiet, Drained
<1>5. CASE pc[d] = "waitPark"
  BY <1>1, <1>5 DEF SleepsRightly, Quiet
<1>6. CASE pc[d] \notin {"idlePark", "enqPark", "sdPark", "waitPark"}
  BY <1>6 DEF SleepsRightly
<1> QED BY <1>2, <1>3, <1>4, <1>5, <1>6

\* One context moves in a quiet step; it does not sleep, or sleeps rightly.
LEMMA QuietWakeup ==
  ASSUME ControlInv, NoLostWakeup, Quiet, NEW c \in Ctx,
         \A d \in Ctx \ {c} : pc'[d] = pc[d] /\ arg'[d] = arg[d],
         pc'[c] \notin Parked \/ SleepsRightly(c)'
  PROVE  NoLostWakeup'
<1>1. \A d \in Ctx : SleepsRightly(d)
  BY WakeupIsSleepsRightly
<1>2. \A d \in Ctx \ {c} : SleepsRightly(d)'
  BY <1>1, KeepsSleeping
<1>3. SleepsRightly(c)'
  BY DEF SleepsRightly, Parked
<1>4. \A d \in Ctx : SleepsRightly(d)'
  BY <1>2, <1>3
<1> QED BY <1>4 DEF NoLostWakeup, SleepsRightly

\* The pool may come to life in the step of c; if it does, nobody sleeps.
LEMMA InitWakeup ==
  ASSUME ControlInv, NoLostWakeup, NEW c \in Ctx, NEW x \in AllPCs \ Parked,
         InitReturns1(c, x) \/ InitReturns0(c, x), pc[c] # "end",
         \A d \in Ctx \ {c} : arg'[d] = arg[d],
         \A t \in known : hstate'[t] = hstate[t],
         \A t \in Tasks : cancelReq[t] => cancelReq'[t]
  PROVE  NoLostWakeup'
<1> DEFINE p == [pc EXCEPT ![c] = x]
<1>1. pc \in [Ctx -> AllPCs] /\ known \in SUBSET Tasks
  BY ControlFacts
<1>2. CASE pc' = p /\ (PoolUnchanged \/ PoolFails)
  <2>1. Quiet
    BY <1>1, <1>2 DEF Quiet, PoolUnchanged, PoolFails, Ctx
  <2>2. pc'[c] = x /\ \A d \in Ctx \ {c} : pc'[d] = pc[d]
    BY <1>1, <1>2
  <2> QED BY <2>1, <2>2, QuietWakeup
<1>3. CASE \E S \in FreshPools : pc' = Wake(Spawned(S, p))
  <2>1. PICK S \in FreshPools : pc' = Wake(Spawned(S, p))
    BY <1>3
  <2>2. p \in [Ctx -> AllPCs]
    BY <1>1
  <2> HIDE DEF p
  <2>3. Spawned(S, p) \in [Ctx -> AllPCs]
    BY <2>2 DEF Spawned, AllPCs, WorkerPCs
  <2> QED BY <2>1, <2>3, WakeKinds, AwakeWakeup
<1> QED BY <1>2, <1>3 DEF InitReturns1, InitReturns0

LEMMA QueryWakeup ==
  ASSUME ControlInv, HeaderMoves, NoLostWakeup, NEW c \in Ctx, NEW o, QueryCall(c, o)
  PROVE  NoLostWakeup'
<1>1. pc[c] = "run" /\ "run" \in AllPCs \ Parked
  BY DEF QueryCall, Calls, AllPCs, TaskPCs, BodyPCs, Parked
<1> QED BY <1>1, InitWakeup DEF QueryCall, taskVars

LEMMA WaitCallWakeup ==
  ASSUME ControlInv, HeaderMoves, NoLostWakeup, NEW c \in Ctx, NEW o, WaitCall(c, o)
  PROVE  NoLostWakeup'
<1>1. pc[c] = "run" /\ {"run", "wait"} \subseteq AllPCs \ Parked
  BY DEF WaitCall, Calls, AllPCs, TaskPCs, BodyPCs, WaitPCs, Parked
<1>2. \A d \in Ctx \ {c} : arg'[d] = arg[d]
  BY ControlFacts DEF WaitCall
<1> QED BY <1>1, <1>2, InitWakeup DEF WaitCall, taskVars

\* What the return of a start does to the others
LEMMA StartReturnsOthers ==
  ASSUME ControlInv, NEW c \in Ctx, pc[c] \in StartPCs, NEW accepted,
         StartReturns(c, accepted)
  PROVE  /\ \A d \in Ctx \ {c} : arg'[d] = arg[d]
         /\ \A t \in known : hstate'[t] = hstate[t]
<1>1. /\ hstate \in [Tasks -> QUEUED..CANCELLED] /\ arg \in [Ctx -> Tasks \cup {None}]
      /\ known \in SUBSET Tasks /\ arg[c] \in Tasks \ known
  BY ControlFacts
<1> QED BY <1>1 DEF StartReturns

LEMMA StartInitWakeup ==
  ASSUME ControlInv, HeaderMoves, NoLostWakeup, NEW c \in Ctx, StartInit(c)
  PROVE  NoLostWakeup'
<1>1. /\ pc[c] = "init" /\ pc[c] \in StartPCs
      /\ {"run", "enq"} \subseteq AllPCs \ Parked
  BY DEF StartInit, AllPCs, TaskPCs, BodyPCs, StartPCs, Parked
<1>2. CASE InitReturns1(c, "enq") /\ UNCHANGED <<hstate, known, arg>>
  BY <1>1, <1>2, InitWakeup DEF HeaderMoves
<1>3. CASE InitReturns0(c, "run") /\ StartReturns(c, FALSE)
  BY <1>1, <1>3, InitWakeup, StartReturnsOthers DEF HeaderMoves
<1> QED BY <1>2, <1>3 DEF StartInit

LEMMA EnqueueRefusedWakeup ==
  ASSUME ControlInv, HeaderMoves, NoLostWakeup, NEW c \in Ctx, EnqueueRefused(c)
  PROVE  NoLostWakeup'
<1>1. pc[c] \in StartPCs /\ pc[c] # "end" /\ pc' = [pc EXCEPT ![c] = "run"]
  BY DEF EnqueueRefused, StartPCs
<1>2. pc \in [Ctx -> AllPCs] /\ known \in SUBSET Tasks
  BY ControlFacts
<1>3. /\ \A d \in Ctx \ {c} : arg'[d] = arg[d]
      /\ \A t \in known : hstate'[t] = hstate[t]
  BY <1>1, StartReturnsOthers DEF EnqueueRefused
<1>4. Quiet
  BY <1>1, <1>2, <1>3 DEF Quiet, EnqueueRefused, poolVars, Ctx, HeaderMoves
<1>5. pc'[c] \notin Parked
  BY <1>1, <1>2 DEF Parked
<1> QED BY <1>1, <1>2, <1>3, <1>4, <1>5, QuietWakeup

\* Context c goes from p to x, no task ends, nothing else moves.
LEMMA PlainWakeup ==
  ASSUME ControlInv, HeaderMoves, NoLostWakeup, NEW c \in Ctx, NEW x,
         pc' = [pc EXCEPT ![c] = x], pc[c] # "end",
         \A d \in Ctx \ {c} : arg'[d] = arg[d],
         UNCHANGED <<hstate, queue, capacity, initialized, xstate, live, outstanding>>,
         x \notin Parked \/ SleepsRightly(c)'
  PROVE  NoLostWakeup'
<1>1. pc \in [Ctx -> AllPCs] /\ known \in SUBSET Tasks
  BY ControlFacts
<1>2. Quiet
  BY <1>1 DEF Quiet, Ctx, HeaderMoves
<1> QED BY <1>1, <1>2, QuietWakeup

LEMMA StartCallWakeup ==
  ASSUME ControlInv, HeaderInv, HeaderMoves, NoLostWakeup, NEW c \in Ctx,
         NEW o \in todo[c], StartCall(c, o)
  PROVE  NoLostWakeup'
<1>1. o \in Ops /\ pc[c] = "run" /\ Shape(pc, arg, known, queue, stack, todo)
  BY CallFacts DEF StartCall, ControlInv
<1>2. o.task \in Tasks /\ o.task \notin known
  BY <1>1, OpsFacts DEF StartCall, Shape, TodoOK
<1>3. hstate[o.task] = QUEUED /\ hstate \in [Tasks -> QUEUED..CANCELLED]
        /\ arg \in [Ctx -> Tasks \cup {None}]
  BY <1>2, ControlFacts DEF HeaderInv
<1>4. hstate' = hstate /\ \A d \in Ctx \ {c} : arg'[d] = arg[d]
  BY <1>2, <1>3 DEF StartCall
<1> QED BY <1>1, <1>4, PlainWakeup DEF StartCall, poolVars, Parked

LEMMA EnqueueWaitWakeup ==
  ASSUME ControlInv, HeaderMoves, NoLostWakeup, NEW c \in Ctx, EnqueueWait(c)
  PROVE  NoLostWakeup'
<1>1. /\ pc[c] # "end" /\ pc' = [pc EXCEPT ![c] = "enqPark"] /\ pc \in [Ctx -> AllPCs]
      /\ xstate = RUNNING /\ QueueFull
  BY ControlFacts DEF EnqueueWait, EnqueueOpen
<1>2. SleepsRightly(c)'
  BY <1>1 DEF SleepsRightly, QueueFull, EnqueueWait, poolVars
<1> QED BY <1>1, <1>2, PlainWakeup DEF EnqueueWait, poolVars, taskVars

LEMMA WaitReturnWakeup ==
  ASSUME ControlInv, HeaderMoves, NoLostWakeup, NEW c \in Ctx, WaitReturn(c)
  PROVE  NoLostWakeup'
<1>1. \A d \in Ctx \ {c} : arg'[d] = arg[d]
  BY ControlFacts DEF WaitReturn
<1> QED BY <1>1, PlainWakeup DEF WaitReturn, poolVars, taskVars, Parked

LEMMA WaitParkWakeup ==
  ASSUME ControlInv, HeaderMoves, NoLostWakeup, NEW c \in Ctx, WaitPark(c)
  PROVE  NoLostWakeup'
<1>1. /\ pc[c] # "end" /\ pc' = [pc EXCEPT ![c] = "waitPark"] /\ pc \in [Ctx -> AllPCs]
      /\ xstate < STOPPING /\ hstate[arg[c]] < COMPLETED
  BY ControlFacts DEF WaitPark, WaitGoesOn
<1>2. SleepsRightly(c)'
  BY <1>1 DEF SleepsRightly, WaitPark, taskVars
<1> QED BY <1>1, <1>2, PlainWakeup DEF WaitPark, poolVars, taskVars

LEMMA WorkerParkWakeup ==
  ASSUME ControlInv, HeaderMoves, NoLostWakeup, NEW w \in Workers, WorkerPark(w)
  PROVE  NoLostWakeup'
<1>1. /\ w \in Ctx /\ pc[w] # "end" /\ pc' = [pc EXCEPT ![w] = "idlePark"]
      /\ pc \in [Ctx -> AllPCs] /\ queue = <<>> /\ ~WorkerMayLeave
  BY ControlFacts DEF WorkerPark, Ctx
<1>2. SleepsRightly(w)'
  BY <1>1 DEF SleepsRightly, WorkerPark, WorkerMayLeave, poolVars
<1> QED BY <1>1, <1>2, PlainWakeup DEF WorkerPark, poolVars, taskVars

LEMMA BodyReturnWakeup ==
  ASSUME ControlInv, HeaderMoves, NoLostWakeup, NEW t \in Tasks, BodyReturn(t)
  PROVE  NoLostWakeup'
BY PlainWakeup DEF BodyReturn, poolVars, taskVars, Parked, Ctx

LEMMA SpuriousWakeWakeup ==
  ASSUME ControlInv, HeaderMoves, NoLostWakeup, NEW c \in Ctx, SpuriousWake(c)
  PROVE  NoLostWakeup'
<1>1. pc[c] \in AllPCs /\ pc[c] # "end"
  BY ControlFacts DEF SpuriousWake, Parked
<1>2. Resume(pc[c]) \notin Parked
  BY <1>1, ResumeKinds
<1> QED BY <1>1, <1>2, PlainWakeup DEF SpuriousWake, poolVars, taskVars

LEMMA DeadlineWakeup ==
  ASSUME ControlInv, HeaderMoves, NoLostWakeup, NEW c \in Ctx, DeadlineExpires(c)
  PROVE  NoLostWakeup'
BY PlainWakeup DEF DeadlineExpires, poolVars, taskVars, Parked

LEMMA ConfigureWakeup ==
  ASSUME ControlInv, HeaderMoves, NoLostWakeup, NEW c \in Ctx, NEW o,
         ConfigureCall(c, o)
  PROVE  NoLostWakeup'
<1>1. pc' = [pc EXCEPT ![c] = pc[c]]
  BY ControlFacts DEF ConfigureCall
<1> QED BY <1>1, PlainWakeup DEF ConfigureCall, Calls, poolVars, taskVars, Parked

\* A task becomes terminal without a broadcast, and will broadcast as it ends.
LEMMA ExecBeginWakeup ==
  ASSUME ControlInv, HeaderMoves, NoLostWakeup, NEW t \in Tasks, ExecBegin(t)
  PROVE  NoLostWakeup'
<1> DEFINE s == hstate'[t]
<1>1. /\ pc \in [Ctx -> AllPCs] /\ hstate \in [Tasks -> QUEUED..CANCELLED]
      /\ t \in Ctx /\ known \in SUBSET Tasks /\ Tasks \subseteq Ctx
  BY ControlFacts DEF Ctx
<1>2. /\ pc[t] = "begin" /\ UNCHANGED <<queue, capacity, initialized, xstate, live, arg>>
      /\ pc' = [pc EXCEPT ![t] = IF s = EXECUTING THEN "run" ELSE "end"]
      /\ \A u \in Tasks : u # t => hstate'[u] = hstate[u]
      /\ outstanding' = CountedOut(outstanding, hstate[t], s)
  BY <1>1 DEF ExecBegin, poolVars
<1> HIDE DEF s
<1>3. s = EXECUTING => s < COMPLETED
  BY DEF EXECUTING, COMPLETED
<1>4. s = EXECUTING => outstanding' = outstanding
  BY <1>2 DEF CountedOut, EXECUTING, COMPLETED
<1>5. s # EXECUTING => pc'[t] = "end"
  BY <1>1, <1>2
<1>6. \A u \in Tasks : pc[u] = "end" => pc'[u] = "end"
  BY <1>1, <1>2
<1>7. \A u \in known : hstate[u] < COMPLETED => hstate'[u] < COMPLETED \/ pc'[u] = "end"
  BY <1>1, <1>2, <1>3, <1>5 DEF s
<1>8. Quiet
  BY <1>2, <1>4, <1>5, <1>6, <1>7 DEF Quiet, HeaderMoves
<1>9. pc'[t] \notin Parked /\ \A d \in Ctx \ {t} : pc'[d] = pc[d] /\ arg'[d] = arg[d]
  BY <1>1, <1>2 DEF Parked
<1> QED BY <1>1, <1>8, <1>9, QuietWakeup

\* Nobody sleeps but in a running or draining pool, except in a shutdown.
LEMMA ResetWakeup ==
  ASSUME ControlInv, HeaderMoves, NoLostWakeup, NEW c \in Ctx, NEW o, ResetCall(c, o)
  PROVE  NoLostWakeup'
<1>1. pc' = pc /\ arg' = arg /\ pc \in [Ctx -> AllPCs]
        /\ UNCHANGED <<hstate, queue, capacity, initialized, live, outstanding>>
  BY ControlFacts DEF ResetCall, taskVars
<1>2. CASE xstate' = xstate
  <2>1. pc' = [pc EXCEPT ![c] = pc[c]] /\ pc[c] = "run"
    BY <1>1 DEF ResetCall, Calls
  <2> QED BY <1>1, <1>2, <2>1, PlainWakeup DEF Parked
<1>3. CASE xstate = STOPPED /\ xstate' = RUNNING
  <2>1. \A d \in Ctx : pc[d] \notin {"idlePark", "enqPark", "waitPark"}
    BY <1>3 DEF NoLostWakeup, WorkerMayLeave, RUNNING, STOPPING, STOPPED
  <2>2. ~Drained(xstate)' /\ xstate' # STOPPING
    BY <1>3 DEF Drained, RUNNING, DRAINING, STOPPING
  <2> QED BY <1>1, <2>1, <2>2 DEF NoLostWakeup
<1> QED BY <1>2, <1>3 DEF ResetCall

LEMMA ShutdownIdleWakeup ==
  ASSUME ControlInv, HeaderMoves, NoLostWakeup, NEW c \in Ctx, NEW o,
         ShutdownIdle(c, o)
  PROVE  NoLostWakeup'
<1>1. pc \in [Ctx -> AllPCs] /\ pc[c] = "run"
  BY ControlFacts DEF ShutdownIdle, Calls
<1>2. CASE UNCHANGED <<xstate, initFailed, pc>>
  <2>1. pc' = [pc EXCEPT ![c] = pc[c]]
    BY <1>1, <1>2
  <2> QED BY <1>1, <1>2, <2>1, PlainWakeup DEF ShutdownIdle, taskVars, Parked
<1>3. CASE pc' = Wake(pc)
  BY <1>1, <1>3, WakeKinds, AwakeWakeup
<1> QED BY <1>2, <1>3 DEF ShutdownIdle

\* One turn of the loop of shutdown: it sleeps only if it has neither drained
\* nor stopped, and whatever it changes it broadcasts.
LEMMA LoopWakeup ==
  ASSUME ControlInv, HeaderMoves, NoLostWakeup, NEW c \in Ctx,
         pc[c] \in {"run", "sdLoop"}, NEW x \in RUNNING..STOPPED,
         NEW entered \in BOOLEAN, ShutdownLoop(c, x, entered),
         entered \/ x = xstate, UNCHANGED <<capacity, initialized, live, arg>>
  PROVE  NoLostWakeup'
<1> DEFINE expired == timer'[c] = "expired"
           givesUp == x = DRAINING /\ ~Drained(x) /\ expired
           y == IF Drained(x) \/ givesUp THEN STOPPING ELSE x
           finished == y = STOPPING /\ live = 0
           awake == IF entered \/ x # y THEN Wake(pc) ELSE pc
           z == IF finished THEN "sdFinal" ELSE IF expired THEN "run" ELSE "sdPark"
<1>1. /\ xstate' = y
      /\ AbortQueued(givesUp \/ (entered /\ x = STOPPING))
      /\ pc' = [awake EXCEPT ![c] = z]
  BY DEF ShutdownLoop
<1>2. DRAINING # STOPPING
  BY DEF DRAINING, STOPPING
<1>3. pc \in [Ctx -> AllPCs] /\ Wake(pc) \in [Ctx -> AllPCs]
        /\ \A d \in Ctx : Wake(pc)[d] \notin Parked
  BY ControlFacts, WakeKinds
<1>4. pc'[c] = z /\ \A d \in Ctx \ {c} : pc'[d] = awake[d]
  BY <1>1, <1>3
<1>5. ~givesUp /\ ~(entered /\ x = STOPPING) =>
        UNCHANGED <<queue, hstate, cancelReq, outstanding>>
  BY <1>1 DEF AbortQueued
<1>6. pc'[c] \notin Parked \/ SleepsRightly(c)'
  <2>1. CASE finished \/ expired
    BY <1>4, <2>1 DEF Parked
  <2>2. CASE ~finished /\ ~expired
    <3>1. ~givesUp /\ pc'[c] = "sdPark"
      BY <1>4, <2>2
    <3>2. ~(xstate' = STOPPING /\ live' = 0)
      BY <1>1, <2>2
    <3>3. ~Drained(xstate)'
      <4>1. CASE y = DRAINING
        <5>1. x = DRAINING /\ ~Drained(x)
          BY <1>2, <4>1
        <5> QED BY <1>1, <1>2, <1>5, <3>1, <4>1, <5>1 DEF Drained
      <4>2. CASE y # DRAINING
        BY <1>1, <4>2 DEF Drained
      <4> QED BY <4>1, <4>2
    <3> QED BY <3>1, <3>2, <3>3 DEF SleepsRightly
  <2> QED BY <2>1, <2>2
<1>7. CASE entered \/ x # y
  <2>1. \A d \in Ctx \ {c} : pc'[d] \notin Parked
    BY <1>3, <1>4, <1>7
  <2>2. \A d \in Ctx : SleepsRightly(d)'
    <3>1. \A d \in Ctx : pc'[d] \notin Parked => SleepsRightly(d)'
      BY DEF SleepsRightly, Parked
    <3> QED BY <1>6, <2>1, <3>1
  <2> QED BY <2>2 DEF NoLostWakeup, SleepsRightly
<1>8. CASE ~(entered \/ x # y)
  <2>1. ~givesUp /\ xstate' = xstate
    BY <1>1, <1>2, <1>8
  <2>2. UNCHANGED <<queue, hstate, outstanding>>
    BY <1>5, <1>8, <2>1
  <2>3. pc' = [pc EXCEPT ![c] = z]
    BY <1>1, <1>8
  <2> HIDE DEF z
  <2> QED BY <1>6, <2>1, <2>2, <2>3, <1>4, PlainWakeup
<1> QED BY <1>7, <1>8

LEMMA ShutdownCallWakeup ==
  ASSUME ControlInv, HeaderMoves, NoLostWakeup, NEW c \in Ctx, NEW o,
         ShutdownCall(c, o)
  PROVE  NoLostWakeup'
<1> DEFINE x == IF o.drain /\ xstate = RUNNING THEN DRAINING ELSE STOPPING
<1>1. x = DRAINING \/ x = STOPPING
  OBVIOUS
<1>2. x \in RUNNING..STOPPED
  BY <1>1 DEF RUNNING, DRAINING, STOPPING, STOPPED
<1>3. ShutdownLoop(c, x, TRUE)
  BY DEF ShutdownCall
<1> HIDE DEF x
<1> QED BY <1>2, <1>3, LoopWakeup DEF ShutdownCall, Calls, poolVars

LEMMA ShutdownWakeWakeup ==
  ASSUME ControlInv, HeaderMoves, NoLostWakeup, NEW c \in Ctx, ShutdownWake(c)
  PROVE  NoLostWakeup'
<1>1. xstate \in RUNNING..STOPPED
  BY ControlFacts
<1> QED BY <1>1, LoopWakeup DEF ShutdownWake, poolVars

\* These steps end in a broadcast.
LEMMA BroadcastWakeup ==
  ASSUME ControlInv, NEW p \in [Ctx -> AllPCs], pc' = Wake(p)
  PROVE  NoLostWakeup'
BY WakeKinds, AwakeWakeup

LEMMA MoveBroadcast ==
  ASSUME ControlInv, NEW c \in Ctx, NEW x \in AllPCs, pc' = Wake([pc EXCEPT ![c] = x])
  PROVE  NoLostWakeup'
<1> DEFINE p == [pc EXCEPT ![c] = x]
<1>1. p \in [Ctx -> AllPCs] /\ pc' = Wake(p)
  BY ControlFacts
<1> HIDE DEF p
<1> QED BY <1>1, BroadcastWakeup

LEMMA PopBroadcast ==
  ASSUME ControlInv, NEW q \in Seq(Tasks), q # <<>>, NEW c \in Ctx,
         NEW x \in {"busy", "enqAssist", "waitAssist"}, PopAndExecute(c, q, x)
  PROVE  NoLostWakeup'
<1> DEFINE p == [pc EXCEPT ![c] = x, ![Head(q)] = "begin"]
<1>1. Head(q) \in Ctx /\ x \in AllPCs /\ "begin" \in AllPCs /\ pc \in [Ctx -> AllPCs]
  BY ControlFacts DEF Ctx, AllPCs, WorkerPCs, TaskPCs, BodyPCs, StartPCs, WaitPCs
<1>2. p \in [Ctx -> AllPCs]
  BY <1>1
<1>3. pc' = Wake(p)
  BY DEF PopAndExecute
<1> HIDE DEF p
<1> QED BY <1>2, <1>3, BroadcastWakeup

LEMMA AssistWakeup ==
  ASSUME ControlInv, NEW c \in Ctx, EnqueueAssist(c) \/ WaitAssist(c)
  PROVE  NoLostWakeup'
BY ControlFacts, PopBroadcast
   DEF EnqueueAssist, EnqueueMayAssist, WaitAssist, MayAssist

LEMMA WaitPassCancelWakeup ==
  ASSUME ControlInv, HeaderMoves, NoLostWakeup, NEW c \in Ctx, WaitPassCancel(c)
  PROVE  NoLostWakeup'
<1> DEFINE q == QueueAfterCancel(arg[c])
<1>1. pc[c] = "wait" /\ c \in Tasks /\ cancelReq[c] /\ xstate < STOPPING
  BY DEF WaitPassCancel, WaitGoesOn, PassesCancelOn
<1>2. pc \in [Ctx -> AllPCs] /\ arg[c] \in known /\ arg[c] \in Tasks
  BY <1>1, ControlFacts DEF WaitPCs
<1>3. q \in Seq(Tasks)
  BY <1>2, CancelFacts DEF WaitPassCancel
<1>4. \/ q # <<>> /\ PopAndExecute(c, q, "waitAssist")
      \/ pc' = [Wake(pc) EXCEPT ![c] = "waitPark"]
  BY DEF WaitPassCancel, MayAssist
<1> HIDE DEF q
<1>5. CASE q # <<>> /\ PopAndExecute(c, q, "waitAssist")
  BY <1>3, <1>5, PopBroadcast
<1>6. CASE pc' = [Wake(pc) EXCEPT ![c] = "waitPark"]
  <2>1. Wake(pc) \in [Ctx -> AllPCs] /\ \A d \in Ctx : Wake(pc)[d] \notin Parked
    BY <1>2, WakeKinds
  <2>2. pc'[c] = "waitPark" /\ \A d \in Ctx \ {c} : pc'[d] \notin Parked
    BY <1>6, <2>1
  <2>3. cancelReq'[c] /\ xstate' < STOPPING
    BY <1>1 DEF HeaderMoves, WaitPassCancel
  <2>4. \A d \in Ctx : SleepsRightly(d)'
    BY <1>1, <2>2, <2>3 DEF SleepsRightly, Parked
  <2> QED BY <2>4 DEF NoLostWakeup, SleepsRightly
<1> QED BY <1>4, <1>5, <1>6

LEMMA ClientBroadcast ==
  ASSUME ControlInv, NEW c \in Ctx, EnqueuePush(c) \/ ShutdownFinal(c)
  PROVE  NoLostWakeup'
BY MoveBroadcast DEF EnqueuePush, ShutdownFinal, AllPCs, TaskPCs, BodyPCs

LEMMA CancelWakeup ==
  ASSUME ControlInv, NEW c \in Ctx, NEW o, CancelCall(c, o)
  PROVE  NoLostWakeup'
BY ControlFacts, BroadcastWakeup DEF CancelCall

LEMMA WorkerWakeup ==
  ASSUME ControlInv, HeaderMoves, NoLostWakeup, NEW w \in Workers, WorkerStep(w)
  PROVE  NoLostWakeup'
<1>1. w \in Ctx /\ "gone" \in AllPCs /\ queue \in Seq(Tasks)
  BY ControlFacts DEF Ctx, AllPCs, WorkerPCs
<1>2. CASE WorkerPop(w)
  BY <1>1, <1>2, PopBroadcast DEF WorkerPop
<1>3. CASE WorkerPark(w)
  BY <1>3, WorkerParkWakeup
<1>4. CASE WorkerLeave(w)
  BY <1>1, <1>4, MoveBroadcast DEF WorkerLeave
<1> QED BY <1>2, <1>3, <1>4 DEF WorkerStep

LEMMA ExecWakeup ==
  ASSUME ControlInv, HeaderMoves, NoLostWakeup, NEW t \in Tasks, ExecStep(t)
  PROVE  NoLostWakeup'
<1>1. t \in Ctx /\ "end" \in AllPCs
  BY DEF Ctx, AllPCs, TaskPCs
<1>2. CASE ExecBegin(t)
  BY <1>2, ExecBeginWakeup
<1>3. CASE BodyReturn(t)
  BY <1>3, BodyReturnWakeup
<1>4. CASE BodyFinish(t)
  BY <1>1, <1>4, MoveBroadcast DEF BodyFinish
<1>5. CASE ExecEnd(t)
  BY <1>5, EndMove, AwakeWakeup
<1> QED BY <1>2, <1>3, <1>4, <1>5 DEF ExecStep

LEMMA UnchangedWakeup ==
  ASSUME NoLostWakeup, UNCHANGED vars PROVE NoLostWakeup'
BY DEF vars, NoLostWakeup, WorkerMayLeave, QueueFull, Drained

LEMMA NextWakeup ==
  ASSUME ControlInv, HeaderInv, HeaderMoves, NoLostWakeup, [Next]_vars
  PROVE  NoLostWakeup'
<1>1. ASSUME NEW c \in Ctx, Call(c) PROVE NoLostWakeup'
  <2>1. PICK o \in todo[c] :
          \/ QueryCall(c, o) \/ StartCall(c, o) \/ CancelCall(c, o)
          \/ WaitCall(c, o) \/ ShutdownIdle(c, o) \/ ShutdownCall(c, o)
          \/ ResetCall(c, o) \/ ConfigureCall(c, o)
    BY <1>1 DEF Call
  <2> QED BY <2>1, QueryWakeup, StartCallWakeup, CancelWakeup, WaitCallWakeup,
             ShutdownIdleWakeup, ShutdownCallWakeup, ResetWakeup, ConfigureWakeup
<1>2. ASSUME NEW c \in Ctx, Step(c) PROVE NoLostWakeup'
  BY <1>1, <1>2, StartInitWakeup, EnqueueRefusedWakeup, ClientBroadcast,
     AssistWakeup, EnqueueWaitWakeup, WaitReturnWakeup, WaitParkWakeup,
     WaitPassCancelWakeup, ShutdownWakeWakeup DEF Step
<1>3. CASE UNCHANGED vars
  BY <1>3, UnchangedWakeup
<1>4. CASE Next
  BY <1>2, <1>4, WorkerWakeup, ExecWakeup, DeadlineWakeup, SpuriousWakeWakeup DEF Next
<1> QED BY <1>3, <1>4

\* No thread sleeps on the executor's condition variable with nothing left to
\* wake it, for every pool, every program and any number of stoppers: each
\* critical section that makes a condition true broadcasts, or leaves a task
\* that will (meth_async_execute_task wakes all as it ends).
THEOREM NoWakeupIsLost == Spec => []NoLostWakeup
<1>1. Init => NoLostWakeup
  BY DEF Init, NoLostWakeup, Ctx
<1>2. ControlInv /\ HeaderInv /\ NoLostWakeup /\ [Next]_vars => NoLostWakeup'
  BY NextHeader, NextWakeup
<1> QED BY <1>1, <1>2, ControlInvariant, HeaderInvariant, PTL DEF Spec

-----------------------------------------------------------------------------
(* The pool and its counters, with one stopper *)

\* c is in a shutdown or has one to call
MayStop(c) == pc[c] \in StopPCs \/ \E o \in todo[c] : o.op = "shutdown"

\* The life of the pool.  The stopper keeps the pool in the state that its next
\* critical section counts on: nothing starts, resets or stops it in between.
StopInv ==
  /\ \A c, d \in Ctx : MayStop(c) /\ MayStop(d) => c = d
  /\ xstate = DRAINING => \E c \in Ctx : pc[c] \in {"sdLoop", "sdPark"}
  /\ xstate \in {DRAINING, STOPPING} => initialized
  /\ xstate = STOPPED => ~initialized
  /\ xstate >= STOPPING => queue = <<>>
  /\ ~initialized => capacity = 0 /\ queue = <<>> /\ live = 0 /\ outstanding = 0
  /\ \A c \in Ctx : pc[c] = "sdFinal" => xstate = STOPPING /\ live = 0

\* Accepted tasks that are not terminal, wherever they are
Open == {t \in known : hstate[t] < COMPLETED}

Present == {w \in Workers : pc[w] # "gone"}

\* The counters are right, and a task that is not terminal is somewhere.
CountInv ==
  /\ outstanding = Cardinality(Open)
  /\ live = Cardinality(Present)
  /\ \A t \in Open : InQueue(t) \/ pc[t] # "off"

PoolInv == StopInv /\ CountInv

\* Between the control states p and r no thread enters or leaves the pool or a
\* shutdown.
Staying(p, r) ==
  \A c \in Ctx : /\ p[c] \in StopPCs <=> r[c] \in StopPCs
                 /\ p[c] \in {"sdLoop", "sdPark"} <=> r[c] \in {"sdLoop", "sdPark"}
                 /\ p[c] = "sdFinal" <=> r[c] = "sdFinal"
                 /\ p[c] = "gone" <=> r[c] = "gone"

\* Nor does a task stop executing.
Steady(p, r) ==
  Staying(p, r) /\ \A c \in Ctx : r[c] = "off" => p[c] = "off"

\* No context has more calls to make than before.
FewerCalls == \A c \in Ctx : todo'[c] \subseteq todo[c]

LEMMA SteadyWake ==
  ASSUME NEW p, NEW r \in [Ctx -> AllPCs], Steady(p, r)
  PROVE  Steady(p, Wake(r))
<1>1. \A c \in Ctx : /\ r[c] \in StopPCs <=> Wake(r)[c] \in StopPCs
                     /\ r[c] \in {"sdLoop", "sdPark"} <=> Wake(r)[c] \in {"sdLoop", "sdPark"}
                     /\ r[c] = "sdFinal" <=> Wake(r)[c] = "sdFinal"
                     /\ r[c] = "gone" <=> Wake(r)[c] = "gone"
                     /\ r[c] = "off" <=> Wake(r)[c] = "off"
  BY WakeKinds
<1> QED BY <1>1 DEF Steady, Staying

LEMMA SteadyMove ==
  ASSUME NEW p \in [Ctx -> AllPCs], NEW c \in Ctx, NEW x,
         p[c] \notin StopPCs \cup {"gone"},
         x \in AllPCs \ (StopPCs \cup {"gone", "off"})
  PROVE  [p EXCEPT ![c] = x] \in [Ctx -> AllPCs] /\ Steady(p, [p EXCEPT ![c] = x])
BY DEF Steady, Staying, StopPCs

LEMMA SteadyTrans ==
  ASSUME NEW p, NEW q, NEW r, Steady(p, q), Steady(q, r) PROVE Steady(p, r)
BY DEF Steady, Staying

LEMMA ConsumeFewer ==
  ASSUME ControlInv, NEW c \in Ctx, NEW o, Consume(c, o) PROVE FewerCalls
BY ControlFacts DEF Consume, FewerCalls

LEMMA OpenFinite ==
  ASSUME ControlInv
  PROVE  /\ IsFiniteSet(Open) /\ Cardinality(Open) \in Nat
         /\ IsFiniteSet(Present) /\ Cardinality(Present) \in Nat
         /\ Cardinality(Open) = 0 <=> Open = {}
         /\ Cardinality(Present) = 0 <=> Present = {}
<1>1. Open \subseteq Tasks /\ Present \subseteq Workers
  BY ControlFacts DEF Open, Present
<1>2. IsFiniteSet(Open) /\ IsFiniteSet(Present)
  BY <1>1, FiniteAssumption, FS_Subset
<1> QED BY <1>2, FS_CardinalityType, FS_EmptySet

\* The pool goes on as it is, while tasks come and go.
LEMMA StayingPool ==
  ASSUME ControlInv, PoolInv, Staying(pc, pc'), FewerCalls,
         UNCHANGED <<xstate, initialized, capacity, live>>,
         queue = <<>> => queue' = <<>> \/ (initialized /\ xstate = RUNNING),
         outstanding' = outstanding \/ initialized,
         outstanding' = Cardinality(Open'),
         \A t \in Open' : InQueue(t)' \/ pc'[t] # "off"
  PROVE  PoolInv'
<1>1. xstate \in RUNNING..STOPPED /\ RUNNING < STOPPING
  BY ControlFacts DEF RUNNING, STOPPING
<1>2. \A c \in Ctx : MayStop(c)' => MayStop(c)
  BY DEF MayStop, Staying, FewerCalls
<1>3. \A c, d \in Ctx : MayStop(c)' /\ MayStop(d)' => c = d
  BY <1>2 DEF PoolInv, StopInv
<1>4. xstate' = DRAINING => \E c \in Ctx : pc'[c] \in {"sdLoop", "sdPark"}
  BY DEF PoolInv, StopInv, Staying
<1>5. xstate' >= STOPPING => queue' = <<>>
  <2>1. xstate >= STOPPING => queue = <<>> /\ xstate # RUNNING
    BY DEF PoolInv, StopInv, RUNNING, STOPPING
  <2> QED BY <2>1
<1>6. ~initialized' => capacity' = 0 /\ queue' = <<>> /\ live' = 0 /\ outstanding' = 0
  BY DEF PoolInv, StopInv
<1>7. \A c \in Ctx : pc'[c] = "sdFinal" => xstate' = STOPPING /\ live' = 0
  BY DEF PoolInv, StopInv, Staying
<1>8. StopInv'
  BY <1>3, <1>4, <1>5, <1>6, <1>7 DEF PoolInv, StopInv
<1>9. Present' = Present
  BY DEF Present, Staying, Ctx
<1> QED BY <1>8, <1>9 DEF PoolInv, CountInv

LEMMA SteadyPool ==
  ASSUME ControlInv, PoolInv, Steady(pc, pc'), FewerCalls,
         UNCHANGED <<xstate, initialized, capacity, live>>,
         queue = <<>> => queue' = <<>> \/ (initialized /\ xstate = RUNNING),
         outstanding' = outstanding \/ initialized,
         outstanding' = Cardinality(Open'),
         \A t \in Open' : InQueue(t)' \/ pc'[t] # "off"
  PROVE  PoolInv'
<1>1. Staying(pc, pc')
  BY DEF Staying, Steady
<1> QED BY <1>1, StayingPool

LEMMA SameOpen ==
  ASSUME UNCHANGED taskVars PROVE Open' = Open
BY DEF Open, taskVars

\* The same tasks are to be done, in the same places.
LEMMA StillPool ==
  ASSUME ControlInv, PoolInv, Steady(pc, pc'), FewerCalls, Open' = Open,
         UNCHANGED <<queue, xstate, initialized, capacity, live, outstanding>>
  PROVE  PoolInv'
<1>1. \A t \in Open' : InQueue(t)' \/ pc'[t] # "off"
  BY ControlFacts DEF PoolInv, CountInv, InQueue, Steady, Staying, Ctx, Open
<1> QED BY <1>1, SteadyPool DEF PoolInv, CountInv

\* One context goes on outside of any shutdown.
LEMMA PlainPool ==
  ASSUME ControlInv, PoolInv, NEW c \in Ctx, NEW x,
         pc[c] \notin StopPCs \cup {"gone"},
         x \in AllPCs \ (StopPCs \cup {"gone", "off"}),
         pc' = [pc EXCEPT ![c] = x], FewerCalls, Open' = Open,
         UNCHANGED <<queue, xstate, initialized, capacity, live, outstanding>>
  PROVE  PoolInv'
<1>1. Steady(pc, pc')
  BY ControlFacts, SteadyMove
<1> QED BY <1>1, StillPool

\* The pool may come to life: then nothing of an earlier one is left, and its
\* threads are the ones that could be created.
LEMMA InitPool ==
  ASSUME ControlInv, PoolInv, NEW c \in Ctx \ Workers, NEW x,
         pc[c] \notin StopPCs \cup {"gone"},
         x \in AllPCs \ (StopPCs \cup {"gone", "off"}),
         InitReturns1(c, x) \/ InitReturns0(c, x),
         FewerCalls, Open' = Open
  PROVE  PoolInv'
<1> DEFINE p == [pc EXCEPT ![c] = x]
<1>1. pc \in [Ctx -> AllPCs] /\ p \in [Ctx -> AllPCs] /\ Steady(pc, p)
  BY ControlFacts, SteadyMove
<1>2. CASE pc' = p /\ (PoolUnchanged \/ PoolFails)
  <2>1. UNCHANGED <<queue, xstate, initialized, capacity, live, outstanding>>
    BY <1>2 DEF PoolUnchanged, PoolFails
  <2> QED BY <1>2, <2>1, PlainPool
<1>3. ASSUME NEW S \in FreshPools, MayInit, StartPool(S), pc' = Wake(Spawned(S, p))
      PROVE  PoolInv'
  <2> DEFINE r == Spawned(S, p)
  <2>1. /\ S \in SUBSET Workers /\ "idle" \in AllPCs
        /\ \A w \in S : pc[w] = "gone"
    BY DEF FreshPools, AllPCs, WorkerPCs
  <2>2. \A d \in Ctx : r[d] = IF d \in S THEN "idle" ELSE IF d = c THEN x ELSE pc[d]
    BY <1>1, <2>1 DEF Spawned
  <2>3. r \in [Ctx -> AllPCs] /\ pc' = Wake(r)
    BY <1>1, <1>3, <2>1 DEF Spawned
  <2> HIDE DEF p, r
  <2>4. ~initialized /\ xstate = RUNNING /\ UNCHANGED xstate /\ initialized'
        /\ queue' = <<>> /\ outstanding' = 0 /\ live' = Cardinality(S)
    BY <1>3 DEF MayInit, StartPool
  <2>5. Open = {} /\ Present = {}
    BY <2>4, OpenFinite DEF PoolInv, StopInv, CountInv
  <2>6. \A d \in Ctx : /\ pc'[d] \in StopPCs => pc[d] \in StopPCs
                       /\ pc'[d] = "sdFinal" => pc[d] = "sdFinal"
    <3>1. \A d \in Ctx : r[d] \in StopPCs => r[d] = pc[d]
      BY <2>2 DEF StopPCs
    <3> QED BY <2>3, <3>1, WakeKinds DEF StopPCs
  <2>7. \A w \in Workers : pc'[w] = "gone" <=> w \notin S
    <3>1. \A w \in Workers : w \in Ctx /\ pc[w] = "gone"
      BY <2>5 DEF Present, Ctx
    <3>2. \A w \in Workers : r[w] = "gone" <=> w \notin S
      BY <2>2, <3>1
    <3> QED BY <2>3, <3>1, <3>2, WakeKinds
  <2>8. Present' = S
    BY <2>1, <2>7 DEF Present
  <2>9. CountInv'
    BY <2>4, <2>5, <2>8, FS_EmptySet DEF CountInv
  <2>10. RUNNING # DRAINING /\ RUNNING # STOPPING /\ RUNNING # STOPPED /\ ~(RUNNING >= STOPPING)
    BY DEF RUNNING, DRAINING, STOPPING, STOPPED
  <2>11. \A d \in Ctx : MayStop(d)' => MayStop(d)
    BY <2>6 DEF MayStop, FewerCalls
  <2>12. \A d, e \in Ctx : MayStop(d)' /\ MayStop(e)' => d = e
    BY <2>11 DEF PoolInv, StopInv
  <2>13. \A d \in Ctx : pc'[d] # "sdFinal"
    BY <2>4, <2>6, <2>10 DEF PoolInv, StopInv
  <2>14. StopInv'
    BY <2>4, <2>10, <2>12, <2>13 DEF StopInv
  <2> QED BY <2>9, <2>14 DEF PoolInv
<1> QED BY <1>2, <1>3 DEF InitReturns1, InitReturns0

\* The control points outside of a shutdown and of the pool's threads
LEMMA PlainPCs ==
  /\ {"run", "wait", "enq", "init", "enqWake", "begin", "end", "idle"} \cap
       (StopPCs \cup {"gone", "off"}) = {}
  /\ {"run", "wait", "enq", "init", "end", "enqPark", "waitPark", "idlePark",
      "busy", "begin", "enqAssist", "waitAssist"}
       \subseteq AllPCs \ (StopPCs \cup {"gone", "off"})
BY DEF StopPCs, AllPCs, WorkerPCs, TaskPCs, BodyPCs, StartPCs, WaitPCs

LEMMA QueryPool ==
  ASSUME ControlInv, PoolInv, NEW c \in Ctx, NEW o \in todo[c], QueryCall(c, o)
  PROVE  PoolInv'
<1>1. c \notin Workers /\ pc[c] = "run" /\ FewerCalls
  BY CallFacts, ConsumeFewer DEF QueryCall
<1> QED BY <1>1, InitPool, SameOpen, PlainPCs DEF QueryCall

LEMMA WaitCallPool ==
  ASSUME ControlInv, PoolInv, NEW c \in Ctx, NEW o \in todo[c], WaitCall(c, o)
  PROVE  PoolInv'
<1>1. c \notin Workers /\ pc[c] = "run" /\ FewerCalls
  BY CallFacts, ConsumeFewer DEF WaitCall
<1>2. \/ InitReturns1(c, "run") \/ InitReturns0(c, "run")
      \/ InitReturns1(c, "wait")
  BY DEF WaitCall
<1> QED BY <1>1, <1>2, InitPool, SameOpen, PlainPCs DEF WaitCall

\* The header that meth_async_start clears is not known yet.
LEMMA StartCallPool ==
  ASSUME ControlInv, PoolInv, NEW c \in Ctx, NEW o \in todo[c], StartCall(c, o)
  PROVE  PoolInv'
<1>1. o \in Ops /\ pc[c] = "run" /\ c \notin Workers /\ FewerCalls
        /\ Shape(pc, arg, known, queue, stack, todo)
  BY CallFacts, ConsumeFewer DEF StartCall, ControlInv
<1>2. o.task \in Tasks /\ o.task \notin known
  BY <1>1, OpsFacts DEF StartCall, Shape, TodoOK
<1>3. Open' = Open
  BY <1>2, ControlFacts DEF StartCall, Open
<1> QED BY <1>1, <1>3, PlainPool, PlainPCs DEF StartCall, poolVars

\* A refused start: the header is cancelled as it becomes known.
LEMMA RefusedOpen ==
  ASSUME ControlInv, NEW c \in Ctx, pc[c] \in StartPCs, StartReturns(c, FALSE)
  PROVE  Open' = Open
<1>1. arg[c] \in Tasks \ known /\ hstate \in [Tasks -> QUEUED..CANCELLED]
        /\ known \in SUBSET Tasks
  BY ControlFacts
<1>2. known' = known \cup {arg[c]} /\ hstate' = [hstate EXCEPT ![arg[c]] = CANCELLED]
  BY DEF StartReturns
<1>3. ~(CANCELLED < COMPLETED)
  BY DEF CANCELLED, COMPLETED
<1> QED BY <1>1, <1>2, <1>3 DEF Open

LEMMA StartInitPool ==
  ASSUME ControlInv, PoolInv, NEW c \in Ctx, StartInit(c)
  PROVE  PoolInv'
<1>1. pc[c] = "init" /\ pc[c] \in StartPCs /\ c \notin Workers /\ FewerCalls
  BY ControlFacts DEF StartInit, StartPCs, WorkerPCs, FewerCalls
<1>2. CASE InitReturns1(c, "enq") /\ UNCHANGED <<hstate, known, arg>>
  BY <1>1, <1>2, InitPool, SameOpen, PlainPCs DEF StartInit, taskVars
<1>3. CASE InitReturns0(c, "run") /\ StartReturns(c, FALSE)
  BY <1>1, <1>3, RefusedOpen, InitPool, PlainPCs
<1> QED BY <1>2, <1>3 DEF StartInit

LEMMA EnqueueRefusedPool ==
  ASSUME ControlInv, PoolInv, NEW c \in Ctx, EnqueueRefused(c)
  PROVE  PoolInv'
<1>1. pc[c] \in {"enq", "enqWake"} /\ pc[c] \in StartPCs /\ FewerCalls
  BY DEF EnqueueRefused, StartPCs, FewerCalls
<1>2. Open' = Open
  BY <1>1, RefusedOpen DEF EnqueueRefused
<1> QED BY <1>1, <1>2, PlainPool, PlainPCs DEF EnqueueRefused, poolVars

LEMMA SleepPool ==
  ASSUME ControlInv, PoolInv, NEW c \in Ctx,
         EnqueueWait(c) \/ WaitReturn(c) \/ WaitPark(c)
  PROVE  PoolInv'
<1>1. /\ pc[c] \in {"enq", "enqWake", "wait"} /\ Open' = Open /\ FewerCalls
      /\ UNCHANGED <<queue, xstate, initialized, capacity, live, outstanding>>
  BY DEF EnqueueWait, WaitReturn, WaitPark, EnqueueOpen, WaitGoesOn, FewerCalls,
     Open, taskVars, poolVars
<1>2. \E x \in {"enqPark", "run", "waitPark"} : pc' = [pc EXCEPT ![c] = x]
  BY DEF EnqueueWait, WaitReturn, WaitPark
<1> QED BY <1>1, <1>2, PlainPool, PlainPCs

LEMMA WorkerParkPool ==
  ASSUME ControlInv, PoolInv, NEW w \in Workers, WorkerPark(w)
  PROVE  PoolInv'
<1>1. w \in Ctx /\ FewerCalls /\ Open' = Open
  BY DEF WorkerPark, FewerCalls, Ctx, Open, taskVars
<1> QED BY <1>1, PlainPool, PlainPCs DEF WorkerPark, poolVars

LEMMA BodyReturnPool ==
  ASSUME ControlInv, PoolInv, NEW t \in Tasks, BodyReturn(t)
  PROVE  PoolInv'
<1>1. t \in Ctx /\ FewerCalls /\ Open' = Open
  BY DEF BodyReturn, FewerCalls, Ctx, Open, taskVars
<1> QED BY <1>1, PlainPool, PlainPCs DEF BodyReturn, poolVars

LEMMA DeadlinePool ==
  ASSUME ControlInv, PoolInv, NEW c \in Ctx, DeadlineExpires(c)
  PROVE  PoolInv'
<1>1. FewerCalls /\ Open' = Open
        /\ UNCHANGED <<queue, xstate, initialized, capacity, live, outstanding>>
  BY DEF DeadlineExpires, FewerCalls, Open, taskVars, poolVars
<1>2. Steady(pc, pc')
  BY ControlFacts DEF DeadlineExpires, Steady, Staying, StopPCs
<1> QED BY <1>1, <1>2, StillPool

LEMMA SpuriousWakePool ==
  ASSUME ControlInv, PoolInv, NEW c \in Ctx, SpuriousWake(c)
  PROVE  PoolInv'
<1>1. FewerCalls /\ Open' = Open
        /\ UNCHANGED <<queue, xstate, initialized, capacity, live, outstanding>>
  BY DEF SpuriousWake, FewerCalls, Open, taskVars, poolVars
<1>2. pc \in [Ctx -> AllPCs] /\ pc' = [pc EXCEPT ![c] = Resume(pc[c])]
  BY ControlFacts DEF SpuriousWake
<1>3. pc[c] \in AllPCs
  BY <1>2
<1>4. /\ pc[c] \in StopPCs <=> pc'[c] \in StopPCs
      /\ pc[c] \in {"sdLoop", "sdPark"} <=> pc'[c] \in {"sdLoop", "sdPark"}
      /\ pc[c] = "sdFinal" <=> pc'[c] = "sdFinal"
      /\ pc[c] = "gone" <=> pc'[c] = "gone"
      /\ pc[c] = "off" <=> pc'[c] = "off"
  BY <1>2, <1>3, ResumeKinds
<1>5. \A d \in Ctx \ {c} : pc'[d] = pc[d]
  BY <1>2
<1>6. Steady(pc, pc')
  BY <1>4, <1>5 DEF Steady, Staying
<1> QED BY <1>1, <1>6, StillPool

LEMMA UnchangedPool ==
  ASSUME PoolInv, UNCHANGED vars PROVE PoolInv'
BY DEF vars, PoolInv, StopInv, CountInv, MayStop, Open, Present, InQueue

\* Neither of these two touches a task or a thread.
LEMMA ConfigurePool ==
  ASSUME ControlInv, PoolInv, NEW c \in Ctx, NEW o \in todo[c], ConfigureCall(c, o)
  PROVE  PoolInv'
<1>1. FewerCalls /\ Open' = Open /\ Steady(pc, pc')
        /\ UNCHANGED <<queue, xstate, initialized, capacity, live, outstanding>>
  BY ConsumeFewer DEF ConfigureCall, Open, taskVars, Steady, Staying
<1> QED BY <1>1, StillPool

LEMMA ResetPool ==
  ASSUME ControlInv, PoolInv, NEW c \in Ctx, NEW o \in todo[c], ResetCall(c, o)
  PROVE  PoolInv'
<1>1. FewerCalls /\ Open' = Open /\ Steady(pc, pc') /\ pc' = pc
        /\ UNCHANGED <<queue, initialized, capacity, live, outstanding>>
        /\ (xstate' = xstate \/ (xstate = STOPPED /\ ~initialized /\ xstate' = RUNNING))
  BY ConsumeFewer DEF ResetCall, Open, taskVars, Steady, Staying
<1>2. CASE xstate' = xstate
  BY <1>1, <1>2, StillPool
<1>3. CASE xstate = STOPPED /\ ~initialized /\ xstate' = RUNNING
  <2>1. RUNNING # DRAINING /\ RUNNING # STOPPING /\ RUNNING # STOPPED
          /\ ~(RUNNING >= STOPPING) /\ STOPPED # STOPPING
    BY DEF RUNNING, DRAINING, STOPPING, STOPPED
  <2>2. \A d \in Ctx : MayStop(d)' => MayStop(d)
    BY <1>1 DEF MayStop, FewerCalls
  <2>3. StopInv'
    BY <1>1, <1>3, <2>1, <2>2 DEF PoolInv, StopInv
  <2>4. CountInv'
    BY <1>1 DEF PoolInv, CountInv, Present, InQueue
  <2> QED BY <2>3, <2>4 DEF PoolInv
<1> QED BY <1>1, <1>2, <1>3

\* One header gets the state s, and is counted out if that makes it terminal.
LEMMA CountOne ==
  ASSUME ControlInv, CountInv, NEW t \in known, NEW s \in QUEUED..CANCELLED,
         hstate[t] >= COMPLETED => s >= COMPLETED,
         hstate' = [hstate EXCEPT ![t] = s], UNCHANGED known,
         outstanding' = CountedOut(outstanding, hstate[t], s)
  PROVE  /\ Open' = IF s < COMPLETED THEN Open ELSE Open \ {t}
         /\ outstanding' = Cardinality(Open')
         /\ outstanding' = outstanding \/ outstanding > 0
<1>1. /\ hstate \in [Tasks -> QUEUED..CANCELLED] /\ known \in SUBSET Tasks
      /\ outstanding \in Nat /\ IsFiniteSet(Open)
      /\ outstanding = Cardinality(Open)
  BY ControlFacts, OpenFinite DEF CountInv
<1>2. \A n \in QUEUED..CANCELLED : n < COMPLETED <=> ~(n >= COMPLETED)
  BY DEF QUEUED, COMPLETED, CANCELLED
<1>3. \A u \in known : hstate'[u] = IF u = t THEN s ELSE hstate[u]
  BY <1>1
<1>4. hstate[t] \in QUEUED..CANCELLED
  BY <1>1
<1>5. Open' = IF s < COMPLETED THEN Open ELSE Open \ {t}
  BY <1>1, <1>2, <1>3, <1>4 DEF Open
<1>6. outstanding' = Cardinality(Open') /\ (outstanding' = outstanding \/ outstanding > 0)
  <2>1. CASE hstate[t] < COMPLETED /\ s >= COMPLETED
    <3>1. t \in Open /\ Open' = Open \ {t}
      BY <1>2, <1>5, <2>1 DEF Open
    <3>2. Cardinality(Open \ {t}) = Cardinality(Open) - 1
      BY <1>1, <3>1, FS_RemoveElement
    <3>3. Cardinality(Open) # 0
      BY <1>1, <3>1, FS_EmptySet
    <3> QED BY <1>1, <2>1, <3>1, <3>2, <3>3 DEF CountedOut
  <2>2. CASE ~(hstate[t] < COMPLETED /\ s >= COMPLETED)
    <3>1. outstanding' = outstanding
      BY <2>2 DEF CountedOut
    <3>2. Open' = Open
      BY <1>2, <1>4, <1>5, <2>2 DEF Open
    <3> QED BY <1>1, <3>1, <3>2
  <2> QED BY <2>1, <2>2
<1> QED BY <1>5, <1>6

\* A pool without one counts nothing.
LEMMA CountedPool ==
  ASSUME ControlInv, PoolInv, outstanding > 0 PROVE initialized
BY DEF PoolInv, StopInv

\* The header of an executing task changes, and the task goes on at x.
LEMMA ExecMovePool ==
  ASSUME ControlInv, PoolInv, NEW t \in Tasks, pc[t] \in {"begin", "run"},
         NEW s \in QUEUED..CANCELLED, NEW x \in {"run", "end"},
         hstate[t] >= COMPLETED => s >= COMPLETED,
         hstate' = [hstate EXCEPT ![t] = s], UNCHANGED known,
         outstanding' = CountedOut(outstanding, hstate[t], s),
         pc' = [pc EXCEPT ![t] = x] \/ pc' = Wake([pc EXCEPT ![t] = x]),
         UNCHANGED <<queue, xstate, initialized, capacity, live, todo>>
  PROVE  PoolInv'
<1>1. t \in known /\ t \in Ctx /\ FewerCalls
  BY ControlFacts DEF Ctx, FewerCalls
<1> DEFINE p == [pc EXCEPT ![t] = x]
<1>2. p \in [Ctx -> AllPCs] /\ Steady(pc, p)
  <2>1. pc \in [Ctx -> AllPCs]
    BY ControlFacts
  <2>2. x \in AllPCs \ (StopPCs \cup {"gone", "off"})
    BY PlainPCs
  <2>3. pc[t] \notin StopPCs \cup {"gone"}
    BY PlainPCs
  <2> QED BY <1>1, <2>1, <2>2, <2>3, SteadyMove
<1>3. pc' = p \/ pc' = Wake(p)
  OBVIOUS
<1> HIDE DEF p
<1>4. Steady(pc, pc')
  BY <1>2, <1>3, SteadyWake
<1>5. /\ Open' \subseteq Open /\ outstanding' = Cardinality(Open')
      /\ outstanding' = outstanding \/ initialized
  BY <1>1, CountOne, CountedPool DEF PoolInv
<1>6. \A u \in Open' : InQueue(u)' \/ pc'[u] # "off"
  BY <1>4, <1>5, ControlFacts DEF PoolInv, CountInv, InQueue, Steady, Staying, Ctx, Open
<1> QED BY <1>1, <1>4, <1>5, <1>6, SteadyPool

LEMMA ExecBeginPool ==
  ASSUME ControlInv, PoolInv, NEW t \in Tasks, ExecBegin(t)
  PROVE  PoolInv'
<1> DEFINE skipped == hstate[t] >= COMPLETED
           s == IF skipped THEN hstate[t]
                ELSE IF cancelReq[t] \/ xstate >= STOPPING THEN CANCELLED
                ELSE EXECUTING
           x == IF s = EXECUTING THEN "run" ELSE "end"
<1>1. /\ hstate' = [hstate EXCEPT ![t] = s]
      /\ outstanding' = CountedOut(outstanding, hstate[t], s)
      /\ pc' = [pc EXCEPT ![t] = x]
      /\ pc[t] = "begin" /\ x \in {"run", "end"}
      /\ UNCHANGED <<known, queue, xstate, initialized, capacity, live, todo>>
  BY DEF ExecBegin, poolVars
<1>2. hstate[t] >= COMPLETED => s >= COMPLETED
  OBVIOUS
<1>3. s \in QUEUED..CANCELLED
  <2>1. hstate[t] \in QUEUED..CANCELLED
    BY ControlFacts
  <2> QED BY <2>1 DEF QUEUED, CANCELLED, EXECUTING
<1> HIDE DEF s, x
<1> QED BY <1>1, <1>2, <1>3, ExecMovePool

LEMMA BodyFinishPool ==
  ASSUME ControlInv, PoolInv, NEW t \in Tasks, BodyFinish(t)
  PROVE  PoolInv'
<1>1. FinalState(t) \in QUEUED..CANCELLED /\ FinalState(t) >= COMPLETED
  BY DEF FinalState, QUEUED, COMPLETED, CANCELLED
<1>2. pc[t] \in {"begin", "run"} /\ "end" \in {"run", "end"}
        /\ UNCHANGED <<known, queue, xstate, initialized, capacity, live, todo>>
  BY DEF BodyFinish, poolVars
<1> QED BY <1>1, <1>2, ExecMovePool DEF BodyFinish

\* A task takes its place in the queue of a pool that is there.
LEMMA EnqueuePushPool ==
  ASSUME ControlInv, HeaderInv, PoolInv, NEW c \in Ctx, EnqueuePush(c)
  PROVE  PoolInv'
<1> DEFINE p == [pc EXCEPT ![c] = "run"]
<1>1. pc[c] \in {"enq", "enqWake"} /\ pc[c] \in StartPCs /\ xstate = RUNNING
        /\ (pc[c] = "enq" => initialized) /\ ~QueueFull
  BY DEF EnqueuePush, EnqueueOpen, StartPCs
<1>2. /\ hstate \in [Tasks -> QUEUED..CANCELLED] /\ known \in SUBSET Tasks
      /\ queue \in Seq(Tasks) /\ arg[c] \in Tasks \ known
      /\ pc \in [Ctx -> AllPCs] /\ IsFiniteSet(Open)
  BY <1>1, ControlFacts, OpenFinite
<1> PICK t \in Tasks \ known : t = arg[c]
  BY <1>2
<1>3. initialized
  <2>1. capacity = 0 => QueueFull
    BY <1>2 DEF QueueFull
  <2> QED BY <1>1, <2>1 DEF PoolInv, StopInv
<1>4. /\ queue' = Append(queue, t) /\ outstanding' = outstanding + 1
      /\ known' = known \cup {t} /\ hstate' = hstate
      /\ pc' = Wake(p) /\ FewerCalls
      /\ UNCHANGED <<xstate, initialized, capacity, live>>
  BY DEF EnqueuePush, StartReturns, poolVars, FewerCalls
<1>5. p \in [Ctx -> AllPCs] /\ Steady(pc, p)
  BY <1>1, <1>2, SteadyMove, PlainPCs
<1> HIDE DEF p
<1>6. Steady(pc, pc')
  BY <1>4, <1>5, SteadyWake
<1>7. t \notin Open /\ Open' = Open \cup {t}
  <2>1. hstate[t] < COMPLETED
    BY DEF HeaderInv, QUEUED, COMPLETED
  <2> QED BY <1>2, <1>4, <2>1 DEF Open
<1>8. \A i \in 1..Len(queue) : queue'[i] = queue[i] /\ i \in 1..Len(queue')
  BY <1>2, <1>4
<1>9. queue'[Len(queue) + 1] = t /\ Len(queue) + 1 \in 1..Len(queue')
  BY <1>2, <1>4
<1>10. \A u \in Open' : InQueue(u)' \/ pc'[u] # "off"
  <2>1. \A u \in Open : InQueue(u)' \/ pc'[u] # "off"
    BY <1>2, <1>6, <1>8 DEF PoolInv, CountInv, InQueue, Steady, Staying, Ctx, Open
  <2>2. InQueue(t)'
    BY <1>9 DEF InQueue
  <2> QED BY <1>7, <2>1, <2>2
<1>11. outstanding' = Cardinality(Open')
  BY <1>2, <1>4, <1>7, FS_AddElement DEF PoolInv, CountInv
<1> QED BY <1>1, <1>3, <1>4, <1>6, <1>10, <1>11, SteadyPool

\* The oldest task of q, which is the queue or what a cancellation left of it,
\* goes from the queue to a worker.
LEMMA PopPool ==
  ASSUME ControlInv, PoolInv, NEW q \in Seq(Tasks), QueueOK(pc, known, q), q # <<>>,
         queue = <<>> => q = <<>>,
         NEW c \in Ctx, NEW x \in {"busy", "enqAssist", "waitAssist"},
         pc[c] \in {"idle", "enq", "enqWake", "wait"},
         (c \in Workers /\ x = "busy") \/ pc[c] \in BodyPCs,
         PopAndExecute(c, q, x), FewerCalls,
         UNCHANGED <<xstate, initialized, capacity, live>>,
         outstanding' = outstanding \/ initialized,
         outstanding' = Cardinality(Open'),
         \A u \in Open' : u \in known /\ ((\E i \in 1..Len(q) : q[i] = u) \/ pc[u] # "off")
  PROVE  PoolInv'
<1>1. /\ Len(q) \in Nat \ {0} /\ Head(q) = q[1] /\ Tail(q) \in Seq(Tasks)
      /\ Len(Tail(q)) = Len(q) - 1
      /\ \A i \in 1..(Len(q) - 1) : Tail(q)[i] = q[i + 1]
      /\ Head(q) \in Tasks
  OBVIOUS
<1>2. pc[Head(q)] = "off" /\ pc \in [Ctx -> AllPCs] /\ known \in SUBSET Tasks
  BY <1>1, ControlFacts DEF QueueOK
<1>3. x \in AllPCs /\ x # "end" /\ pc[c] # "off" /\ (x = "busy" => x \notin BodyPCs)
        /\ x \notin StopPCs \cup {"gone", "off"} /\ pc[c] \notin StopPCs \cup {"gone"}
  BY DEF AllPCs, TaskPCs, WorkerPCs, BodyPCs, StartPCs, WaitPCs, StopPCs
<1>4. c \in Workers => c \notin Tasks
  BY ContextAssumption
<1>5. queue' = Tail(q) /\
      \E p \in [Ctx -> AllPCs] :
        /\ pc' = Wake(p)
        /\ \A d \in Ctx : p[d] = IF d = Head(q) THEN "begin"
                                 ELSE IF d = c THEN x ELSE pc[d]
  BY <1>2, <1>3, <1>4, PopMove
<1>6. PICK p \in [Ctx -> AllPCs] :
        /\ pc' = Wake(p)
        /\ \A d \in Ctx : p[d] = IF d = Head(q) THEN "begin"
                                 ELSE IF d = c THEN x ELSE pc[d]
  BY <1>5
<1>7. "begin" \notin StopPCs \cup {"gone", "off"}
  BY DEF StopPCs
<1>8. Steady(pc, p)
  BY <1>2, <1>3, <1>6, <1>7 DEF Steady, Staying, StopPCs
<1>9. Steady(pc, pc')
  BY <1>6, <1>8, SteadyWake
<1>10. \A u \in Open' : InQueue(u)' \/ pc'[u] # "off"
  <2>1. SUFFICES ASSUME NEW u \in Open' PROVE InQueue(u)' \/ pc'[u] # "off"
    OBVIOUS
  <2>2. u \in Ctx
    BY <1>2 DEF Ctx
  <2>3. CASE pc[u] # "off"
    BY <1>9, <2>2, <2>3 DEF Steady, Staying
  <2>4. ASSUME NEW i \in 1..Len(q), q[i] = u PROVE InQueue(u)' \/ pc'[u] # "off"
    <3>1. CASE i = 1
      <4>1. p[u] = "begin"
        BY <1>1, <1>6, <2>2, <2>4, <3>1
      <4> QED BY <1>6, <2>2, <4>1, WakeKinds
    <3>2. CASE i # 1
      <4>1. i - 1 \in 1..Len(Tail(q)) /\ Tail(q)[i - 1] = u
        BY <1>1, <2>4, <3>2
      <4> QED BY <1>5, <4>1 DEF InQueue
    <3> QED BY <3>1, <3>2
  <2> QED BY <2>3, <2>4
<1> QED BY <1>9, <1>10, SteadyPool

LEMMA PopFromQueuePool ==
  ASSUME ControlInv, PoolInv, queue # <<>>,
         NEW c \in Ctx, NEW x \in {"busy", "enqAssist", "waitAssist"},
         pc[c] \in {"idle", "enq", "enqWake", "wait"},
         (c \in Workers /\ x = "busy") \/ pc[c] \in BodyPCs,
         PopAndExecute(c, queue, x),
         UNCHANGED <<hstate, known, todo, xstate, initialized, capacity, live,
                     outstanding>>
  PROVE  PoolInv'
<1>1. queue \in Seq(Tasks) /\ QueueOK(pc, known, queue)
  BY ControlFacts DEF ControlInv, Shape
<1>2. Open' = Open /\ FewerCalls
  BY DEF Open, FewerCalls
<1>3. \A u \in Open' : u \in known
        /\ ((\E i \in 1..Len(queue) : queue[i] = u) \/ pc[u] # "off")
  BY <1>2 DEF PoolInv, CountInv, InQueue, Open
<1> QED BY <1>1, <1>2, <1>3, PopPool DEF PoolInv, CountInv

LEMMA AssistPool ==
  ASSUME ControlInv, PoolInv, NEW c \in Ctx, EnqueueAssist(c) \/ WaitAssist(c)
  PROVE  PoolInv'
<1>1. CASE EnqueueAssist(c)
  <2>1. pc[c] \in {"enq", "enqWake"} /\ pc[c] \in BodyPCs
    BY <1>1 DEF EnqueueAssist, EnqueueOpen, BodyPCs, StartPCs
  <2> QED BY <1>1, <2>1, PopFromQueuePool
          DEF EnqueueAssist, EnqueueMayAssist, taskVars, poolVars
<1>2. CASE WaitAssist(c)
  <2>1. pc[c] = "wait" /\ pc[c] \in BodyPCs
    BY <1>2 DEF WaitAssist, WaitGoesOn, BodyPCs, WaitPCs
  <2> QED BY <1>2, <2>1, PopFromQueuePool DEF WaitAssist, MayAssist, taskVars, poolVars
<1> QED BY <1>1, <1>2

LEMMA WorkerPopPool ==
  ASSUME ControlInv, PoolInv, NEW w \in Workers, WorkerPop(w)
  PROVE  PoolInv'
BY PopFromQueuePool DEF WorkerPop, taskVars, poolVars, Ctx

\* Taking t out of a queue loses no other task.
LEMMA WithoutKeeps ==
  ASSUME NEW q \in Seq(Tasks), NEW n \in 1..Len(q),
         \A i, j \in 1..Len(q) : q[i] = q[j] => i = j
  PROVE  \A i \in 1..Len(q) : q[i] # q[n] =>
           \E j \in 1..Len(QueueWithout(q, q[n])) : QueueWithout(q, q[n])[j] = q[i]
<1> DEFINE s == QueueWithout(q, q[n])
<1>1. (CHOOSE i \in 1..Len(q) : q[i] = q[n]) = n
  OBVIOUS
<1>2. s = [i \in 1..(Len(q) - 1) |-> IF i < n THEN q[i] ELSE q[i + 1]]
  BY <1>1 DEF QueueWithout
<1>3. Len(q) \in Nat \ {0}
  OBVIOUS
<1> HIDE DEF s
<1>4. Len(s) = Len(q) - 1
  BY <1>2, <1>3
<1>5. SUFFICES ASSUME NEW i \in 1..Len(q), q[i] # q[n]
      PROVE  \E j \in 1..Len(s) : s[j] = q[i]
  BY DEF s
<1>6. CASE i < n
  <2>1. i \in 1..Len(s)
    BY <1>3, <1>4, <1>6
  <2>2. s[i] = q[i]
    BY <1>2, <1>4, <1>6, <2>1
  <2> QED BY <2>1, <2>2
<1>7. CASE ~(i < n)
  <2>1. i # n
    BY <1>5
  <2>2. i - 1 \in 1..Len(s) /\ ~(i - 1 < n) /\ (i - 1) + 1 = i
    BY <1>3, <1>4, <1>7, <2>1
  <2>3. s[i - 1] = q[i]
    BY <1>2, <1>4, <2>2
  <2> QED BY <2>2, <2>3
<1> QED BY <1>6, <1>7

\* meth_async_cancel_locked takes at most its target out of what is to be done.
LEMMA CancelPool ==
  ASSUME ControlInv, PoolInv, NEW t \in known, CancelLocked(t), UNCHANGED known
  PROVE  /\ outstanding' = Cardinality(Open')
         /\ outstanding' = outstanding \/ initialized
         /\ queue = <<>> => QueueAfterCancel(t) = <<>>
         /\ \A u \in Open' : u \in known /\
              ( \/ \E i \in 1..Len(QueueAfterCancel(t)) : QueueAfterCancel(t)[i] = u
                \/ pc[u] # "off" )
<1>1. queue \in Seq(Tasks) /\ QueueOK(pc, known, queue) /\ t \in Tasks
  BY ControlFacts DEF ControlInv, Shape
<1>2. \A u \in Open : u \in known /\
        ((\E i \in 1..Len(queue) : queue[i] = u) \/ pc[u] # "off")
  BY DEF PoolInv, CountInv, InQueue, Open
<1>3. CASE TakesOut(t)
  <2>1. PICK n \in 1..Len(queue) : queue[n] = t
    BY <1>3 DEF TakesOut, InQueue
  <2>2. initialized /\ QueueAfterCancel(t) = QueueWithout(queue, t) /\ queue # <<>>
    BY <1>1, <1>3, <2>1 DEF TakesOut, QueueAfterCancel
  <2>3. CANCELLED \in QUEUED..CANCELLED /\ CANCELLED >= COMPLETED /\ ~(CANCELLED < COMPLETED)
    BY DEF QUEUED, COMPLETED, CANCELLED
  <2>4. outstanding' = Cardinality(Open') /\ Open' = Open \ {t}
    BY <1>3, <2>3, CountOne DEF CancelLocked, PoolInv
  <2>5. \A i \in 1..Len(queue) : queue[i] # t =>
          \E j \in 1..Len(QueueWithout(queue, t)) : QueueWithout(queue, t)[j] = queue[i]
    BY <1>1, <2>1, WithoutKeeps DEF QueueOK
  <2> QED BY <1>2, <2>2, <2>4, <2>5
<1>4. CASE ~TakesOut(t)
  <2>1. outstanding' = outstanding /\ Open' = Open /\ QueueAfterCancel(t) = queue
    BY <1>4 DEF CancelLocked, QueueAfterCancel, Open
  <2> QED BY <1>2, <2>1 DEF PoolInv, CountInv
<1> QED BY <1>3, <1>4

LEMMA CancelCallPool ==
  ASSUME ControlInv, PoolInv, NEW c \in Ctx, NEW o \in todo[c], CancelCall(c, o)
  PROVE  PoolInv'
<1>1. FewerCalls /\ pc \in [Ctx -> AllPCs] /\ pc' = Wake(pc)
        /\ UNCHANGED <<xstate, initialized, capacity, live, known>>
        /\ queue' = QueueAfterCancel(o.task) /\ o.task \in known /\ known \in SUBSET Tasks
  BY ConsumeFewer, ControlFacts DEF CancelCall, poolVars
<1>2. Steady(pc, pc')
  BY <1>1, SteadyWake DEF Steady, Staying
<1>3. /\ outstanding' = Cardinality(Open')
      /\ outstanding' = outstanding \/ initialized
      /\ queue = <<>> => queue' = <<>>
      /\ \A u \in Open' : u \in known /\
              ((\E i \in 1..Len(queue') : queue'[i] = u) \/ pc[u] # "off")
  BY <1>1, CancelPool DEF CancelCall
<1>4. \A u \in Open' : InQueue(u)' \/ pc'[u] # "off"
  BY <1>1, <1>2, <1>3 DEF InQueue, Steady, Staying, Ctx
<1> QED BY <1>1, <1>2, <1>3, <1>4, SteadyPool

LEMMA WaitPassCancelPool ==
  ASSUME ControlInv, PoolInv, NEW c \in Ctx, WaitPassCancel(c)
  PROVE  PoolInv'
<1> DEFINE q == QueueAfterCancel(arg[c])
<1>1. pc[c] = "wait" /\ pc[c] \in WaitPCs /\ pc[c] \in BodyPCs
  BY DEF WaitPassCancel, WaitGoesOn, BodyPCs, WaitPCs
<1>2. pc \in [Ctx -> AllPCs] /\ arg[c] \in known /\ arg[c] \in Tasks
        /\ known \in SUBSET Tasks
  BY <1>1, ControlFacts
<1>3. CancelLocked(arg[c]) /\ FewerCalls
        /\ UNCHANGED <<known, xstate, initialized, capacity, live>>
  BY DEF WaitPassCancel, FewerCalls, poolVars
<1>4. /\ q \in Seq(Tasks) /\ QueueOK(pc, known, q)
      /\ outstanding' = Cardinality(Open')
      /\ outstanding' = outstanding \/ initialized
      /\ queue = <<>> => q = <<>>
      /\ \A u \in Open' : u \in known /\
              ((\E i \in 1..Len(q) : q[i] = u) \/ pc[u] # "off")
  BY <1>2, <1>3, CancelFacts, CancelPool
<1>5. \/ q # <<>> /\ PopAndExecute(c, q, "waitAssist")
      \/ queue' = q /\ pc' = [Wake(pc) EXCEPT ![c] = "waitPark"]
  BY DEF WaitPassCancel, MayAssist
<1> HIDE DEF q
<1>6. CASE q # <<>> /\ PopAndExecute(c, q, "waitAssist")
  BY <1>1, <1>3, <1>4, <1>6, PopPool
<1>7. CASE queue' = q /\ pc' = [Wake(pc) EXCEPT ![c] = "waitPark"]
  <2>1. Wake(pc) \in [Ctx -> AllPCs] /\ Steady(pc, Wake(pc))
    BY <1>2, WakeKinds, SteadyWake DEF Steady, Staying
  <2>2. Wake(pc)[c] \notin StopPCs \cup {"gone"}
    BY <1>1, <1>2, <2>1, PlainPCs DEF Steady, Staying
  <2>3. Steady(Wake(pc), pc')
    BY <1>7, <2>1, <2>2, SteadyMove, PlainPCs
  <2>4. Steady(pc, pc')
    BY <2>1, <2>3, SteadyTrans
  <2>5. \A u \in Open' : InQueue(u)' \/ pc'[u] # "off"
    BY <1>2, <1>4, <1>7, <2>4 DEF InQueue, Steady, Staying, Ctx
  <2> QED BY <1>3, <1>4, <1>7, <2>4, <2>5, SteadyPool
<1> QED BY <1>5, <1>6, <1>7

\* An execution ends; its task is terminal by now.
LEMMA ExecEndPool ==
  ASSUME ControlInv, PoolInv, NEW t \in Tasks, ExecEnd(t)
  PROVE  PoolInv'
<1> DEFINE s == IF hstate[t] < COMPLETED THEN FinalState(t) ELSE hstate[t]
<1>1. pc[t] = "end" /\ hstate' = [hstate EXCEPT ![t] = s]
        /\ outstanding' = CountedOut(outstanding, hstate[t], s)
        /\ UNCHANGED <<known, queue, xstate, initialized, capacity, live, todo>>
  BY DEF ExecEnd, poolVars
<1>2. t \in known /\ t \in Ctx /\ FewerCalls /\ hstate[t] \in QUEUED..CANCELLED
        /\ pc \in [Ctx -> AllPCs] /\ known \in SUBSET Tasks
  BY <1>1, ControlFacts DEF Ctx, FewerCalls
<1>3. s \in QUEUED..CANCELLED /\ s >= COMPLETED /\ ~(s < COMPLETED)
  BY <1>2 DEF FinalState, QUEUED, COMPLETED, CANCELLED
<1> HIDE DEF s
<1>4. /\ Open' = Open \ {t} /\ outstanding' = Cardinality(Open')
      /\ outstanding' = outstanding \/ initialized
  BY <1>1, <1>2, <1>3, CountOne, CountedPool DEF PoolInv
<1>5. PICK p \in [Ctx -> AllPCs], b \in Ctx :
        /\ pc' = Wake(p)
        /\ pc[b] \in NestedPCs \cup {"busy"} /\ b # t
        /\ \A d \in Ctx : p[d] = IF d = t THEN "off"
                                 ELSE IF d = b THEN AfterExecute(pc[b])
                                 ELSE pc[d]
  BY EndMove
<1>6. AfterExecute(pc[b]) \in {"idle", "wait", "enq"}
  BY <1>5 DEF AfterExecute, NestedPCs
<1>7. pc[b] \notin StopPCs \cup {"gone", "off"}
  BY <1>5 DEF NestedPCs, StopPCs
<1>8. Staying(pc, p) /\ \A d \in Ctx : d # t => (p[d] = "off" => pc[d] = "off")
  BY <1>1, <1>5, <1>6, <1>7 DEF Staying, StopPCs
<1>9. Staying(p, pc') /\ \A d \in Ctx : pc'[d] = "off" => p[d] = "off"
  BY <1>5, WakeKinds DEF Staying
<1>10. Staying(pc, pc')
  BY <1>8, <1>9 DEF Staying
<1>11. \A u \in Open' : InQueue(u)' \/ pc'[u] # "off"
  BY <1>1, <1>2, <1>4, <1>8, <1>9 DEF PoolInv, CountInv, InQueue, Ctx, Open
<1> QED BY <1>1, <1>2, <1>4, <1>10, <1>11, StayingPool

\* A worker leaves: the count goes with it.
LEMMA WorkerLeavePool ==
  ASSUME ControlInv, PoolInv, NEW w \in Workers, WorkerLeave(w)
  PROVE  PoolInv'
<1> DEFINE p == [pc EXCEPT ![w] = "gone"]
<1>1. /\ pc[w] = "idle" /\ pc' = Wake(p) /\ w \in Ctx
      /\ live' = IF live > 0 THEN live - 1 ELSE live
      /\ UNCHANGED <<known, hstate, queue, xstate, initialized, capacity, todo,
                     outstanding>>
  BY DEF WorkerLeave, taskVars, poolVars, Ctx
<1>2. /\ pc \in [Ctx -> AllPCs] /\ known \in SUBSET Tasks
      /\ IsFiniteSet(Present) /\ Cardinality(Present) \in Nat
      /\ live = Cardinality(Present) /\ w \in Present
  BY <1>1, ControlFacts, OpenFinite DEF PoolInv, CountInv, Present
<1>3. live > 0
  BY <1>2, FS_EmptySet
<1>4. /\ p \in [Ctx -> AllPCs]
      /\ \A d \in Ctx : p[d] = IF d = w THEN "gone" ELSE pc[d]
  BY <1>1, <1>2 DEF AllPCs, WorkerPCs
<1> HIDE DEF p
<1>5. \A d \in Ctx : /\ pc'[d] \in StopPCs <=> pc[d] \in StopPCs
                     /\ pc'[d] \in {"sdLoop", "sdPark"} <=> pc[d] \in {"sdLoop", "sdPark"}
                     /\ pc'[d] = "sdFinal" <=> pc[d] = "sdFinal"
                     /\ pc'[d] = "off" <=> pc[d] = "off"
                     /\ pc'[d] = "gone" <=> pc[d] = "gone" \/ d = w
  <2>1. \A d \in Ctx : /\ p[d] \in StopPCs <=> pc[d] \in StopPCs
                       /\ p[d] \in {"sdLoop", "sdPark"} <=> pc[d] \in {"sdLoop", "sdPark"}
                       /\ p[d] = "sdFinal" <=> pc[d] = "sdFinal"
                       /\ p[d] = "off" <=> pc[d] = "off"
                       /\ p[d] = "gone" <=> pc[d] = "gone" \/ d = w
    BY <1>1, <1>4 DEF StopPCs
  <2> QED BY <1>1, <1>4, <2>1, WakeKinds
<1>6. Present' = Present \ {w} /\ Open' = Open
  BY <1>1, <1>5 DEF Present, Open, Ctx
<1>7. live' = Cardinality(Present')
  BY <1>1, <1>2, <1>3, <1>6, FS_RemoveElement
<1>8. CountInv'
  <2>1. \A t \in Open' : InQueue(t)' \/ pc'[t] # "off"
    BY <1>1, <1>2, <1>5, <1>6 DEF PoolInv, CountInv, InQueue, Ctx, Open
  <2> QED BY <1>1, <1>6, <1>7, <2>1 DEF PoolInv, CountInv
<1>9. \A d, e \in Ctx : MayStop(d)' /\ MayStop(e)' => d = e
  BY <1>1, <1>5 DEF PoolInv, StopInv, MayStop
<1>10. initialized /\ \A d \in Ctx : pc'[d] # "sdFinal"
  BY <1>3, <1>5, ControlFacts DEF PoolInv, StopInv
<1>11. StopInv'
  <2>1. xstate' = DRAINING => \E c \in Ctx : pc'[c] \in {"sdLoop", "sdPark"}
    BY <1>1, <1>5 DEF PoolInv, StopInv
  <2>2. xstate' = xstate /\ queue' = queue /\ initialized' = initialized
    BY <1>1
  <2>3. /\ xstate \in {DRAINING, STOPPING} => initialized
        /\ xstate = STOPPED => ~initialized
        /\ xstate >= STOPPING => queue = <<>>
    BY DEF PoolInv, StopInv
  <2>4. \A c \in Ctx : pc'[c] = "sdFinal" => xstate' = STOPPING /\ live' = 0
    BY <1>10
  <2> QED BY <2>1, <2>2, <2>3, <2>4, <1>9, <1>10, SMTT(30) DEF StopInv
<1> QED BY <1>8, <1>11 DEF PoolInv

\* A sequence without repetitions has as many members as it is long.
LEMMA DistinctMembers ==
  ASSUME NEW S, NEW q \in Seq(S), \A i, j \in 1..Len(q) : q[i] = q[j] => i = j
  PROVE  LET Q == {q[i] : i \in 1..Len(q)}
         IN  IsFiniteSet(Q) /\ Cardinality(Q) = Len(q)
<1> DEFINE n == Len(q)
           Q == {q[i] : i \in 1..n}
<1>1. n \in Nat
  OBVIOUS
<1> HIDE DEF n
<1>2. IsFiniteSet(1..n) /\ Cardinality(1..n) = n
  BY <1>1, FS_Interval
<1>3. q \in [1..n -> Q]
  BY DEF n
<1>4. q \in Injection(1..n, Q)
  BY <1>3 DEF Injection, IsInjective, n
<1>5. q \in Surjection(1..n, Q)
  BY <1>3 DEF Surjection
<1>6. IsFiniteSet(Q) /\ Cardinality(Q) = n
  BY <1>2, <1>4, <1>5, FS_Surjection
<1> QED BY <1>6 DEF n

\* An abort of the queue takes the queued tasks out of what is to be done.
LEMMA AbortPool ==
  ASSUME ControlInv, HeaderInv, CountInv, AbortQueued(TRUE), UNCHANGED known
  PROVE  /\ Open' \subseteq Open /\ outstanding' = Cardinality(Open')
         /\ \A u \in Open' : pc[u] # "off"
<1> DEFINE Q == {queue[i] : i \in 1..Len(queue)}
<1>1. /\ queue \in Seq(Tasks) /\ QueueOK(pc, known, queue) /\ known \in SUBSET Tasks
      /\ hstate \in [Tasks -> QUEUED..CANCELLED]
      /\ outstanding \in Nat /\ outstanding = Cardinality(Open) /\ IsFiniteSet(Open)
      /\ Len(queue) \in Nat
  BY ControlFacts, OpenFinite DEF ControlInv, Shape, CountInv
<1>2. Cardinality(Q) = Len(queue)
  BY <1>1, DistinctMembers DEF QueueOK
<1>3. Q \subseteq Open
  BY <1>1 DEF HeaderInv, Open, QueueOK, QUEUED, COMPLETED
<1>4. \A t \in Tasks : InQueue(t) <=> t \in Q
  BY DEF InQueue
<1> HIDE DEF Q
<1>5. /\ hstate' = [t \in Tasks |-> IF InQueue(t) THEN CANCELLED ELSE hstate[t]]
      /\ outstanding' = IF outstanding >= Len(queue)
                        THEN outstanding - Len(queue) ELSE 0
  BY DEF AbortQueued
<1>6. ~(CANCELLED < COMPLETED)
  BY DEF CANCELLED, COMPLETED
<1>7. Open' = Open \ Q
  BY <1>1, <1>4, <1>5, <1>6 DEF Open
<1>8. Open \cap Q = Q
  BY <1>3
<1>9. Cardinality(Open') = outstanding - Len(queue)
  <2>1. Cardinality(Open \ Q) = Cardinality(Open) - Cardinality(Open \cap Q)
    BY <1>1, FS_Difference
  <2> QED BY <1>1, <1>2, <1>7, <1>8, <2>1
<1>10. Cardinality(Q) <= Cardinality(Open)
  BY <1>1, <1>3, FS_Subset
<1>11. outstanding' = Cardinality(Open')
  BY <1>1, <1>2, <1>5, <1>9, <1>10
<1>12. \A u \in Open' : pc[u] # "off"
  BY <1>1, <1>4, <1>7 DEF CountInv, Open
<1> QED BY <1>7, <1>11, <1>12

\* One turn of the loop of shutdown, in the only context that stops the pool.
LEMMA LoopPool ==
  ASSUME ControlInv, HeaderInv, PoolInv, NEW c \in Ctx,
         pc[c] \in {"run", "sdLoop"}, MayStop(c),
         NEW x \in RUNNING..STOPPED, NEW entered \in BOOLEAN,
         ShutdownLoop(c, x, entered),
         entered => x \in {DRAINING, STOPPING} /\ initialized,
         ~entered => x = xstate,
         FewerCalls, UNCHANGED <<known, capacity, initialized, live>>
  PROVE  PoolInv'
<1> DEFINE expired == timer'[c] = "expired"
           givesUp == x = DRAINING /\ ~Drained(x) /\ expired
           y == IF Drained(x) \/ givesUp THEN STOPPING ELSE x
           finished == y = STOPPING /\ live = 0
           awake == IF entered \/ x # y THEN Wake(pc) ELSE pc
           aborts == givesUp \/ (entered /\ x = STOPPING)
           z == IF finished THEN "sdFinal" ELSE IF expired THEN "run" ELSE "sdPark"
<1>1. /\ xstate' = y /\ AbortQueued(aborts) /\ pc' = [awake EXCEPT ![c] = z]
  BY DEF ShutdownLoop
<1>2. /\ pc \in [Ctx -> AllPCs] /\ known \in SUBSET Tasks
      /\ \A w \in Workers : pc[w] \in WorkerPCs
  BY ControlFacts
<1>3. /\ RUNNING # DRAINING /\ RUNNING # STOPPING /\ RUNNING # STOPPED
      /\ DRAINING # STOPPING /\ DRAINING # STOPPED /\ STOPPING # STOPPED
      /\ \A i \in RUNNING..STOPPED : i >= STOPPING <=> i \in {STOPPING, STOPPED}
      /\ STOPPING \in RUNNING..STOPPED
  BY DEF RUNNING, DRAINING, STOPPING, STOPPED
<1>4. /\ awake \in [Ctx -> AllPCs]
      /\ \A d \in Ctx : /\ awake[d] \in StopPCs <=> pc[d] \in StopPCs
                        /\ awake[d] = "sdFinal" <=> pc[d] = "sdFinal"
                        /\ awake[d] = "gone" <=> pc[d] = "gone"
                        /\ awake[d] = "off" <=> pc[d] = "off"
  BY <1>2, WakeKinds
<1> HIDE DEF awake
<1>5. pc'[c] = z /\ \A d \in Ctx : d # c => pc'[d] = awake[d]
  BY <1>1, <1>4
<1>6. x \in {DRAINING, STOPPING} => initialized
  BY DEF PoolInv, StopInv
<1>7. \A d, e \in Ctx : MayStop(d)' /\ MayStop(e)' => d = e
  <2>1. \A d \in Ctx : MayStop(d)' => MayStop(d)
    BY <1>4, <1>5 DEF MayStop, FewerCalls
  <2> QED BY <2>1 DEF PoolInv, StopInv
<1>8. xstate' = DRAINING => \E d \in Ctx : pc'[d] \in {"sdLoop", "sdPark"}
  <2>1. SUFFICES ASSUME xstate' = DRAINING PROVE pc'[c] = "sdPark"
    OBVIOUS
  <2>2. x = DRAINING /\ ~expired /\ ~finished
    BY <1>1, <1>3, <2>1
  <2> QED BY <1>5, <2>2
<1>9. /\ xstate' \in {DRAINING, STOPPING} => initialized'
      /\ xstate' = STOPPED => ~initialized'
  BY <1>1, <1>3, <1>6 DEF Drained, PoolInv, StopInv
<1>10. aborts => queue' = <<>>
  BY <1>1 DEF AbortQueued
<1>11. ~aborts => UNCHANGED <<queue, hstate, outstanding>>
  BY <1>1 DEF AbortQueued
<1>12. xstate' >= STOPPING => queue' = <<>>
  <2>1. SUFFICES ASSUME xstate' >= STOPPING, ~aborts PROVE queue = <<>>
    BY <1>10, <1>11
  <2>2. y \in {STOPPING, STOPPED}
    BY <1>1, <1>3, <2>1
  <2>3. CASE Drained(x)
    BY <2>3 DEF Drained
  <2>4. CASE ~Drained(x)
    <3>1. x = y /\ ~entered
      BY <1>3, <2>1, <2>2, <2>4
    <3> QED BY <1>3, <2>2, <3>1 DEF PoolInv, StopInv
  <2> QED BY <2>3, <2>4
<1>13. ~initialized' => capacity' = 0 /\ queue' = <<>> /\ live' = 0 /\ outstanding' = 0
  BY <1>3, <1>6, <1>11 DEF PoolInv, StopInv
<1>14. \A d \in Ctx : pc'[d] = "sdFinal" => xstate' = STOPPING /\ live' = 0
  <2>1. SUFFICES ASSUME NEW d \in Ctx, pc'[d] = "sdFinal"
                 PROVE  xstate' = STOPPING /\ live' = 0
    OBVIOUS
  <2>2. d = c
    BY <1>4, <1>5, <2>1 DEF PoolInv, StopInv, MayStop, StopPCs
  <2>3. finished
    BY <1>5, <2>1, <2>2
  <2> QED BY <1>1, <2>3
<1>15. StopInv'
  BY <1>7, <1>8, <1>9, <1>12, <1>13, <1>14 DEF StopInv
<1>16. Present' = Present
  <2>1. \A w \in Workers : w \in Ctx /\ w # c
    BY <1>2 DEF Ctx, WorkerPCs
  <2> QED BY <1>4, <1>5, <2>1 DEF Present
<1>17. /\ outstanding' = Cardinality(Open')
       /\ \A u \in Open' : InQueue(u)' \/ pc[u] # "off"
  <2>1. CASE aborts
    <3>1. AbortQueued(TRUE)
      BY <1>1, <2>1 DEF AbortQueued
    <3> QED BY <3>1, AbortPool DEF PoolInv
  <2>2. CASE ~aborts
    <3>1. Open' = Open
      BY <1>11, <2>2 DEF Open
    <3> QED BY <1>11, <2>2, <3>1 DEF PoolInv, CountInv, InQueue
  <2> QED BY <2>1, <2>2
<1>18. \A u \in Open' : InQueue(u)' \/ pc'[u] # "off"
  <2>1. \A u \in Open' : u \in Ctx
    BY <1>2 DEF Open, Ctx
  <2>2. z # "off"
    OBVIOUS
  <2> QED BY <1>4, <1>5, <1>17, <2>1, <2>2
<1>19. CountInv'
  BY <1>16, <1>17, <1>18 DEF PoolInv, CountInv
<1> QED BY <1>15, <1>19 DEF PoolInv

\* The only stopper, at its call
LEMMA ShutdownCallPool ==
  ASSUME ControlInv, HeaderInv, PoolInv, NEW c \in Ctx, NEW o \in todo[c],
         ShutdownCall(c, o)
  PROVE  PoolInv'
<1> DEFINE x == IF o.drain /\ xstate = RUNNING THEN DRAINING ELSE STOPPING
<1>1. pc[c] = "run" /\ MayStop(c) /\ FewerCalls /\ initialized
  BY ConsumeFewer DEF ShutdownCall, Calls, MayStop
<1>2. x \in {DRAINING, STOPPING}
  OBVIOUS
<1>3. x \in RUNNING..STOPPED
  BY <1>2 DEF RUNNING, DRAINING, STOPPING, STOPPED
<1>4. ShutdownLoop(c, x, TRUE) /\ UNCHANGED <<known, capacity, initialized, live>>
  BY DEF ShutdownCall, poolVars
<1> HIDE DEF x
<1> QED BY <1>1, <1>2, <1>3, <1>4, LoopPool

LEMMA ShutdownWakePool ==
  ASSUME ControlInv, HeaderInv, PoolInv, NEW c \in Ctx, ShutdownWake(c)
  PROVE  PoolInv'
<1>1. pc[c] = "sdLoop" /\ MayStop(c) /\ FewerCalls /\ xstate \in RUNNING..STOPPED
  BY ControlFacts DEF ShutdownWake, MayStop, StopPCs, FewerCalls
<1>2. ShutdownLoop(c, xstate, FALSE) /\ UNCHANGED <<known, capacity, initialized, live>>
  BY DEF ShutdownWake, poolVars
<1> QED BY <1>1, <1>2, LoopPool

LEMMA ShutdownIdlePool ==
  ASSUME ControlInv, PoolInv, NEW c \in Ctx, NEW o \in todo[c], ShutdownIdle(c, o)
  PROVE  PoolInv'
<1>1. FewerCalls /\ Open' = Open
        /\ UNCHANGED <<queue, initialized, capacity, live, outstanding>>
  BY ConsumeFewer DEF ShutdownIdle, Open, taskVars
<1>2. CASE UNCHANGED <<xstate, initFailed, pc>>
  <2>1. Steady(pc, pc')
    BY <1>2 DEF Steady, Staying
  <2> QED BY <1>1, <1>2, <2>1, StillPool
<1>3. CASE ~initialized /\ xstate' = STOPPED /\ pc' = Wake(pc)
  <2>1. Steady(pc, pc')
    <3>1. Steady(pc, pc)
      BY DEF Steady, Staying
    <3>2. pc \in [Ctx -> AllPCs]
      BY ControlFacts
    <3>3. Steady(pc, Wake(pc))
      BY <3>1, <3>2, SteadyWake
    <3> QED BY <1>3, <3>3
  <2>2. \A t \in Open' : InQueue(t)' \/ pc'[t] # "off"
    BY <1>1, <2>1, ControlFacts DEF PoolInv, CountInv, InQueue, Steady, Staying, Ctx, Open
  <2>3. Present' = Present
    BY <2>1 DEF Present, Steady, Staying, Ctx
  <2>4. CountInv'
    BY <1>1, <2>2, <2>3 DEF PoolInv, CountInv
  <2>5. STOPPED # DRAINING /\ STOPPED # STOPPING
    BY DEF DRAINING, STOPPING, STOPPED
  <2>6. \A d, e \in Ctx : MayStop(d)' /\ MayStop(e)' => d = e
    BY <1>1, <2>1 DEF PoolInv, StopInv, MayStop, FewerCalls, Steady, Staying
  <2>7. \A d \in Ctx : pc'[d] # "sdFinal"
    BY <1>3, <2>1 DEF PoolInv, StopInv, Steady, Staying
  <2>8. StopInv'
    BY <1>1, <1>3, <2>5, <2>6, <2>7 DEF PoolInv, StopInv
  <2> QED BY <2>4, <2>8 DEF PoolInv
<1> QED BY <1>2, <1>3 DEF ShutdownIdle

\* No worker, no executing task
LEMMA NobodyExecutes ==
  ASSUME ControlInv, Present = {} PROVE \A t \in Tasks : pc[t] = "off"
<1>1. StackOK(pc, known, stack) /\ stack \in [Workers -> Seq(Tasks)]
  BY ControlFacts DEF ControlInv, Shape
<1>2. \A w \in Workers : pc[w] = "gone"
  BY DEF Present
<1>3. \A w \in Workers : stack[w] = <<>>
  BY <1>1, <1>2 DEF StackOK
<1>4. \A w \in Workers : \A i \in 1..Len(stack[w]) : FALSE
  BY <1>3
<1> QED BY <1>1, <1>4 DEF StackOK

\* The stopper has found the pool empty, and it still is.
LEMMA ShutdownFinalPool ==
  ASSUME ControlInv, PoolInv, NEW c \in Ctx, ShutdownFinal(c)
  PROVE  PoolInv'
<1> DEFINE p == [pc EXCEPT ![c] = "run"]
<1>1. /\ pc[c] = "sdFinal" /\ pc' = Wake(p) /\ xstate' = STOPPED
      /\ queue' = <<>> /\ capacity' = 0 /\ live' = 0 /\ outstanding' = 0
      /\ initialized' = FALSE
      /\ UNCHANGED <<hstate, known, todo>>
  BY DEF ShutdownFinal, taskVars
<1>2. pc \in [Ctx -> AllPCs] /\ known \in SUBSET Tasks
        /\ \A w \in Workers : pc[w] \in WorkerPCs
  BY ControlFacts
<1>3. xstate = STOPPING /\ live = 0 /\ queue = <<>>
  BY <1>1 DEF PoolInv, StopInv, STOPPING
<1>4. Present = {}
  BY <1>3, OpenFinite DEF PoolInv, CountInv
<1>5. Open = {}
  BY <1>2, <1>3, <1>4, NobodyExecutes DEF PoolInv, CountInv, InQueue, Open
<1>6. p \in [Ctx -> AllPCs] /\ \A d \in Ctx : p[d] = IF d = c THEN "run" ELSE pc[d]
  BY <1>2, PlainPCs
<1> HIDE DEF p
<1>7. \A d \in Ctx : /\ pc'[d] \in StopPCs => pc[d] \in StopPCs
                     /\ pc'[d] = "sdFinal" => pc[d] = "sdFinal" /\ d # c
                     /\ pc[d] = "gone" => pc'[d] = "gone"
  <2>1. \A d \in Ctx : /\ p[d] \in StopPCs => pc[d] \in StopPCs
                       /\ p[d] = "sdFinal" => pc[d] = "sdFinal" /\ d # c
                       /\ pc[d] = "gone" => p[d] = "gone"
    BY <1>1, <1>6 DEF StopPCs
  <2> QED BY <1>1, <1>6, <2>1, WakeKinds
<1>8. Present' = {} /\ Open' = {}
  <2>1. \A w \in Workers : w \in Ctx /\ pc[w] = "gone"
    BY <1>4 DEF Present, Ctx
  <2> QED BY <1>1, <1>5, <1>7, <2>1 DEF Present, Open
<1>9. CountInv'
  BY <1>1, <1>8, FS_EmptySet DEF CountInv
<1>10. \A d, e \in Ctx : MayStop(d)' /\ MayStop(e)' => d = e
  BY <1>1, <1>7 DEF PoolInv, StopInv, MayStop
<1>11. \A d \in Ctx : pc'[d] # "sdFinal"
  BY <1>1, <1>7 DEF PoolInv, StopInv, MayStop, StopPCs
<1>12. STOPPED # DRAINING /\ STOPPED # STOPPING
  BY DEF DRAINING, STOPPING, STOPPED
<1>13. StopInv'
  BY <1>1, <1>10, <1>11, <1>12 DEF StopInv
<1> QED BY <1>9, <1>13 DEF PoolInv

LEMMA NextPool ==
  ASSUME ControlInv, HeaderInv, PoolInv, [Next]_vars
  PROVE  PoolInv'
<1>1. ASSUME NEW c \in Ctx, Call(c) PROVE PoolInv'
  <2>1. PICK o \in todo[c] :
          \/ QueryCall(c, o) \/ StartCall(c, o) \/ CancelCall(c, o)
          \/ WaitCall(c, o) \/ ShutdownIdle(c, o) \/ ShutdownCall(c, o)
          \/ ResetCall(c, o) \/ ConfigureCall(c, o)
    BY <1>1 DEF Call
  <2> QED BY <2>1, QueryPool, StartCallPool, CancelCallPool, WaitCallPool,
             ShutdownIdlePool, ShutdownCallPool, ResetPool, ConfigurePool
<1>2. ASSUME NEW c \in Ctx, Step(c) PROVE PoolInv'
  BY <1>1, <1>2, StartInitPool, EnqueueRefusedPool, EnqueuePushPool, AssistPool,
     SleepPool, WaitPassCancelPool, ShutdownWakePool, ShutdownFinalPool DEF Step
<1>3. ASSUME NEW w \in Workers, WorkerStep(w) PROVE PoolInv'
  BY <1>3, WorkerPopPool, WorkerParkPool, WorkerLeavePool DEF WorkerStep
<1>4. ASSUME NEW t \in Tasks, ExecStep(t) PROVE PoolInv'
  BY <1>4, ExecBeginPool, BodyReturnPool, BodyFinishPool, ExecEndPool DEF ExecStep
<1>5. CASE UNCHANGED vars
  BY <1>5, UnchangedPool
<1>6. CASE Next
  BY <1>2, <1>3, <1>4, <1>6, DeadlinePool, SpuriousWakePool DEF Next
<1> QED BY <1>5, <1>6

LEMMA InitialPool ==
  ASSUME OneStopper, Init PROVE PoolInv
<1>1. \A c \in Ctx : pc[c] \in {"gone", "run", "off"}
  BY DEF Init
<1>2. \A c, d \in Ctx : MayStop(c) /\ MayStop(d) => c = d
  BY <1>1 DEF Init, OneStopper, MayStop, StopPCs
<1>3. RUNNING # DRAINING /\ RUNNING # STOPPING /\ RUNNING # STOPPED
  BY DEF RUNNING, DRAINING, STOPPING, STOPPED
<1>4. StopInv
  BY <1>1, <1>2, <1>3 DEF Init, StopInv
<1>5. Open = {} /\ Present = {}
  BY DEF Init, Open, Present, Ctx
<1>6. CountInv
  BY <1>5, FS_EmptySet DEF Init, CountInv
<1> QED BY <1>4, <1>6 DEF PoolInv

\* With one stopper the life of the pool is as StopInv says, and CountInv holds.
THEOREM PoolInvariant ==
  ASSUME OneStopper PROVE Spec => []PoolInv
<1>1. Init => PoolInv
  BY InitialPool
<1>2. ControlInv /\ HeaderInv /\ PoolInv /\ [Next]_vars => PoolInv'
  BY NextPool
<1> QED BY <1>1, <1>2, ControlInvariant, HeaderInvariant, PTL DEF Spec

\* Both counters are exact in every reachable state: outstanding_tasks is the
\* number of accepted tasks that are not terminal, live_worker_threads that of
\* the threads inside worker_main.
THEOREM CountersAreExact ==
  ASSUME OneStopper PROVE Spec => []CountersExact
<1>1. ControlInv /\ HeaderInv /\ PoolInv => CountersExact
  <2>1. SUFFICES ASSUME ControlInv, HeaderInv, PoolInv PROVE CountersExact
    OBVIOUS
  <2>2. /\ \A t \in Tasks : pc[t] # "off" => t \in known
        /\ \A i \in 1..Len(queue) : queue[i] \in known
        /\ known \in SUBSET Tasks
    BY <2>1, ControlFacts
  <2>3. \A t \in Tasks : InQueue(t) => t \in known /\ hstate[t] < COMPLETED
    BY <2>1, <2>2 DEF HeaderInv, InQueue, QUEUED, COMPLETED
  <2>4. \A t \in Tasks : t \in Open <=> t \in Pending
    BY <2>1, <2>2, <2>3 DEF PoolInv, CountInv, Open, Pending, Executing
  <2>5. Open = Pending
    BY <2>2, <2>4 DEF Open, Pending
  <2> QED BY <2>1, <2>5 DEF PoolInv, CountInv, CountersExact, Present
<1> QED BY <1>1, ControlInvariant, HeaderInvariant, PoolInvariant, PTL

\* A stopped runtime has no worker, no executing task, no queued task and no
\* started task without a final state.
THEOREM StoppedMeansQuiet ==
  ASSUME OneStopper PROVE Spec => []StoppedIsQuiet
<1>1. ControlInv /\ PoolInv => StoppedIsQuiet
  <2>1. SUFFICES ASSUME ControlInv, PoolInv, xstate = STOPPED
        PROVE  /\ queue = <<>> /\ Executing = {}
               /\ \A w \in Workers : pc[w] = "gone"
               /\ \A t \in known : hstate[t] >= COMPLETED
    BY DEF StoppedIsQuiet
  <2>2. queue = <<>> /\ live = 0 /\ outstanding = 0
    BY <2>1 DEF PoolInv, StopInv
  <2>3. Present = {} /\ Open = {}
    BY <2>1, <2>2, OpenFinite DEF PoolInv, CountInv
  <2>4. Executing = {}
    BY <2>1, <2>3, NobodyExecutes DEF Executing
  <2>5. hstate \in [Tasks -> QUEUED..CANCELLED] /\ known \in SUBSET Tasks
    BY <2>1, ControlFacts
  <2>6. \A t \in known : hstate[t] >= COMPLETED
    BY <2>3, <2>5 DEF Open, QUEUED, COMPLETED, CANCELLED
  <2> QED BY <2>2, <2>3, <2>4, <2>6 DEF Present
<1> QED BY <1>1, ControlInvariant, PoolInvariant, PTL

\* A drain whose deadline has not passed gives way to a stop only when every
\* task ever started is terminal: the stopper that sleeps in the drain is the
\* only one that can end it, and it reads an exact counter.
THEOREM DrainWaits ==
  ASSUME OneStopper PROVE Spec => DrainWaitsForAll
<1> DEFINE Waits == /\ xstate = DRAINING /\ xstate' = STOPPING
                    /\ \A c \in Ctx : timer[c] # "expired"
                    => \A t \in known : hstate[t] >= COMPLETED
<1>1. ControlInv /\ PoolInv /\ [Next]_vars => [Waits]_vars
  <2>1. SUFFICES ASSUME ControlInv, PoolInv, [Next]_vars,
                        xstate = DRAINING, xstate' = STOPPING,
                        \A c \in Ctx : timer[c] # "expired"
                 PROVE  \A t \in known : hstate[t] >= COMPLETED
    OBVIOUS
  <2>2. DRAINING # STOPPING /\ RUNNING # STOPPING /\ STOPPED # STOPPING
        /\ DRAINING # STOPPED
    BY DEF RUNNING, DRAINING, STOPPING, STOPPED
  <2>3. \E c \in Ctx : ShutdownWake(c) \/ \E o \in todo[c] : ShutdownCall(c, o)
    <3>1. Next /\ xstate' # xstate
      BY <2>1, <2>2 DEF vars
    <3>2. ASSUME NEW c \in Ctx, Call(c)
          PROVE  \E o \in todo[c] : ShutdownCall(c, o)
      <4>1. PICK o \in todo[c] :
              \/ QueryCall(c, o) \/ StartCall(c, o) \/ CancelCall(c, o)
              \/ WaitCall(c, o) \/ ShutdownIdle(c, o) \/ ShutdownCall(c, o)
              \/ ResetCall(c, o) \/ ConfigureCall(c, o)
        BY <3>2 DEF Call
      <4> QED BY <2>1, <2>2, <3>1, <4>1
              DEF QueryCall, StartCall, CancelCall, WaitCall, ShutdownIdle, ResetCall,
                  ConfigureCall, InitReturns1, InitReturns0, PoolUnchanged, PoolFails,
                  StartPool
    <3>3. ASSUME NEW c \in Ctx, Step(c)
          PROVE  ShutdownWake(c) \/ \E o \in todo[c] : ShutdownCall(c, o)
      BY <2>1, <2>2, <3>1, <3>2, <3>3
         DEF Step, StartInit, InitReturns1, InitReturns0, PoolUnchanged, PoolFails,
             StartPool, EnqueueRefused, EnqueuePush, EnqueueAssist, EnqueueWait,
             WaitReturn, WaitAssist, WaitPark, WaitPassCancel, ShutdownFinal
    <3> QED BY <3>1, <3>3
            DEF Next, DeadlineExpires, SpuriousWake, WorkerStep, WorkerPop, WorkerPark,
                WorkerLeave, ExecStep, ExecBegin, BodyReturn, BodyFinish, ExecEnd
  <2>4. PICK c \in Ctx : ShutdownWake(c) \/ \E o \in todo[c] : ShutdownCall(c, o)
    BY <2>3
  <2>5. ShutdownWake(c)
    <3>1. SUFFICES ASSUME NEW o \in todo[c], ShutdownCall(c, o) PROVE FALSE
      BY <2>4
    <3>2. pc[c] = "run" /\ MayStop(c)
      BY <3>1 DEF ShutdownCall, Calls, MayStop
    <3>3. PICK d \in Ctx : pc[d] \in {"sdLoop", "sdPark"}
      BY <2>1 DEF PoolInv, StopInv
    <3>4. MayStop(d)
      BY <3>3 DEF MayStop, StopPCs
    <3> QED BY <2>1, <3>2, <3>3, <3>4 DEF PoolInv, StopInv
  <2>6. Drained(xstate)
    BY <2>1, <2>2, <2>5 DEF ShutdownWake, ShutdownLoop
  <2>7. Open = {}
    BY <2>1, <2>6, OpenFinite DEF Drained, PoolInv, CountInv
  <2>8. hstate \in [Tasks -> QUEUED..CANCELLED] /\ known \in SUBSET Tasks
    BY <2>1, ControlFacts
  <2> QED BY <2>7, <2>8 DEF Open, QUEUED, COMPLETED, CANCELLED
<1> QED BY <1>1, ControlInvariant, PoolInvariant, PTL DEF Spec, DrainWaitsForAll

-----------------------------------------------------------------------------
(***************************************************************************)
(* The ready queue as a ring.  From here on TaskRing: for every capacity   *)
(* it implements the bounded FIFO that the executor's queue is, and no     *)
(* slot outside of it holds a task.  The slots first.                      *)
(***************************************************************************)
LEMMA CapacityFact == Capacity \in Nat \ {0}
BY RingAssumption

\* An index inside the ring is left alone by the modulo, one at most a turn
\* past it wraps once.
LEMMA ModFacts ==
  ASSUME NEW c \in Nat \ {0}
  PROVE  /\ \A x \in 0..(c - 1) : x % c = x
         /\ \A x \in c..(2 * c - 1) : x % c = x - c
OBVIOUS

\* Slot i of the ring counted from h, and the offset of slot k
SlotOf(h, i) == IF h + i < Capacity THEN h + i ELSE h + i - Capacity
OffsetOf(h, k) == IF h <= k THEN k - h ELSE k - h + Capacity

\* Each modulo of the code is a comparison and a subtraction.
LEMMA SlotFacts ==
  ASSUME NEW h \in 0..(Capacity - 1), NEW i \in 0..Capacity
  PROVE  /\ (h + i) % Capacity = SlotOf(h, i)
         /\ (h + i) % Capacity \in 0..(Capacity - 1)
<1>1. CASE h + i < Capacity
  <2>1. h + i \in 0..(Capacity - 1)
    BY <1>1, CapacityFact
  <2> QED
    BY <1>1, <2>1, CapacityFact, ModFacts DEF SlotOf
<1>2. CASE ~(h + i < Capacity)
  <2>1. h + i \in Capacity..(2 * Capacity - 1)
    BY <1>2, CapacityFact
  <2>2. (h + i) % Capacity = h + i - Capacity
    BY <2>1, CapacityFact, ModFacts
  <2> QED
    BY <1>2, <2>1, <2>2, CapacityFact DEF SlotOf
<1> QED
  BY <1>1, <1>2

LEMMA OffsetFacts ==
  ASSUME NEW h \in 0..(Capacity - 1), NEW k \in 0..(Capacity - 1)
  PROVE  /\ (k - h + Capacity) % Capacity = OffsetOf(h, k)
         /\ OffsetOf(h, k) \in 0..(Capacity - 1)
         /\ SlotOf(h, OffsetOf(h, k)) = k
<1> DEFINE x == k - h + Capacity
<1>1. CASE h <= k
  <2>1. x \in Capacity..(2 * Capacity - 1) /\ x - Capacity = k - h
    BY <1>1, CapacityFact
  <2> HIDE DEF x
  <2>2. x % Capacity = k - h
    BY <2>1, CapacityFact, ModFacts
  <2> QED
    BY <1>1, <2>2, CapacityFact DEF OffsetOf, SlotOf, x
<1>2. CASE ~(h <= k)
  <2>1. x \in 0..(Capacity - 1)
    BY <1>2, CapacityFact
  <2> HIDE DEF x
  <2>2. x % Capacity = x
    BY <2>1, CapacityFact, ModFacts
  <2> QED
    BY <1>2, <2>1, <2>2, CapacityFact DEF OffsetOf, SlotOf, x
<1> QED
  BY <1>1, <1>2

\* Two offsets below the capacity are two slots.
LEMMA SlotsApart ==
  ASSUME NEW h \in 0..(Capacity - 1),
         NEW i \in 0..(Capacity - 1), NEW j \in 0..(Capacity - 1)
  PROVE  /\ SlotOf(h, i) \in 0..(Capacity - 1)
         /\ SlotOf(h, i) = SlotOf(h, j) => i = j
         /\ OffsetOf(h, SlotOf(h, i)) = i
BY CapacityFact DEF SlotOf, OffsetOf

\* The slot after the first one is the first one of the ring moved on.
LEMMA NextSlot ==
  ASSUME NEW h \in 0..(Capacity - 1), NEW i \in 0..(Capacity - 1)
  PROVE  /\ SlotOf(h, 1) \in 0..(Capacity - 1)
         /\ SlotOf(SlotOf(h, 1), i) = IF i = Capacity - 1 THEN h ELSE SlotOf(h, i + 1)
BY CapacityFact DEF SlotOf

-----------------------------------------------------------------------------
(***************************************************************************)
(* Contents.                                                               *)
(***************************************************************************)
Item == Headers \cup {Null}

\* The n items of the ring b, read from h
Read(b, h, n) == [i \in 1..n |-> b[(h + (i - 1)) % Capacity]]

LEMMA ReadFacts ==
  ASSUME NEW b \in [0..(Capacity - 1) -> Item],
         NEW h \in 0..(Capacity - 1), NEW n \in 0..Capacity
  PROVE  /\ Read(b, h, n) \in Seq(Item)
         /\ Len(Read(b, h, n)) = n
         /\ \A i \in 1..n : Read(b, h, n)[i] = b[SlotOf(h, i - 1)]
<1>1. \A i \in 1..n : /\ (h + (i - 1)) % Capacity = SlotOf(h, i - 1)
                      /\ (h + (i - 1)) % Capacity \in 0..(Capacity - 1)
  <2> SUFFICES ASSUME NEW i \in 1..n
               PROVE  /\ (h + (i - 1)) % Capacity = SlotOf(h, i - 1)
                      /\ (h + (i - 1)) % Capacity \in 0..(Capacity - 1)
    OBVIOUS
  <2>1. i - 1 \in 0..Capacity
    BY CapacityFact
  <2> QED
    BY <2>1, SlotFacts
<1>2. Read(b, h, n) \in [1..n -> Item]
  BY <1>1 DEF Read
<1>3. n \in Nat
  BY CapacityFact
<1>4. Read(b, h, n) \in Seq(Item)
  BY <1>2, <1>3, SeqDef
<1>5. Len(Read(b, h, n)) = n
  BY <1>2, <1>3, <1>4, LenProperties DEF Read
<1> QED
  BY <1>1, <1>4, <1>5 DEF Read

LEMMA ContentsRead ==
  /\ Contents = Read(slots, head, size)
  /\ Contents' = Read(slots', head', size')
BY DEF Contents, Slot, Read

\* A sequence without its k-th element
LEMMA WithoutFacts ==
  ASSUME NEW S, NEW s \in Seq(S), NEW k \in 1..Len(s)
  PROVE  LET r == SubSeq(s, 1, k - 1) \o SubSeq(s, k + 1, Len(s))
         IN  /\ r \in Seq(S)
             /\ Len(r) = Len(s) - 1
             /\ \A i \in 1..(Len(s) - 1) : r[i] = IF i < k THEN s[i] ELSE s[i + 1]
<1> DEFINE n == Len(s)
           p == SubSeq(s, 1, k - 1)
           q == SubSeq(s, k + 1, n)
<1>1. n \in Nat /\ \A i \in 1..n : s[i] \in S
  BY LenProperties, ElementOfSeq
<1>2. /\ p \in Seq(S) /\ Len(p) = k - 1
      /\ \A i \in 1..(k - 1) : p[i] = s[i]
  <2>1. 1 \in Int /\ k - 1 \in Int /\ \A i \in 1..(k - 1) : s[i] \in S
    BY <1>1
  <2>2. /\ p \in Seq(S)
        /\ Len(p) = IF 1 <= k - 1 THEN (k - 1) - 1 + 1 ELSE 0
        /\ \A i \in 1..((k - 1) - 1 + 1) : p[i] = s[1 + i - 1]
    BY <2>1, SubSeqProperties
  <2> HIDE DEF p
  <2> QED
    BY <1>1, <2>2
<1>3. /\ q \in Seq(S) /\ Len(q) = n - k
      /\ \A i \in 1..(n - k) : q[i] = s[k + i]
  <2>1. k + 1 \in Int /\ n \in Int /\ \A i \in (k + 1)..n : s[i] \in S
    BY <1>1
  <2>2. /\ q \in Seq(S)
        /\ Len(q) = IF k + 1 <= n THEN n - (k + 1) + 1 ELSE 0
        /\ \A i \in 1..(n - (k + 1) + 1) : q[i] = s[(k + 1) + i - 1]
    BY <2>1, SubSeqProperties
  <2> HIDE DEF q
  <2>3. \A i \in 1..(n - k) : (k + 1) + i - 1 = k + i /\ n - (k + 1) + 1 = n - k
    BY <1>1
  <2> QED
    BY <1>1, <2>2, <2>3
<1> HIDE DEF p, q
<1>4. /\ p \o q \in Seq(S)
      /\ Len(p \o q) = Len(p) + Len(q)
      /\ \A i \in 1..(Len(p) + Len(q)) :
            (p \o q)[i] = IF i <= Len(p) THEN p[i] ELSE q[i - Len(p)]
  BY <1>2, <1>3, ConcatProperties
<1>5. Len(p) + Len(q) = n - 1
  BY <1>1, <1>2, <1>3
<1>6. ASSUME NEW i \in 1..(n - 1)
      PROVE  (p \o q)[i] = IF i < k THEN s[i] ELSE s[i + 1]
  <2>1. CASE i < k
    BY <1>1, <1>2, <1>4, <1>5, <2>1
  <2>2. CASE ~(i < k)
    <3>1. i - Len(p) \in 1..(n - k) /\ k + (i - Len(p)) = i + 1 /\ ~(i <= Len(p))
      BY <1>1, <1>2, <2>2
    <3> QED
      BY <1>3, <1>4, <1>5, <2>2, <3>1
  <2> QED
    BY <2>1, <2>2
<1> QED
  BY <1>4, <1>5, <1>6 DEF p, q

-----------------------------------------------------------------------------
(***************************************************************************)
(* The three operations.                                                   *)
(***************************************************************************)
LEMMA TypedStep ==
  ASSUME RingTypeOK
  PROVE  /\ slots \in [0..(Capacity - 1) -> Item]
         /\ head \in 0..(Capacity - 1) /\ size \in 0..Capacity
         /\ Contents \in Seq(Item) /\ Len(Contents) = size
         /\ \A i \in 1..size : Contents[i] = slots[SlotOf(head, i - 1)]
         /\ \A i \in 0..Capacity : Slot(i) = SlotOf(head, i)
<1>1. /\ slots \in [0..(Capacity - 1) -> Item]
      /\ head \in 0..(Capacity - 1) /\ size \in 0..Capacity
  BY DEF RingTypeOK, Item
<1>2. \A i \in 0..Capacity : Slot(i) = SlotOf(head, i)
  BY <1>1, SlotFacts DEF Slot
<1> QED
  BY <1>1, <1>2, ReadFacts, ContentsRead

LEMMA RingPushStep ==
  ASSUME RingTypeOK, NEW t \in Headers, Push(t)
  PROVE  RingTypeOK' /\ Queue!Push(t)
<1> USE CapacityFact, TypedStep
<1>1. size \in 0..(Capacity - 1) /\ size + 1 \in 0..Capacity /\ size' = size + 1 /\ head' = head
  BY DEF Push
<1>2. SlotOf(head, size) \in 0..(Capacity - 1) /\ Slot(size) = SlotOf(head, size)
  BY <1>1, SlotsApart
<1>3. slots' = [slots EXCEPT ![SlotOf(head, size)] = t]
  BY <1>2 DEF Push
<1>4. t \in Item
  BY DEF Item
<1>5. slots' \in [0..(Capacity - 1) -> Item]
  BY <1>2, <1>3, <1>4
<1>6. /\ Contents' \in Seq(Item) /\ Len(Contents') = size + 1
      /\ \A i \in 1..(size + 1) : Contents'[i] = slots'[SlotOf(head, i - 1)]
  BY <1>1, <1>5, ReadFacts, ContentsRead
<1>7. /\ Append(Contents, t) \in Seq(Item) /\ Len(Append(Contents, t)) = size + 1
      /\ \A i \in 1..size : Append(Contents, t)[i] = Contents[i]
      /\ Append(Contents, t)[size + 1] = t
  BY <1>4, AppendProperties
<1>8. ASSUME NEW i \in 1..(size + 1)
      PROVE  Contents'[i] = Append(Contents, t)[i]
  <2>1. CASE i = size + 1
    <3>1. i - 1 = size
      BY <1>1, <2>1
    <3> QED
      BY <1>2, <1>3, <1>6, <1>7, <2>1, <3>1
  <2>2. CASE i # size + 1
    <3>1. i \in 1..size /\ i - 1 \in 0..(Capacity - 1) /\ i - 1 # size
      BY <1>1, <2>2
    <3>2. SlotOf(head, i - 1) # SlotOf(head, size) /\ SlotOf(head, i - 1) \in 0..(Capacity - 1)
      BY <1>1, <3>1, SlotsApart
    <3> QED
      BY <1>3, <1>6, <1>7, <3>1, <3>2
  <2> QED
    BY <2>1, <2>2
<1>9. Contents' = Append(Contents, t)
  BY <1>6, <1>7, <1>8, SeqEqual
<1>10. Len(Contents) < Capacity
  BY DEF Push
<1>11. RingTypeOK'
  BY <1>1, <1>5 DEF RingTypeOK, Item
<1> QED
  BY <1>9, <1>10, <1>11 DEF Queue!Push

LEMMA RingPopStep ==
  ASSUME RingTypeOK, Pop
  PROVE  RingTypeOK' /\ Queue!Pop
<1> USE CapacityFact, TypedStep
<1>1. size \in 1..Capacity /\ size - 1 \in 0..Capacity /\ size' = size - 1
  BY DEF Pop
<1>2. slots' = [slots EXCEPT ![head] = Null] /\ slots' \in [0..(Capacity - 1) -> Item]
  BY DEF Pop, Item
<1>3. head' = SlotOf(head, 1) /\ head' \in 0..(Capacity - 1)
  <2>1. 1 \in 0..Capacity
    OBVIOUS
  <2> QED
    BY <2>1, SlotFacts DEF Pop
<1>4. /\ Contents' \in Seq(Item) /\ Len(Contents') = size - 1
      /\ \A i \in 1..(size - 1) : Contents'[i] = slots'[SlotOf(head', i - 1)]
  <2>1. /\ Read(slots', head', size - 1) \in Seq(Item)
        /\ Len(Read(slots', head', size - 1)) = size - 1
        /\ \A i \in 1..(size - 1) :
              Read(slots', head', size - 1)[i] = slots'[SlotOf(head', i - 1)]
    BY <1>1, <1>2, <1>3, ReadFacts, ZenonT(60)
  <2> QED
    BY <1>1, <2>1, ContentsRead
<1>5. Contents # <<>>
  BY <1>1, EmptySeq
<1>6. /\ Tail(Contents) \in Seq(Item) /\ Len(Tail(Contents)) = size - 1
      /\ \A i \in 1..(size - 1) : Tail(Contents)[i] = Contents[i + 1]
  BY <1>5, HeadTailProperties
<1>7. ASSUME NEW i \in 1..(size - 1)
      PROVE  Contents'[i] = Tail(Contents)[i]
  <2>1. i - 1 \in 0..(Capacity - 1) /\ i - 1 # Capacity - 1 /\ (i - 1) + 1 = i /\ i \in 0..(Capacity - 1)
    BY <1>1
  <2>2. SlotOf(head', i - 1) = SlotOf(head, i)
    BY <1>3, <2>1, NextSlot
  <2>3. SlotOf(head, 0) = head /\ 0 \in 0..(Capacity - 1)
    BY DEF SlotOf
  <2>4. SlotOf(head, i) # head /\ SlotOf(head, i) \in 0..(Capacity - 1)
    BY <2>1, <2>3, SlotsApart, SMTT(30)
  <2>5. Contents'[i] = slots[SlotOf(head, i)]
    BY <1>2, <1>4, <2>2, <2>4
  <2>6. i + 1 \in 1..size /\ (i + 1) - 1 = i
    BY <1>1
  <2>7. Contents[i + 1] = slots[SlotOf(head, i)]
    BY <2>6
  <2> QED
    BY <1>6, <2>5, <2>7
<1>8. Contents' = Tail(Contents)
  BY <1>4, <1>6, <1>7, SeqEqual
<1>9. RingTypeOK'
  BY <1>1, <1>2, <1>3 DEF RingTypeOK, Item
<1> QED
  BY <1>5, <1>8, <1>9 DEF Queue!Pop

\* What Remove leaves at offset i: the items behind the one found move up.
LEMMA RemovedSlots ==
  ASSUME RingTypeOK, size > 0, NEW found \in 0..(size - 1),
         slots' = [k \in 0..(Capacity - 1) |->
                     IF k = Slot(size - 1) THEN Null
                     ELSE LET i == (k - head + Capacity) % Capacity
                          IN  IF i >= found /\ i < size - 1
                              THEN slots[Slot(i + 1)] ELSE slots[k]]
  PROVE  /\ slots' \in [0..(Capacity - 1) -> Item]
         /\ \A i \in 0..(size - 2) :
              slots'[SlotOf(head, i)] = IF i < found THEN slots[SlotOf(head, i)]
                                        ELSE slots[SlotOf(head, i + 1)]
<1> USE CapacityFact, TypedStep
<1>1. Slot(size - 1) = SlotOf(head, size - 1) /\ size - 1 \in 0..(Capacity - 1)
  OBVIOUS
<1>2. slots' = [k \in 0..(Capacity - 1) |->
                  IF k = SlotOf(head, size - 1) THEN Null
                  ELSE IF OffsetOf(head, k) >= found /\ OffsetOf(head, k) < size - 1
                       THEN slots[SlotOf(head, OffsetOf(head, k) + 1)] ELSE slots[k]]
  <2>1. ASSUME NEW k \in 0..(Capacity - 1)
        PROVE  /\ (k - head + Capacity) % Capacity = OffsetOf(head, k)
               /\ Slot(OffsetOf(head, k) + 1) = SlotOf(head, OffsetOf(head, k) + 1)
    <3>1. /\ (k - head + Capacity) % Capacity = OffsetOf(head, k)
          /\ OffsetOf(head, k) \in 0..(Capacity - 1)
      BY OffsetFacts
    <3>2. OffsetOf(head, k) + 1 \in 0..Capacity
      BY <3>1
    <3> QED
      BY <3>1, <3>2
  <2> QED
    BY <1>1, <2>1
<1>3. \A k \in 0..(Capacity - 1) :
         OffsetOf(head, k) < size - 1 => SlotOf(head, OffsetOf(head, k) + 1) \in 0..(Capacity - 1)
  <2> SUFFICES ASSUME NEW k \in 0..(Capacity - 1), OffsetOf(head, k) < size - 1
               PROVE  SlotOf(head, OffsetOf(head, k) + 1) \in 0..(Capacity - 1)
    OBVIOUS
  <2>1. OffsetOf(head, k) \in 0..(Capacity - 1) /\ size \in 0..Capacity
    BY OffsetFacts
  <2>2. OffsetOf(head, k) + 1 \in 0..(Capacity - 1)
    BY <2>1
  <2> QED
    BY <2>2, SlotsApart
<1>4. slots' \in [0..(Capacity - 1) -> Item]
  BY <1>2, <1>3 DEF Item
<1>5. ASSUME NEW i \in 0..(size - 2)
      PROVE  slots'[SlotOf(head, i)] = IF i < found THEN slots[SlotOf(head, i)]
                                       ELSE slots[SlotOf(head, i + 1)]
  <2>1. i \in 0..(Capacity - 1) /\ i # size - 1 /\ i < size - 1
    OBVIOUS
  <2>2. /\ SlotOf(head, i) \in 0..(Capacity - 1)
        /\ SlotOf(head, i) # SlotOf(head, size - 1)
        /\ OffsetOf(head, SlotOf(head, i)) = i
    BY <1>1, <2>1, SlotsApart
  <2>3. slots'[SlotOf(head, i)] = IF i >= found /\ i < size - 1
                                  THEN slots[SlotOf(head, i + 1)] ELSE slots[SlotOf(head, i)]
    BY <1>2, <2>2, ZenonT(60)
  <2> QED
    BY <2>1, <2>3
<1> QED
  BY <1>4, <1>5

LEMMA RingRemoveStep ==
  ASSUME RingTypeOK, NEW t \in Headers, Remove(t)
  PROVE  RingTypeOK' /\ Queue!Remove(t)
<1> USE CapacityFact, TypedStep
<1>1. PICK found \in Offsets(t) :
        /\ \A j \in Offsets(t) : found <= j
        /\ slots' = [k \in 0..(Capacity - 1) |->
                       IF k = Slot(size - 1) THEN Null
                       ELSE LET i == (k - head + Capacity) % Capacity
                            IN  IF i >= found /\ i < size - 1
                                THEN slots[Slot(i + 1)] ELSE slots[k]]
        /\ size' = size - 1
        /\ UNCHANGED head
  BY DEF Remove
<1>2. found \in 0..(size - 1) /\ slots[SlotOf(head, found)] = t /\ size > 0
  BY DEF Offsets
<1>3. /\ slots' \in [0..(Capacity - 1) -> Item]
      /\ \A i \in 0..(size - 2) :
           slots'[SlotOf(head, i)] = IF i < found THEN slots[SlotOf(head, i)]
                                     ELSE slots[SlotOf(head, i + 1)]
  BY <1>1, <1>2, RemovedSlots
<1>4. size - 1 \in 0..Capacity /\ size' = size - 1 /\ head' = head
  BY <1>1, <1>2
<1>5. /\ Contents' \in Seq(Item) /\ Len(Contents') = size - 1
      /\ \A i \in 1..(size - 1) : Contents'[i] = slots'[SlotOf(head, i - 1)]
  BY <1>3, <1>4, ReadFacts, ContentsRead
<1> DEFINE k == found + 1
           r == SubSeq(Contents, 1, k - 1) \o SubSeq(Contents, k + 1, Len(Contents))
<1>6. k \in 1..Len(Contents) /\ k - 1 = found
  BY <1>2
<1>7. /\ r \in Seq(Item) /\ Len(r) = size - 1
      /\ \A i \in 1..(size - 1) : r[i] = IF i < k THEN Contents[i] ELSE Contents[i + 1]
  BY <1>6, WithoutFacts
<1> HIDE DEF r
<1>8. ASSUME NEW i \in 1..(size - 1)
      PROVE  Contents'[i] = r[i]
  <2>1. /\ i - 1 \in 0..(size - 2) /\ i \in 1..size /\ i + 1 \in 1..size
        /\ (i + 1) - 1 = i /\ (i - 1) + 1 = i /\ (i - 1 < found <=> i < k)
    BY <1>2
  <2>2. Contents'[i] = IF i < k THEN slots[SlotOf(head, i - 1)] ELSE slots[SlotOf(head, i)]
    BY <1>3, <1>5, <2>1
  <2>3. Contents[i] = slots[SlotOf(head, i - 1)] /\ Contents[i + 1] = slots[SlotOf(head, i)]
    BY <2>1
  <2> QED
    BY <1>7, <2>2, <2>3
<1>9. Contents' = r
  BY <1>5, <1>7, <1>8, SeqEqual
<1>10. Contents[k] = t /\ \A i \in 1..(k - 1) : Contents[i] # t
  <2>1. Contents[k] = t
    BY <1>2, <1>6
  <2>2. ASSUME NEW i \in 1..(k - 1), Contents[i] = t
        PROVE  FALSE
    <3>1. i - 1 \in 0..(size - 1) /\ i \in 1..size /\ i - 1 < found /\ i - 1 \in 0..Capacity
      BY <1>2
    <3>2. slots[Slot(i - 1)] = t
      BY <2>2, <3>1
    <3>3. i - 1 \in Offsets(t)
      BY <3>1, <3>2 DEF Offsets
    <3> QED
      BY <1>1, <1>2, <3>1, <3>3
  <2> QED
    BY <2>1, <2>2
<1>11. Queue!Remove(t)
  BY <1>6, <1>9, <1>10 DEF Queue!Remove, r
<1>12. RingTypeOK'
  BY <1>3, <1>4 DEF RingTypeOK, Item
<1> QED
  BY <1>11, <1>12

-----------------------------------------------------------------------------
(***************************************************************************)
(* Used slots.                                                             *)
(***************************************************************************)
Used(b, h, n) == \A i \in 0..(Capacity - 1) : b[SlotOf(h, i)] # Null <=> i < n

LEMMA UsedRead ==
  ASSUME RingTypeOK
  PROVE  UsedSlots <=> Used(slots, head, size)
<1>1. \A i \in 0..(Capacity - 1) : Slot(i) = SlotOf(head, i)
  BY CapacityFact, TypedStep
<1> QED
  BY <1>1 DEF UsedSlots, Used

LEMMA UsedReadNext ==
  ASSUME RingTypeOK'
  PROVE  UsedSlots' <=> Used(slots', head', size')
<1>1. head' \in 0..(Capacity - 1)
  BY DEF RingTypeOK
<1>2. \A i \in 0..(Capacity - 1) : (head' + i) % Capacity = SlotOf(head', i)
  BY <1>1, CapacityFact, SlotFacts
<1> QED
  BY <1>2 DEF UsedSlots, Used, Slot

\* A pushed task takes the first unused slot.
LEMMA PushUses ==
  ASSUME RingTypeOK, Used(slots, head, size), NEW t \in Headers, Push(t)
  PROVE  Used(slots', head', size')
<1> USE CapacityFact, TypedStep
<1>1. size \in 0..(Capacity - 1) /\ size' = size + 1 /\ head' = head /\ t # Null
  BY RingAssumption DEF Push
<1>2. SlotOf(head, size) \in 0..(Capacity - 1) /\ slots' = [slots EXCEPT ![SlotOf(head, size)] = t]
  BY <1>1, SlotsApart DEF Push
<1>3. ASSUME NEW i \in 0..(Capacity - 1)
      PROVE  slots'[SlotOf(head, i)] # Null <=> i < size + 1
  <2>1. /\ SlotOf(head, i) \in 0..(Capacity - 1)
        /\ SlotOf(head, i) = SlotOf(head, size) => i = size
    BY <1>1, SlotsApart
  <2>2. slots[SlotOf(head, i)] # Null <=> i < size
    BY DEF Used
  <2>3. CASE i = size
    BY <1>1, <1>2, <2>1, <2>3
  <2>4. CASE i # size
    <3>1. slots'[SlotOf(head, i)] = slots[SlotOf(head, i)]
      BY <1>2, <2>1, <2>4
    <3>2. i < size + 1 <=> i < size
      BY <1>1, <2>4
    <3> QED
      BY <2>2, <3>1, <3>2
  <2> QED
    BY <2>3, <2>4
<1> QED
  BY <1>1, <1>3 DEF Used

\* The slot that a pop leaves behind becomes the last one of the ring.
LEMMA PopUses ==
  ASSUME RingTypeOK, Used(slots, head, size), Pop
  PROVE  Used(slots', head', size')
<1> USE CapacityFact, TypedStep
<1>1. size \in 1..Capacity /\ size' = size - 1
  BY DEF Pop
<1>2. slots' = [slots EXCEPT ![head] = Null]
  BY DEF Pop
<1>3. head' = SlotOf(head, 1)
  <2>1. 1 \in 0..Capacity
    OBVIOUS
  <2> QED
    BY <2>1, SlotFacts DEF Pop
<1>4. ASSUME NEW i \in 0..(Capacity - 1)
      PROVE  slots'[SlotOf(head', i)] # Null <=> i < size - 1
  <2>1. SlotOf(head', i) = IF i = Capacity - 1 THEN head ELSE SlotOf(head, i + 1)
    BY <1>3, NextSlot
  <2>2. CASE i = Capacity - 1
    <3>1. slots'[SlotOf(head', i)] = Null
      BY <1>2, <2>1, <2>2
    <3> QED
      BY <1>1, <2>2, <3>1
  <2>3. CASE i # Capacity - 1
    <3>1. i + 1 \in 0..(Capacity - 1) /\ 0 \in 0..(Capacity - 1) /\ i + 1 # 0
      BY <2>3
    <3>2. SlotOf(head, 0) = head
      BY DEF SlotOf
    <3>3. SlotOf(head, i + 1) # head /\ SlotOf(head, i + 1) \in 0..(Capacity - 1)
      <4>1. SlotOf(head, i + 1) \in 0..(Capacity - 1)
        BY <3>1, SlotsApart
      <4>2. SlotOf(head, i + 1) = SlotOf(head, 0) => i + 1 = 0
        BY <3>1, SlotsApart
      <4> QED
        BY <3>1, <3>2, <4>1, <4>2
    <3>4. slots'[SlotOf(head', i)] = slots[SlotOf(head, i + 1)]
      BY <1>2, <2>1, <2>3, <3>3
    <3>5. slots[SlotOf(head, i + 1)] # Null <=> i + 1 < size
      BY <3>1 DEF Used
    <3> QED
      BY <1>1, <3>4, <3>5
  <2> QED
    BY <2>2, <2>3
<1> QED
  BY <1>1, <1>4 DEF Used

\* A removal leaves the newest task's slot empty.
LEMMA RemoveUses ==
  ASSUME RingTypeOK, Used(slots, head, size), NEW t \in Headers, Remove(t)
  PROVE  Used(slots', head', size')
<1> USE CapacityFact, TypedStep
<1>1. PICK found \in Offsets(t) :
        /\ slots' = [k \in 0..(Capacity - 1) |->
                       IF k = Slot(size - 1) THEN Null
                       ELSE LET i == (k - head + Capacity) % Capacity
                            IN  IF i >= found /\ i < size - 1
                                THEN slots[Slot(i + 1)] ELSE slots[k]]
        /\ size' = size - 1
        /\ UNCHANGED head
  BY DEF Remove
<1>2. found \in 0..(size - 1) /\ size > 0 /\ size - 1 \in 0..(Capacity - 1)
  BY DEF Offsets
<1>3. \A i \in 0..(size - 2) :
         slots'[SlotOf(head, i)] = IF i < found THEN slots[SlotOf(head, i)]
                                   ELSE slots[SlotOf(head, i + 1)]
  BY <1>1, <1>2, RemovedSlots
<1>4. Slot(size - 1) = SlotOf(head, size - 1)
  BY <1>2
<1>5. ASSUME NEW i \in 0..(Capacity - 1)
      PROVE  slots'[SlotOf(head, i)] # Null <=> i < size - 1
  <2>1. /\ SlotOf(head, i) \in 0..(Capacity - 1)
        /\ SlotOf(head, i) = SlotOf(head, size - 1) => i = size - 1
        /\ OffsetOf(head, SlotOf(head, i)) = i
    BY <1>2, SlotsApart
  <2>2. CASE i < size - 1
    <3>1. i \in 0..(size - 2) /\ i + 1 \in 0..(Capacity - 1) /\ i < size /\ i + 1 < size
      BY <1>2, <2>2
    <3>2. slots[SlotOf(head, i)] # Null /\ slots[SlotOf(head, i + 1)] # Null
      BY <3>1 DEF Used
    <3> QED
      BY <1>3, <2>2, <3>1, <3>2
  <2>3. CASE i = size - 1
    <3>1. slots'[SlotOf(head, i)] = Null
      BY <1>1, <1>4, <2>1, <2>3
    <3> QED
      BY <2>3, <3>1
  <2>4. CASE i > size - 1
    <3>1. SlotOf(head, i) # Slot(size - 1)
      BY <1>2, <1>4, <2>1, <2>4
    <3>2. (SlotOf(head, i) - head + Capacity) % Capacity = i
      BY <2>1, OffsetFacts
    <3>3. ~(i < size - 1) /\ ~(i < size)
      BY <1>2, <2>4
    <3>4. slots'[SlotOf(head, i)] = slots[SlotOf(head, i)]
      BY <1>1, <2>1, <3>1, <3>2, <3>3
    <3> QED
      BY <3>3, <3>4 DEF Used
  <2> QED
    BY <1>2, <2>2, <2>3, <2>4
<1> QED
  BY <1>1, <1>5 DEF Used

-----------------------------------------------------------------------------
(***************************************************************************)
(* Theorems.                                                               *)
(***************************************************************************)
LEMMA RingInitStep == RingInit => RingTypeOK /\ Queue!Init
<1> SUFFICES ASSUME RingInit PROVE RingTypeOK /\ Queue!Init
  OBVIOUS
<1>1. RingTypeOK
  BY CapacityFact DEF RingInit, RingTypeOK
<1>2. Len(Contents) = 0 /\ Contents \in Seq(Item)
  BY <1>1, TypedStep DEF RingInit
<1> QED
  BY <1>1, <1>2, EmptySeq DEF Queue!Init

LEMMA RingNextStep == RingTypeOK /\ [RingNext]_ringVars => RingTypeOK' /\ [Queue!Next]_Contents
<1> SUFFICES ASSUME RingTypeOK, [RingNext]_ringVars
             PROVE  RingTypeOK' /\ [Queue!Next]_Contents
  OBVIOUS
<1>1. CASE Pop
  BY <1>1, RingPopStep DEF Queue!Next
<1>2. ASSUME NEW t \in Headers, Push(t)
      PROVE  RingTypeOK' /\ [Queue!Next]_Contents
  BY <1>2, RingPushStep DEF Queue!Next
<1>3. ASSUME NEW t \in Headers, Remove(t)
      PROVE  RingTypeOK' /\ [Queue!Next]_Contents
  BY <1>3, RingRemoveStep DEF Queue!Next
<1>4. CASE UNCHANGED ringVars
  BY <1>4 DEF ringVars, RingTypeOK, Contents, Slot
<1> QED
  BY <1>1, <1>2, <1>3, <1>4 DEF RingNext

\* Head and count stay inside the array for every capacity and every order of
\* calls (meth_async_queue_remove_locked and the pushes and pops around it).
THEOREM RingTypes == RingSpec => []RingTypeOK
<1>1. RingInit => RingTypeOK
  BY RingInitStep
<1>2. RingTypeOK /\ [RingNext]_ringVars => RingTypeOK'
  BY RingNextStep
<1> QED
  BY <1>1, <1>2, PTL DEF RingSpec

\* No slot outside of the ring keeps a header, so that none is reached after it
\* was freed (queue[...] = NULL in pop and removal).
THEOREM RingUsedSlots == RingSpec => []UsedSlots
<1> DEFINE Inv == RingTypeOK /\ UsedSlots
<1>1. RingInit => Inv
  <2> SUFFICES ASSUME RingInit PROVE Inv
    OBVIOUS
  <2>1. RingTypeOK
    BY RingInitStep
  <2>2. Used(slots, head, size)
    BY CapacityFact, SlotsApart DEF RingInit, Used
  <2> QED
    BY <2>1, <2>2, UsedRead
<1>2. Inv /\ [RingNext]_ringVars => Inv'
  <2> SUFFICES ASSUME RingTypeOK, UsedSlots, [RingNext]_ringVars
               PROVE  Inv'
    OBVIOUS
  <2>1. RingTypeOK' /\ Used(slots, head, size)
    BY RingNextStep, UsedRead
  <2>2. ASSUME Pop PROVE Used(slots', head', size')
    BY <2>1, <2>2, PopUses
  <2>3. ASSUME NEW t \in Headers, Push(t) \/ Remove(t)
        PROVE  Used(slots', head', size')
    BY <2>1, <2>3, PushUses, RemoveUses
  <2>4. ASSUME UNCHANGED ringVars PROVE Used(slots', head', size')
    BY <2>1, <2>4 DEF ringVars
  <2>5. Used(slots', head', size')
    BY <2>2, <2>3, <2>4 DEF RingNext
  <2> QED
    BY <2>1, <2>5, UsedReadNext
<1> QED
  BY <1>1, <1>2, PTL DEF RingSpec

\* The ring is the bounded FIFO with removal that AsyncExecutor uses as its
\* ready queue.
THEOREM RingImplementsQueue == RingSpec => ImplementsQueue
<1>1. RingInit => Queue!Init
  BY RingInitStep
<1>2. RingTypeOK /\ [RingNext]_ringVars => [Queue!Next]_Contents
  BY RingNextStep
<1> QED
  BY <1>1, <1>2, RingTypes, PTL DEF RingSpec, ImplementsQueue, Queue!Spec
=============================================================================
