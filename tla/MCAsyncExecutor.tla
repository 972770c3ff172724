-------------------------- MODULE MCAsyncExecutor --------------------------
(* Small programs for AsyncExecutor: who calls what, at most once each.    *)
EXTENDS AsyncExecutor

CONSTANTS a, b, d, main, aux, w1, w2

Start(t)  == [op |-> "start", task |-> t]
Wait(t)   == [op |-> "wait", task |-> t]
Cancel(t) == [op |-> "cancel", task |-> t]
Shutdown(drain, timer0) ==
  [op |-> "shutdown", drain |-> drain, timer |-> timer0]
Reset == [op |-> "reset"]
Query == [op |-> "query"]
Configure(n, size) == [op |-> "configure", workers |-> n, capacity |-> size]

\* Each field names a context (a task by its letter) and lists its calls.
Program(m, x, ta, tb, td) ==
  [c \in Ctx |-> CASE c = main -> m
                   [] c = aux  -> x
                   [] c = a    -> ta
                   [] c = b    -> tb
                   [] c = d    -> td
                   [] OTHER    -> {}]

\* A task tree, cancellation from outside and a stop with a deadline
ForkJoinStop ==
  Program({Start(a), Start(b), Wait(a)},
          {Cancel(a), Shutdown(TRUE, "timed"), Shutdown(FALSE, "forever")},
          {Start(d), Wait(d)}, {}, {})

\* A task tree on a pool whose queue holds one task, nobody cancels or stops
ForkJoin ==
  Program({Start(a), Wait(a)}, {Start(b), Wait(b)},
          {Start(d), Wait(d)}, {}, {})

\* A smaller tree with stops that must return whatever the tasks do
ForkJoinAbort ==
  Program({Start(a), Wait(a)},
          {Shutdown(FALSE, "forever"), Shutdown(TRUE, "timed")},
          {Start(d), Wait(d)}, {}, {})

\* Stop, reset, configure and start again, while another caller may still be
\* inside meth_async_start or meth_async_wait
Restart ==
  Program({Start(a), Start(b), Wait(b), Query},
          {Shutdown(FALSE, "forever"), Reset, Configure(1, 2), Start(d)},
          {}, {}, {})

\* A tree that is drained while its root may be waiting
DrainWaiting ==
  Program({Start(a), Shutdown(TRUE, "forever")}, {}, {Start(b), Wait(b)}, {}, {})

Stopping == {ForkJoinStop, Restart}
Finishing == {ForkJoin, ForkJoinAbort}
Draining == {DrainWaiting}

ASSUME SingleStopper == OneStopper
=============================================================================
