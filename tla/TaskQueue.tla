----------------------------- MODULE TaskQueue -----------------------------
(* The bounded FIFO of tasks that AsyncExecutor uses as its ready queue.   *)
EXTENDS Integers, Sequences

CONSTANTS Tasks, Capacity

VARIABLE queue

Init == queue = <<>>

Push(t) == Len(queue) < Capacity /\ queue' = Append(queue, t)

Pop == queue # <<>> /\ queue' = Tail(queue)

\* The oldest occurrence of t leaves, the order of the others stays.
Remove(t) ==
  \E k \in 1..Len(queue) :
    /\ queue[k] = t
    /\ \A i \in 1..(k - 1) : queue[i] # t
    /\ queue' = SubSeq(queue, 1, k - 1) \o SubSeq(queue, k + 1, Len(queue))

Next == Pop \/ \E t \in Tasks : Push(t) \/ Remove(t)

Spec == Init /\ [][Next]_queue
=============================================================================
