----------------------------- MODULE TaskRing -----------------------------
(***************************************************************************)
(* The ready queue of the executor as the code keeps it: an array of       *)
(* queue_capacity slots, the index of the oldest task and a count.  The    *)
(* tasks from queue_head on, modulo the capacity, are the sequence that    *)
(* AsyncExecutor calls queue.                                              *)
(***************************************************************************)
EXTENDS Integers, Sequences

CONSTANTS Headers, Null, Capacity

ASSUME RingAssumption == Capacity \in Nat \ {0} /\ Null \notin Headers

VARIABLES
  slots,  \* queue[], indexed from 0
  head,   \* queue_head
  size    \* queue_size

ringVars == <<slots, head, size>>

RingInit ==
  /\ slots = [i \in 0..(Capacity - 1) |-> Null]
  /\ head = 0 /\ size = 0

Slot(i) == (head + i) % Capacity

\* Mutant: a removal fills the gap with the newest task.
RemoveBySwap(t) ==
  \E i \in 0..(size - 1) :
    /\ slots[Slot(i)] = t
    /\ slots' = [slots EXCEPT ![Slot(i)] = slots[Slot(size - 1)],
                             ![Slot(size - 1)] = Null]
    /\ size' = size - 1
    /\ UNCHANGED head

\* The callers push only while size < Capacity.
Push(t) ==
  /\ size < Capacity
  /\ slots' = [slots EXCEPT ![Slot(size)] = t]
  /\ size' = size + 1
  /\ UNCHANGED head

Pop ==
  /\ size > 0
  /\ slots' = [slots EXCEPT ![head] = Null]
  /\ head' = (head + 1) % Capacity
  /\ size' = size - 1

Offsets(t) == {i \in 0..(size - 1) : slots[Slot(i)] = t}

\* The first occurrence goes; what follows it moves up by one slot.
Remove(t) ==
  \E found \in Offsets(t) :
    /\ \A j \in Offsets(t) : found <= j
    /\ slots' = [k \in 0..(Capacity - 1) |->
                   IF k = Slot(size - 1) THEN Null
                   ELSE LET i == (k - head + Capacity) % Capacity
                        IN  IF i >= found /\ i < size - 1
                            THEN slots[Slot(i + 1)] ELSE slots[k]]
    /\ size' = size - 1
    /\ UNCHANGED head

RingNext ==
  \/ Pop
  \/ \E t \in Headers : Push(t) \/ Remove(t)

RingSpec == RingInit /\ [][RingNext]_ringVars

-----------------------------------------------------------------------------

RingTypeOK ==
  /\ slots \in [0..(Capacity - 1) -> Headers \cup {Null}]
  /\ head \in 0..(Capacity - 1)
  /\ size \in 0..Capacity

\* The tasks in the ring, oldest first
Contents == [i \in 1..size |-> slots[Slot(i - 1)]]

\* Exactly the slots that hold a queued task are in use: pop and remove leave
\* no header behind in a slot the ring has given up.
UsedSlots ==
  \A i \in 0..(Capacity - 1) : slots[Slot(i)] # Null <=> i < size

\* Through every wrap-around the ring is the bounded first-in first-out queue
\* the executor's model uses.
Queue == INSTANCE TaskQueue WITH queue <- Contents, Tasks <- Headers

ImplementsQueue == Queue!Spec
=============================================================================
