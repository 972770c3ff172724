---------------------------- MODULE MethChannel ----------------------------
(***************************************************************************)
(* The multi-producer multi-consumer channel of bin/runtime/meth_thread.c: *)
(* a ring buffer under one lock, with one condition variable for receivers *)
(* (not_empty) and one for senders (not_full).  Every action is one        *)
(* critical section; a thread in a ...Wait state sleeps on the condition   *)
(* variable, in a ...Woken state it has to take the lock again.            *)
(***************************************************************************)
EXTENDS Integers, Sequences, FiniteSets

CONSTANTS
  Senders, Receivers, Closers,  \* threads, by what they do with the channel
  Items,       \* Items[s]: the values sender s sends, in order
  Nil,         \* an empty slot, or a value nobody has been given
  Requests,    \* the arguments of __meth_chan_new, 0 meaning unbounded
  FirstGrow    \* the slots of the first allocation on demand, 16 in the code

ASSUME ChannelAssumption ==
  /\ Requests \subseteq Nat /\ FirstGrow \in Nat \ {0}
  /\ IsFiniteSet(Senders \cup Receivers \cup Closers)
  /\ Senders \cap Receivers = {}
  /\ Senders \cap Closers = {} /\ Receivers \cap Closers = {}
  /\ \A s \in Senders : Items[s] \in Seq(Int)

VARIABLES
  requested,  \* the capacity this channel was made with
  buf, cap, len, head, tail, closed,  \* MethChannel
  pc,     \* "idle", or asleep in or woken from one of the two waits
  next,   \* next[s]: how many calls of __meth_chan_send sender s has finished
  sent,   \* the accepted values, in the order of the critical sections
  got,    \* the received values, in the order of the critical sections
  result  \* what the last call of each thread returned

chanVars == <<requested, buf, cap, len, head, tail, closed>>
vars == <<requested, buf, cap, len, head, tail, closed, pc, next, sent, got, result>>

Threads == Senders \cup Receivers \cup Closers

Init ==
  /\ requested \in Requests
  /\ cap = requested
  /\ buf = [i \in 0..(requested - 1) |-> Nil]
  /\ len = 0 /\ head = 0 /\ tail = 0
  /\ closed = FALSE
  /\ pc = [t \in Threads |-> "idle"]
  /\ next = [s \in Senders |-> 0]
  /\ sent = <<>> /\ got = <<>>
  /\ result = [t \in Threads |-> "none"]

SignalNone(p, asleep, woken) == {p}   \* mutant

\* pthread_cond_signal: one sleeper of the given kind, if there is one, or a
\* thread that woke without reason has already used it up.
SignalOne(p, asleep, woken) ==
  IF \A t \in Threads : p[t] # asleep
  THEN {p}
  ELSE {[p EXCEPT ![t] = woken] : t \in {u \in Threads : p[u] = asleep}}

-----------------------------------------------------------------------------
(* __meth_chan_send *)

MoreToSend(s) == next[s] < Len(Items[s])

SendDone(s, outcome) ==
  /\ next' = [next EXCEPT ![s] = @ + 1]
  /\ result' = [result EXCEPT ![s] = outcome]

\* The channel is full when the call takes the lock, or when a sleeper does.
SendMustWait == cap > 0 /\ len >= cap /\ ~closed

InSend(s) ==
  \/ pc[s] = "idle" /\ MoreToSend(s)
  \/ pc[s] = "sendWoken"

SendWait(s) ==
  /\ InSend(s) /\ SendMustWait
  /\ pc' = [pc EXCEPT ![s] = "sendWait"]
  /\ UNCHANGED <<chanVars, next, sent, got, result>>

SendClosed(s) ==
  /\ InSend(s) /\ closed
  /\ SendDone(s, "closed")
  /\ pc' = [pc EXCEPT ![s] = "idle"]
  /\ UNCHANGED <<chanVars, sent, got>>

\* meth_chan_grow, which a channel without slots calls on its first send.
MustGrow == cap = 0 \/ len >= cap

GrownCap == IF cap = 0 THEN FirstGrow ELSE 2 * cap

SendStore(s) ==
  /\ InSend(s) /\ ~SendMustWait /\ ~closed
  /\ LET v == Items[s][next[s] + 1]
         grown == [i \in 0..(GrownCap - 1) |->
                     IF i < len THEN buf[(head + i) % cap] ELSE Nil]
         b == IF MustGrow THEN grown ELSE buf
         c == IF MustGrow THEN GrownCap ELSE cap
         at == IF MustGrow THEN len ELSE tail
     IN  /\ buf' = [b EXCEPT ![at] = v]
         /\ cap' = c
         /\ tail' = (at + 1) % c
         /\ head' = IF MustGrow THEN 0 ELSE head
         /\ sent' = Append(sent, v)
  /\ len' = len + 1
  /\ SendDone(s, "ok")
  /\ pc' \in SignalOne([pc EXCEPT ![s] = "idle"], "recvWait", "recvWoken")
  /\ UNCHANGED <<requested, closed, got>>

\* The ring could not be allocated: the value is refused.
SendNoMemory(s) ==
  /\ InSend(s) /\ ~SendMustWait /\ ~closed /\ MustGrow
  /\ SendDone(s, "no memory")
  /\ pc' = [pc EXCEPT ![s] = "idle"]
  /\ UNCHANGED <<chanVars, sent, got>>

-----------------------------------------------------------------------------
(* __meth_chan_recv and __meth_chan_try_recv *)

InRecv(r) == pc[r] \in {"idle", "recvWoken"} /\ r \in Receivers

RecvWait(r) ==
  /\ InRecv(r) /\ len = 0 /\ ~closed
  /\ pc' = [pc EXCEPT ![r] = "recvWait"]
  /\ UNCHANGED <<chanVars, next, sent, got, result>>

\* Mutant: the newest value is taken.
TakeNewest(r) ==
  /\ len > 0
  /\ got' = Append(got, buf[(head + len - 1) % cap])
  /\ len' = len - 1
  /\ tail' = (head + len - 1) % cap
  /\ result' = [result EXCEPT ![r] = "value"]
  /\ pc' \in SignalOne([pc EXCEPT ![r] = "idle"], "sendWait", "sendWoken")
  /\ UNCHANGED <<requested, buf, cap, head, closed, next, sent>>

\* Shared by recv and try_recv
Take(r) ==
  /\ len > 0
  /\ got' = Append(got, buf[head])
  /\ head' = (head + 1) % cap
  /\ len' = len - 1
  /\ result' = [result EXCEPT ![r] = "value"]
  /\ pc' \in SignalOne([pc EXCEPT ![r] = "idle"], "sendWait", "sendWoken")
  /\ UNCHANGED <<requested, buf, cap, tail, closed, next, sent>>

RecvTake(r) == InRecv(r) /\ Take(r)

\* Mutant: a closed channel is not drained.
RecvClosedAtOnce(r) ==
  /\ InRecv(r) /\ closed
  /\ result' = [result EXCEPT ![r] = "closed"]
  /\ pc' = [pc EXCEPT ![r] = "idle"]
  /\ UNCHANGED <<chanVars, next, sent, got>>

\* 0 is returned, as it is for the value 0.
RecvClosed(r) ==
  /\ InRecv(r) /\ len = 0 /\ closed
  /\ result' = [result EXCEPT ![r] = "closed"]
  /\ pc' = [pc EXCEPT ![r] = "idle"]
  /\ UNCHANGED <<chanVars, next, sent, got>>

TryRecvTake(r) == r \in Receivers /\ pc[r] = "idle" /\ Take(r)

TryRecvEmpty(r) ==
  /\ r \in Receivers /\ pc[r] = "idle" /\ len = 0
  /\ result' = [result EXCEPT ![r] = "empty"]
  /\ UNCHANGED <<chanVars, pc, next, sent, got>>

-----------------------------------------------------------------------------
(* __meth_chan_close *)

Awake(p) ==
  CASE p = "recvWait" -> "recvWoken"
    [] p = "sendWait" -> "sendWoken"
    [] OTHER          -> p

Close(k) ==
  /\ k \in Closers
  /\ closed' = TRUE
  /\ pc' = [t \in Threads |-> Awake(pc[t])]
  /\ UNCHANGED <<requested, buf, cap, len, head, tail, next, sent, got, result>>

SpuriousWake(t) ==
  /\ Awake(pc[t]) # pc[t]
  /\ pc' = [pc EXCEPT ![t] = Awake(@)]
  /\ UNCHANGED <<chanVars, next, sent, got, result>>

-----------------------------------------------------------------------------

SendStep(s) == SendWait(s) \/ SendClosed(s) \/ SendStore(s) \/ SendNoMemory(s)
RecvStep(r) == RecvWait(r) \/ RecvTake(r) \/ RecvClosed(r)

Next ==
  \/ \E s \in Senders : SendStep(s)
  \/ \E r \in Receivers : RecvStep(r) \/ TryRecvTake(r) \/ TryRecvEmpty(r)
  \/ \E k \in Closers : Close(k)
  \/ \E t \in Threads : SpuriousWake(t)

Spec == Init /\ [][Next]_vars

\* The lock starves nobody, senders send what they have, receivers go on
\* receiving; nobody has to close the channel.
FairSpec ==
  /\ Spec
  /\ \A s \in Senders : WF_vars(SendStep(s))
  /\ \A r \in Receivers : WF_vars(RecvStep(r))

-----------------------------------------------------------------------------

\* The values in the ring, oldest first
Contents == [i \in 1..len |-> buf[(head + i - 1) % cap]]

TypeOK ==
  /\ requested \in Requests /\ cap \in Nat /\ len \in 0..cap
  /\ buf \in [0..(cap - 1) -> Int \cup {Nil}]
  /\ IF cap = 0 THEN head = 0 /\ tail = 0
     ELSE head \in 0..(cap - 1) /\ tail = (head + len) % cap
  /\ closed \in BOOLEAN
  /\ pc \in [Threads -> {"idle", "sendWait", "sendWoken", "recvWait",
                         "recvWoken"}]
  /\ next \in [Senders -> Nat]
  /\ sent \in Seq(Int) /\ got \in Seq(Int)

\* Whatever the interleaving, the growth and the wrap-around, the values come
\* out in the order they were accepted, none twice and none missing.
InOrder == sent = got \o Contents

\* A receiver is told that the channel is closed only when every accepted
\* value has been received, by it or by another: a close loses nothing.
CloseLosesNothing ==
  (\E r \in Receivers : result[r] = "closed") => got = sent

\* Signals go to one sleeper at a time, yet no sleeper is left behind: if a
\* value waits while a receiver sleeps then some receiver has been woken and
\* has still to take the lock, and likewise for a free slot and a sender.
NobodyLeftBehind ==
  /\ (len > 0 /\ \E t \in Threads : pc[t] = "recvWait")
       => \E t \in Threads : pc[t] = "recvWoken"
  /\ (len < cap /\ \E t \in Threads : pc[t] = "sendWait")
       => \E t \in Threads : pc[t] = "sendWoken"
  /\ closed => \A t \in Threads : pc[t] \notin {"recvWait", "sendWait"}

\* While the receivers go on receiving, whatever was accepted is received and
\* no sender sleeps for ever on a full channel.
EverySendEnds ==
  /\ []<>(got = sent)
  /\ \A s \in Senders : pc[s] = "sendWait" ~> pc[s] = "idle"
=============================================================================
