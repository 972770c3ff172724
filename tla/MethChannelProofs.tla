-------------------------- MODULE MethChannelProofs --------------------------
(***************************************************************************)
(* The safety of the channel of bin/runtime/meth_thread.c for any number   *)
(* of senders, receivers and closers, any values, any capacity and any     *)
(* first allocation: the order of the values, what a close may promise,    *)
(* and that the one-at-a-time signals leave no sleeper behind.             *)
(*                                                                         *)
(* First the arithmetic of the ring (a store appends to its contents, a    *)
(* take removes their head), then what a signal does to the number of      *)
(* woken threads, then the inductive invariant and one lemma per action.   *)
(***************************************************************************)
EXTENDS MethChannel, FiniteSetTheorems, SequenceTheorems, TLAPS

\* An index inside the ring is not moved by the wrap-around.
LEMMA ModBelow ==
  ASSUME NEW c \in Nat \ {0}, NEW x \in 0..(c - 1)
  PROVE  x % c = x
OBVIOUS

\* An index at most one turn past the ring wraps once.
LEMMA ModAbove ==
  ASSUME NEW c \in Nat \ {0}, NEW x \in c..(2 * c - 1)
  PROVE  x % c = x - c
OBVIOUS

\* Slot i of the ring counted from h
SlotOf(h, i, c) == IF h + i < c THEN h + i ELSE h + i - c

\* The modulo of the code is one comparison and one subtraction.
LEMMA SlotFacts ==
  ASSUME NEW c \in Nat \ {0}, NEW h \in 0..(c - 1), NEW i \in 0..c
  PROVE  /\ (h + i) % c = SlotOf(h, i, c)
         /\ (h + i) % c \in 0..(c - 1)
<1>1. CASE h + i < c
  BY <1>1, ModBelow DEF SlotOf
<1>2. CASE ~(h + i < c)
  <2>1. h + i \in c..(2 * c - 1)
    BY <1>2
  <2> QED
    BY <1>2, <2>1, ModAbove DEF SlotOf
<1> QED
  BY <1>1, <1>2

\* The n values of the ring b of c slots, read from h
ContentsOf(b, h, n, c) == [i \in 1..n |-> b[(h + i - 1) % c]]

\* Where the i-th value of the contents is stored.
LEMMA ContentsSlot ==
  ASSUME NEW c \in Nat \ {0}, NEW h \in 0..(c - 1), NEW n \in 0..c, NEW b,
         NEW i \in 1..n
  PROVE  ContentsOf(b, h, n, c)[i] = b[SlotOf(h, i - 1, c)]
<1>1. (h + (i - 1)) % c = SlotOf(h, i - 1, c)
  BY SlotFacts
<1>2. h + i - 1 = h + (i - 1)
  OBVIOUS
<1> QED
  BY <1>1, <1>2 DEF ContentsOf

\* Advancing the read index drops the oldest value and moves the others up.
LEMMA TakeContents ==
  ASSUME NEW c \in Nat \ {0}, NEW h \in 0..(c - 1), NEW n \in 1..c, NEW b,
         NEW i \in 1..(n - 1)
  PROVE  ContentsOf(b, (h + 1) % c, n - 1, c)[i] = ContentsOf(b, h, n, c)[i + 1]
<1>1. (h + 1) % c = SlotOf(h, 1, c) /\ SlotOf(h, 1, c) \in 0..(c - 1)
  <2>1. 1 \in 0..c
    OBVIOUS
  <2> QED
    BY <2>1, SlotFacts
<1>2. ContentsOf(b, h, n, c)[i + 1] = b[SlotOf(h, i, c)]
  <2>1. i + 1 \in 1..n /\ n \in 0..c /\ (i + 1) - 1 = i
    OBVIOUS
  <2> QED
    BY <2>1, ContentsSlot, SMTT(30)
<1>3. ContentsOf(b, SlotOf(h, 1, c), n - 1, c)[i] = b[SlotOf(SlotOf(h, 1, c), i - 1, c)]
  <2>1. n - 1 \in 0..c
    OBVIOUS
  <2> QED
    BY <1>1, <2>1, ContentsSlot
<1>4. SlotOf(SlotOf(h, 1, c), i - 1, c) = SlotOf(h, i, c)
  BY DEF SlotOf
<1> QED
  BY <1>1, <1>2, <1>3, <1>4

\* Contents whose values are integers are a sequence of integers.
LEMMA ContentsSeq ==
  ASSUME NEW c, NEW h, NEW n \in Nat, NEW b,
         \A i \in 1..n : ContentsOf(b, h, n, c)[i] \in Int
  PROVE  ContentsOf(b, h, n, c) \in Seq(Int) /\ Len(ContentsOf(b, h, n, c)) = n
<1> DEFINE s == ContentsOf(b, h, n, c)
<1>1. DOMAIN s = 1..n /\ s = [i \in 1..n |-> s[i]]
  BY DEF ContentsOf
<1>2. \A i \in 1..n : s[i] \in Int
  OBVIOUS
<1> HIDE DEF s
<1>3. s \in [1..n -> Int]
  BY <1>1, <1>2
<1>4. s \in Seq(Int) /\ Len(s) = n
  BY <1>3
<1> QED
  BY <1>4 DEF s

\* What follows a prefix of a sequence of integers is one too.
LEMMA OrderOfSplit ==
  ASSUME NEW g \in Seq(Int), NEW s \in Seq(Int), NEW n \in Nat, NEW f,
         DOMAIN f = 1..n, f = [i \in 1..n |-> f[i]], s = g \o f
  PROVE  f \in Seq(Int) /\ Len(f) = n
OBVIOUS
\* The head of the rest of a sequence may be moved to the end of its prefix.
LEMMA MoveHead ==
  ASSUME NEW g \in Seq(Int), NEW f \in Seq(Int), NEW k \in Seq(Int),
         Len(f) = Len(k) + 1, \A i \in 1..Len(k) : k[i] = f[i + 1]
  PROVE  g \o f = Append(g, f[1]) \o k
<1> DEFINE a == Append(g, f[1])
<1>1. /\ a \in Seq(Int) /\ Len(a) = Len(g) + 1
      /\ \A i \in 1..(Len(g) + 1) : a[i] = IF i <= Len(g) THEN g[i] ELSE f[1]
  BY AppendProperties
<1> HIDE DEF a
<1>2. g \o f \in Seq(Int) /\ Len(g \o f) = Len(g) + Len(k) + 1
  <2>1. g \o f \in Seq(Int) /\ Len(g \o f) = Len(g) + Len(f)
    BY ConcatProperties, Zenon
  <2> QED
    BY <2>1
<1>3. a \o k \in Seq(Int) /\ Len(a \o k) = Len(g) + Len(k) + 1
  <2>1. a \o k \in Seq(Int) /\ Len(a \o k) = Len(a) + Len(k)
    BY <1>1, ConcatProperties, Zenon
  <2> QED
    BY <1>1, <2>1
<1>4. ASSUME NEW i \in 1..(Len(g) + Len(k) + 1)
      PROVE  (g \o f)[i] = (a \o k)[i]
  <2>1. (g \o f)[i] = IF i <= Len(g) THEN g[i] ELSE f[i - Len(g)]
    BY ConcatProperties
  <2>2. (a \o k)[i] = IF i <= Len(g) + 1 THEN a[i] ELSE k[i - Len(g) - 1]
    <3>1. i \in 1..(Len(a) + Len(k))
      BY <1>1
    <3>2. (a \o k)[i] = IF i <= Len(a) THEN a[i] ELSE k[i - Len(a)]
      BY <1>1, <3>1, ConcatProperties, Zenon
    <3> QED
      BY <1>1, <3>2
  <2>3. CASE i > Len(g) + 1
    <3>1. i - Len(g) - 1 \in 1..Len(k)
      BY <2>3
    <3>2. k[i - Len(g) - 1] = f[(i - Len(g) - 1) + 1]
      BY <3>1
    <3>3. (i - Len(g) - 1) + 1 = i - Len(g)
      OBVIOUS
    <3> QED
      BY <2>1, <2>2, <2>3, <3>2, <3>3
  <2> QED
    BY <1>1, <2>1, <2>2, <2>3
<1>5. g \o f = a \o k
  BY <1>2, <1>3, <1>4, SeqEqual
<1> QED
  BY <1>5 DEF a

\* Appending to a sequence appends to the second of its two parts.
LEMMA AddLast ==
  ASSUME NEW g \in Seq(Int), NEW f \in Seq(Int), NEW v \in Int
  PROVE  Append(g \o f, v) = g \o Append(f, v)
<1>1. g \o f \in Seq(Int)
  BY ConcatProperties
<1>2. <<v>> \in Seq(Int)
  OBVIOUS
<1>3. Append(g \o f, v) = (g \o f) \o <<v>>
  BY <1>1, AppendIsConcat, Zenon
<1>4. Append(f, v) = f \o <<v>>
  BY AppendIsConcat, Zenon
<1>5. (g \o f) \o <<v>> = g \o (f \o <<v>>)
  BY <1>2, ConcatAssociative
<1> QED
  BY <1>3, <1>4, <1>5, Zenon


\* Contents that complete a sequence of integers are one themselves.
LEMMA SplitContents ==
  ASSUME NEW c, NEW h, NEW n \in Nat, NEW b,
         NEW g \in Seq(Int), NEW s \in Seq(Int), s = g \o ContentsOf(b, h, n, c)
  PROVE  ContentsOf(b, h, n, c) \in Seq(Int) /\ Len(ContentsOf(b, h, n, c)) = n
<1> DEFINE f == ContentsOf(b, h, n, c)
<1>1. DOMAIN f = 1..n /\ f = [i \in 1..n |-> f[i]]
  BY DEF ContentsOf
<1> HIDE DEF f
<1> QED
  BY <1>1, OrderOfSplit DEF f

\* A take moves the value at the read index from the contents to what
\* precedes them.
LEMMA TakeOrder ==
  ASSUME NEW c \in Nat \ {0}, NEW h \in 0..(c - 1), NEW n \in 1..c, NEW b,
         NEW g \in Seq(Int), NEW s \in Seq(Int), s = g \o ContentsOf(b, h, n, c)
  PROVE  /\ b[h] \in Int
         /\ s = Append(g, b[h]) \o ContentsOf(b, (h + 1) % c, n - 1, c)
<1> DEFINE f == ContentsOf(b, h, n, c)
           k == ContentsOf(b, (h + 1) % c, n - 1, c)
<1>1. f \in Seq(Int) /\ Len(f) = n
  <2>1. n \in Nat
    OBVIOUS
  <2> QED
    BY <2>1, SplitContents, ZenonT(60)
<1>2. \A i \in 1..(n - 1) : k[i] = f[i + 1]
  BY TakeContents
<1>3. f[1] = b[h]
  <2>1. 1 \in 1..n /\ n \in 0..c /\ SlotOf(h, 0, c) = h /\ 1 - 1 = 0
    BY DEF SlotOf
  <2> QED
    BY <2>1, ContentsSlot
<1>4. n - 1 \in Nat
  OBVIOUS
<1> HIDE DEF f, k
<1>5. k \in Seq(Int) /\ Len(k) = n - 1
  <2>1. \A i \in 1..(n - 1) : k[i] \in Int
    BY <1>1, <1>2
  <2> QED
    BY <1>4, <2>1, ContentsSeq DEF k
<1>6. b[h] \in Int
  BY <1>1, <1>3
<1>7. g \o f = Append(g, f[1]) \o k
  <2>1. Len(f) = Len(k) + 1 /\ \A i \in 1..Len(k) : k[i] = f[i + 1]
    BY <1>1, <1>2, <1>5
  <2> QED
    BY <1>1, <1>5, <2>1, MoveHead, ZenonT(60)
<1> QED
  BY <1>3, <1>6, <1>7 DEF f, k

\* The ring d is the ring b of c slots with v behind the n values that start at h
Stored(d, b, h, n, c, v) ==
  /\ d[(h + n) % c] = v
  /\ \A x \in 0..(c - 1) : x # (h + n) % c => d[x] = b[x]

\* A store behind the last value appends it to the contents.
LEMMA StoreContents ==
  ASSUME NEW c \in Nat \ {0}, NEW h \in 0..(c - 1), NEW n \in 0..(c - 1),
         NEW v \in Int, NEW b, NEW d, Stored(d, b, h, n, c, v),
         NEW f \in Seq(Int), f = ContentsOf(b, h, n, c), Len(f) = n
  PROVE  ContentsOf(d, h, n + 1, c) = Append(f, v)
<1> DEFINE m == n + 1
           k == ContentsOf(d, h, m, c)
<1>0. m \in Nat /\ m = n + 1 /\ m \in 0..c
  OBVIOUS
<1> HIDE DEF m
<1>2. ASSUME NEW i \in 1..m
      PROVE  k[i] = IF i = m THEN v ELSE f[i]
  <2>1. (h + n) % c = SlotOf(h, n, c)
    <3>1. n \in 0..c
      OBVIOUS
    <3> QED
      BY <3>1, SlotFacts
  <2>2. k[i] = d[SlotOf(h, i - 1, c)]
    BY <1>0, ContentsSlot
  <2>3. SlotOf(h, i - 1, c) \in 0..(c - 1)
    BY <1>0 DEF SlotOf
  <2>4. CASE i = m
    <3>1. SlotOf(h, i - 1, c) = SlotOf(h, n, c)
      BY <1>0, <2>4
    <3> HIDE DEF k
    <3> QED
      BY <2>1, <2>2, <2>4, <3>1 DEF Stored
  <2>5. CASE i # m
    <3>1. i \in 1..n /\ n \in 0..c
      BY <1>0, <2>5
    <3>2. f[i] = b[SlotOf(h, i - 1, c)]
      BY <3>1, ContentsSlot
    <3>3. SlotOf(h, i - 1, c) # SlotOf(h, n, c)
      BY <3>1 DEF SlotOf
    <3> HIDE DEF k
    <3> QED
      BY <2>1, <2>2, <2>3, <2>5, <3>2, <3>3 DEF Stored
  <2> QED
    BY <2>4, <2>5
<1> HIDE DEF k
<1>4. k \in Seq(Int) /\ Len(k) = m
  <2>1. \A i \in 1..m : k[i] \in Int
    BY <1>0, <1>2
  <2> QED
    BY <1>0, <2>1, ContentsSeq DEF k
<1>5. /\ Append(f, v) \in Seq(Int) /\ Len(Append(f, v)) = m
      /\ \A i \in 1..m : Append(f, v)[i] = IF i = m THEN v ELSE f[i]
  BY <1>0
<1>6. k = Append(f, v)
  BY <1>2, <1>4, <1>5, SeqEqual
<1> QED
  BY <1>0, <1>6 DEF k

\* A ring of length 0 has no contents, whatever its slots hold.
LEMMA EmptyContents ==
  ASSUME NEW b, NEW h, NEW c
  PROVE  ContentsOf(b, h, 0, c) = <<>>
<1>1. 1..0 = {}
  OBVIOUS
<1> QED
  BY <1>1 DEF ContentsOf

-----------------------------------------------------------------------------
(* Sleepers and signals *)

Pcs == {"idle", "sendWait", "sendWoken", "recvWait", "recvWoken"}

\* The threads that are at k
At(p, k) == {t \in Threads : p[t] = k}

\* The threads at a state can be counted.
LEMMA AtFinite ==
  ASSUME NEW p, NEW k
  PROVE  IsFiniteSet(At(p, k)) /\ Cardinality(At(p, k)) \in Nat
<1>1. IsFiniteSet(Threads)
  BY ChannelAssumption DEF Threads
<1>2. At(p, k) \subseteq Threads
  BY DEF At
<1>3. IsFiniteSet(At(p, k))
  BY <1>1, <1>2, FS_Subset
<1> QED
  BY <1>3, FS_CardinalityType

\* q is p after thread t went to x
Moved(q, p, t, x) == q = [p EXCEPT ![t] = x]

\* A thread that moves away is one fewer at the state it leaves, at most.
LEMMA LeaveOne ==
  ASSUME NEW p \in [Threads -> Pcs], NEW t \in Threads, NEW x \in Pcs,
         NEW k, k # x, NEW q, Moved(q, p, t, x)
  PROVE  /\ At(q, k) = At(p, k) \ {t}
         /\ Cardinality(At(p, k)) <= Cardinality(At(q, k)) + 1
<1>1. At(q, k) = At(p, k) \ {t}
  BY DEF At, Moved
<1>2. Cardinality(At(p, k) \ {t}) = Cardinality(At(p, k)) - 1 \/ At(p, k) \ {t} = At(p, k)
  <2>1. CASE t \in At(p, k)
    BY <2>1, AtFinite, FS_RemoveElement
  <2>2. CASE t \notin At(p, k)
    BY <2>2
  <2> QED
    BY <2>1, <2>2
<1>3. Cardinality(At(p, k)) \in Nat /\ Cardinality(At(q, k)) \in Nat
  BY AtFinite
<1>4. \/ Cardinality(At(q, k)) = Cardinality(At(p, k)) - 1
      \/ Cardinality(At(q, k)) = Cardinality(At(p, k))
  BY <1>1, <1>2, Zenon
<1>5. Cardinality(At(p, k)) <= Cardinality(At(q, k)) + 1
  BY <1>3, <1>4
<1> QED
  BY <1>1, <1>5

\* A signal moves no thread but from the given sleep to awake.
LEMMA SignalPoint ==
  ASSUME NEW p \in [Threads -> Pcs], NEW a \in Pcs, NEW b \in Pcs,
         NEW q \in SignalOne(p, a, b)
  PROVE  /\ q \in [Threads -> Pcs]
         /\ \A t \in Threads : q[t] = p[t] \/ (p[t] = a /\ q[t] = b)
BY DEF SignalOne

\* A signal that leaves a sleeper has woken one more thread than before.
LEMMA SignalCount ==
  ASSUME NEW p \in [Threads -> Pcs], NEW a \in Pcs, NEW b \in Pcs, a # b,
         NEW q \in SignalOne(p, a, b)
  PROVE  /\ At(q, a) \subseteq At(p, a)
         /\ \A k : k # a /\ k # b => At(q, k) = At(p, k)
         /\ At(q, a) # {} => Cardinality(At(q, b)) = Cardinality(At(p, b)) + 1
<1>1. CASE \A t \in Threads : p[t] # a
  <2>1. q = p /\ At(p, a) = {}
    BY <1>1 DEF SignalOne, At
  <2> QED
    BY <2>1
<1>2. CASE ~ \A t \in Threads : p[t] # a
  <2>1. PICK t \in Threads : p[t] = a /\ q = [p EXCEPT ![t] = b]
    BY <1>2 DEF SignalOne
  <2>2. At(q, a) \subseteq At(p, a) /\ \A k : k # a /\ k # b => At(q, k) = At(p, k)
    BY <2>1 DEF At
  <2>3. At(q, b) = At(p, b) \cup {t} /\ t \notin At(p, b)
    BY <2>1 DEF At
  <2>4. Cardinality(At(q, b)) = Cardinality(At(p, b)) + 1
    BY <2>3, AtFinite, FS_AddElement
  <2> QED
    BY <2>2, <2>4
<1> QED
  BY <1>1, <1>2

-----------------------------------------------------------------------------
(* The inductive invariant *)

\* A sender that sleeps, or has to take the lock again, has a value to send.
ItemsLeft ==
  \A s \in Senders : pc[s] \in {"sendWait", "sendWoken"} => MoreToSend(s)

Outcomes == {"none", "ok", "closed", "no memory", "value", "empty"}

\* A receiver has been told the end only of a closed and drained channel.
EndSeen ==
  /\ result \in [Threads -> Outcomes]
  /\ (\E r \in Receivers : result[r] = "closed") => closed /\ len = 0

\* With a receiver asleep there is a woken one for each value; with a sender
\* asleep the channel is bounded and there is a woken one for each free slot;
\* on a closed channel nobody sleeps.  NobodyLeftBehind alone is not inductive:
\* with two values, one receiver woken and one asleep, the woken one takes a
\* value and nobody is awake for the other.
WokenFor(p, l, c, z) ==
  /\ At(p, "recvWait") # {} => l <= Cardinality(At(p, "recvWoken"))
  /\ At(p, "sendWait") # {}
       => c > 0 /\ c <= l + Cardinality(At(p, "sendWoken"))
  /\ z => At(p, "recvWait") = {} /\ At(p, "sendWait") = {}

WokenEnough == WokenFor(pc, len, cap, closed)

\* The inductive invariant
ChanInv == TypeOK /\ InOrder /\ ItemsLeft /\ EndSeen /\ WokenEnough

\* The write index after a store, in terms of the read index.
LEMMA TailNext ==
  ASSUME NEW c \in Nat \ {0}, NEW h \in 0..(c - 1), NEW n \in 0..(c - 1)
  PROVE  (((h + n) % c) + 1) % c = (h + (n + 1)) % c
<1> DEFINE x == SlotOf(h, n, c)
<1>1. (h + n) % c = x /\ x \in 0..(c - 1)
  <2>1. n \in 0..c
    OBVIOUS
  <2> QED
    BY <2>1, SlotFacts
<1>2. (h + (n + 1)) % c = SlotOf(h, n + 1, c)
  <2>1. n + 1 \in 0..c
    OBVIOUS
  <2> QED
    BY <2>1, SlotFacts
<1>3. SlotOf(x, 1, c) = SlotOf(h, n + 1, c)
  BY DEF SlotOf
<1> HIDE DEF x
<1>4. (x + 1) % c = SlotOf(x, 1, c)
  <2>1. 1 \in 0..c
    OBVIOUS
  <2> QED
    BY <1>1, <2>1, SlotFacts
<1> QED
  BY <1>1, <1>2, <1>3, <1>4

\* The read index after a take: in the ring, and as far from the write index.
LEMMA HeadNext ==
  ASSUME NEW c \in Nat \ {0}, NEW h \in 0..(c - 1), NEW n \in 1..c
  PROVE  /\ (h + 1) % c \in 0..(c - 1)
         /\ (((h + 1) % c) + (n - 1)) % c = (h + n) % c
<1> DEFINE x == SlotOf(h, 1, c)
<1>1. (h + 1) % c = x /\ x \in 0..(c - 1)
  <2>1. 1 \in 0..c
    OBVIOUS
  <2> QED
    BY <2>1, SlotFacts
<1>2. (h + n) % c = SlotOf(h, n, c)
  <2>1. n \in 0..c
    OBVIOUS
  <2> QED
    BY <2>1, SlotFacts
<1>3. SlotOf(x, n - 1, c) = SlotOf(h, n, c)
  BY DEF SlotOf
<1> HIDE DEF x
<1>4. (x + (n - 1)) % c = SlotOf(x, n - 1, c)
  <2>1. n - 1 \in 0..c
    OBVIOUS
  <2> QED
    BY <1>1, <2>1, SlotFacts
<1> QED
  BY <1>1, <1>2, <1>3, <1>4

\* A sender inside a call has a value to send.
LEMMA ItemToSend ==
  ASSUME TypeOK, ItemsLeft, NEW s \in Senders, InSend(s)
  PROVE  MoreToSend(s) /\ Items[s][next[s] + 1] \in Int
<1>1. MoreToSend(s)
  BY DEF ItemsLeft, InSend
<1>2. Items[s] \in Seq(Int) /\ next[s] \in Nat
  BY ChannelAssumption DEF TypeOK
<1> QED
  BY <1>1, <1>2 DEF MoreToSend

\* SendStore into a ring with a free slot
StoreKeeps(v) ==
  /\ cap \in Nat \ {0} /\ len \in 0..(cap - 1)
  /\ cap' = cap /\ head' = head /\ tail' = (tail + 1) % cap
  /\ buf' = [buf EXCEPT ![tail] = v]

\* SendStore into the ring that meth_chan_grow makes for it
StoreGrows(v) ==
  /\ cap = 0 /\ len = 0
  /\ cap' = FirstGrow /\ head' = 0 /\ tail' = 1 % FirstGrow
  /\ buf' = [[i \in 0..(FirstGrow - 1) |-> Nil] EXCEPT ![0] = v]

\* A store writes into the ring it finds, or into the first one: no call of
\* meth_chan_grow ever has values to move.
LEMMA StoreCases ==
  ASSUME TypeOK, NEW s \in Senders, SendStore(s), NEW v, v = Items[s][next[s] + 1]
  PROVE  StoreKeeps(v) \/ StoreGrows(v)
<1>1. cap \in Nat /\ len \in 0..cap /\ ~(cap > 0 /\ len >= cap)
  BY DEF TypeOK, SendStore, SendMustWait
<1>2. CASE cap = 0
  <2>1. len = 0 /\ MustGrow /\ GrownCap = FirstGrow
    BY <1>1, <1>2 DEF MustGrow, GrownCap
  <2>2. [i \in 0..(FirstGrow - 1) |-> IF i < 0 THEN buf[(head + i) % cap] ELSE Nil]
          = [i \in 0..(FirstGrow - 1) |-> Nil]
    BY ChannelAssumption
  <2>3. cap' = FirstGrow /\ head' = 0 /\ tail' = 1 % FirstGrow
    BY <2>1 DEF SendStore
  <2>4. buf' = [[i \in 0..(FirstGrow - 1) |->
                   IF i < 0 THEN buf[(head + i) % cap] ELSE Nil] EXCEPT ![0] = v]
    BY <2>1 DEF SendStore
  <2>5. buf' = [[i \in 0..(FirstGrow - 1) |-> Nil] EXCEPT ![0] = v]
    BY <2>2, <2>4, Zenon
  <2> QED
    BY <1>2, <2>1, <2>3, <2>5 DEF StoreGrows
<1>3. CASE cap # 0
  <2>1. ~MustGrow
    BY <1>1, <1>3 DEF MustGrow
  <2>2. len \in 0..(cap - 1)
    BY <1>1, <1>3
  <2> QED
    BY <1>1, <1>3, <2>1, <2>2 DEF SendStore, StoreKeeps
<1> QED
  BY <1>2, <1>3

\* A store keeps the types.
LEMMA StoreType ==
  ASSUME TypeOK, ItemsLeft, NEW s \in Senders, SendStore(s)
  PROVE  TypeOK'
<1> DEFINE v == Items[s][next[s] + 1]
<1>1. v \in Int
  BY ItemToSend DEF SendStore
<1>2. StoreKeeps(v) \/ StoreGrows(v)
  BY StoreCases
<1>3. /\ requested' = requested /\ closed' = closed /\ got' = got
      /\ sent' = Append(sent, v) /\ len' = len + 1
      /\ next' = [next EXCEPT ![s] = @ + 1]
      /\ pc' \in SignalOne([pc EXCEPT ![s] = "idle"], "recvWait", "recvWoken")
  BY DEF SendStore, SendDone
<1> HIDE DEF v
<1>4. pc' \in [Threads -> Pcs]
  <2>1. [pc EXCEPT ![s] = "idle"] \in [Threads -> Pcs]
    BY DEF TypeOK, Pcs
  <2>2. "recvWait" \in Pcs /\ "recvWoken" \in Pcs
    BY DEF Pcs
  <2> QED
    BY <1>3, <2>1, <2>2, SignalPoint
<1>5. sent' \in Seq(Int) /\ got' \in Seq(Int) /\ next' \in [Senders -> Nat]
  BY <1>1, <1>3 DEF TypeOK
<1>6. CASE StoreKeeps(v)
  <2>1. tail' = (head' + len') % cap' /\ head' \in 0..(cap' - 1)
    <3>1. tail = (head + len) % cap /\ head \in 0..(cap - 1)
      BY <1>6 DEF StoreKeeps, TypeOK
    <3>2. (((head + len) % cap) + 1) % cap = (head + (len + 1)) % cap
      BY <1>6, <3>1, TailNext DEF StoreKeeps
    <3> QED
      BY <1>3, <1>6, <3>1, <3>2 DEF StoreKeeps
  <2>2. buf' \in [0..(cap' - 1) -> Int \cup {Nil}]
    BY <1>1, <1>6 DEF StoreKeeps, TypeOK
  <2>3. cap' \in Nat /\ cap' # 0 /\ len' \in 0..cap'
    BY <1>3, <1>6 DEF StoreKeeps
  <2> QED
    BY <1>3, <1>4, <1>5, <2>1, <2>2, <2>3 DEF TypeOK, Pcs
<1>7. CASE StoreGrows(v)
  <2>1. cap' \in Nat \ {0} /\ head' = 0 /\ len' = 1
    BY <1>3, <1>7, ChannelAssumption DEF StoreGrows
  <2>4. tail' = 1 % cap'
    BY <1>7 DEF StoreGrows
  <2>2. tail' = (head' + len') % cap' /\ head' \in 0..(cap' - 1) /\ len' \in 0..cap'
    <3>1. head' + len' = 1
      BY <2>1
    <3>2. tail' = (head' + len') % cap'
      BY <2>4, <3>1, Zenon
    <3>3. head' \in 0..(cap' - 1)
      <4>1. 0 \in 0..(FirstGrow - 1)
        BY ChannelAssumption
      <4> QED
        BY <1>7, <4>1 DEF StoreGrows
    <3>4. len' \in 0..cap'
      BY <2>1
    <3> QED
      BY <3>2, <3>3, <3>4, Zenon
  <2>3. buf' \in [0..(cap' - 1) -> Int \cup {Nil}]
    BY <1>1, <1>7 DEF StoreGrows
  <2> QED
    BY <1>3, <1>4, <1>5, <2>1, <2>2, <2>3 DEF TypeOK, Pcs
<1> QED
  BY <1>2, <1>6, <1>7

\* A store keeps the order, with and without growth.
LEMMA StoreInOrder ==
  ASSUME TypeOK, InOrder, ItemsLeft, NEW s \in Senders, SendStore(s)
  PROVE  InOrder'
<1> DEFINE v == Items[s][next[s] + 1]
<1>1. v \in Int
  BY ItemToSend DEF SendStore
<1>2. StoreKeeps(v) \/ StoreGrows(v)
  BY StoreCases
<1>3. got' = got /\ sent' = Append(sent, v) /\ len' = len + 1
  BY DEF SendStore
<1>4. sent = got \o ContentsOf(buf, head, len, cap)
  BY DEF InOrder, Contents, ContentsOf
<1>5. sent \in Seq(Int) /\ got \in Seq(Int)
  BY DEF TypeOK
<1>8. InOrder' <=> sent' = got' \o ContentsOf(buf', head', len', cap')
  BY DEF InOrder, Contents, ContentsOf
<1> HIDE DEF v
<1>6. CASE StoreKeeps(v)
  <2>1. head \in 0..(cap - 1) /\ tail = (head + len) % cap
    BY <1>6 DEF TypeOK, StoreKeeps
  <2>2. Stored(buf', buf, head, len, cap, v)
    <3>1. tail \in 0..(cap - 1)
      BY <1>6, <2>1, SlotFacts DEF StoreKeeps
    <3> QED
      BY <1>6, <2>1, <3>1 DEF StoreKeeps, TypeOK, Stored
  <2>3. Append(sent, v) = got \o ContentsOf(buf', head, len + 1, cap)
    <3> DEFINE f == ContentsOf(buf, head, len, cap)
               k == ContentsOf(buf', head, len + 1, cap)
    <3>1. cap \in Nat \ {0} /\ len \in 0..(cap - 1) /\ len \in Nat
      BY <1>6 DEF StoreKeeps
    <3>2. f \in Seq(Int) /\ Len(f) = len
      BY <1>4, <1>5, <3>1, SplitContents, ZenonT(60)
    <3>3. k = Append(f, v)
      BY <1>1, <2>1, <2>2, <3>1, <3>2, StoreContents
    <3> HIDE DEF f, k
    <3>4. Append(got \o f, v) = got \o Append(f, v)
      BY <1>1, <1>5, <3>2, AddLast
    <3> QED
      BY <1>4, <3>3, <3>4 DEF f, k
  <2>4. head' = head /\ cap' = cap
    BY <1>6 DEF StoreKeeps
  <2> QED
    BY <1>3, <1>8, <2>3, <2>4
<1>7. CASE StoreGrows(v)
  <2> DEFINE e == [i \in 0..(FirstGrow - 1) |-> Nil]
  <2>1. FirstGrow \in Nat \ {0} /\ 0 \in 0..(FirstGrow - 1) /\ (0 + 0) % FirstGrow = 0
    BY ChannelAssumption
  <2>2. Stored(buf', e, 0, 0, FirstGrow, v)
    BY <1>7, <2>1 DEF StoreGrows, Stored
  <2> HIDE DEF e
  <2>3. sent = got \o ContentsOf(e, 0, 0, FirstGrow)
    <3>1. len = 0
      BY <1>7 DEF StoreGrows
    <3>2. ContentsOf(buf, head, 0, cap) = ContentsOf(e, 0, 0, FirstGrow)
      BY EmptyContents
    <3> QED
      BY <1>4, <3>1, <3>2
  <2>4. Append(sent, v) = got \o ContentsOf(buf', 0, 0 + 1, FirstGrow)
    <3> DEFINE f == ContentsOf(e, 0, 0, FirstGrow)
               k == ContentsOf(buf', 0, 0 + 1, FirstGrow)
    <3>1. f = <<>>
      BY EmptyContents, Zenon
    <3>2. f \in Seq(Int) /\ Len(f) = 0
      <4>1. <<>> \in Seq(Int) /\ Len(<<>>) = 0
        OBVIOUS
      <4> HIDE DEF f
      <4> QED
        BY <3>1, <4>1, Zenon
    <3>3. k = Append(f, v)
      BY <1>1, <2>1, <2>2, <3>2, StoreContents
    <3> HIDE DEF f, k
    <3>4. Append(got \o f, v) = got \o Append(f, v)
      BY <1>1, <1>5, <3>2, AddLast
    <3> QED
      BY <2>3, <3>3, <3>4 DEF f, k
  <2>5. head' = 0 /\ cap' = FirstGrow /\ len' = 1
    BY <1>3, <1>7 DEF StoreGrows
  <2> QED
    BY <1>3, <1>8, <2>4, <2>5
<1> QED
  BY <1>2, <1>6, <1>7

\* A take keeps the types and the order.
LEMMA TakeFacts ==
  ASSUME TypeOK, InOrder, NEW r \in Receivers, Take(r)
  PROVE  TypeOK' /\ InOrder'
<1>1. cap \in Nat \ {0} /\ len \in 1..cap /\ head \in 0..(cap - 1)
  BY DEF TypeOK, Take
<1>2. /\ requested' = requested /\ closed' = closed /\ next' = next /\ sent' = sent
      /\ buf' = buf /\ cap' = cap /\ tail' = tail
      /\ got' = Append(got, buf[head]) /\ len' = len - 1 /\ head' = (head + 1) % cap
      /\ pc' \in SignalOne([pc EXCEPT ![r] = "idle"], "sendWait", "sendWoken")
  BY DEF Take
<1>3. sent = got \o ContentsOf(buf, head, len, cap)
  BY DEF InOrder, Contents, ContentsOf
<1>4. sent \in Seq(Int) /\ got \in Seq(Int)
  BY DEF TypeOK
<1>5. /\ buf[head] \in Int
      /\ sent = Append(got, buf[head]) \o ContentsOf(buf, (head + 1) % cap, len - 1, cap)
  BY <1>1, <1>3, <1>4, TakeOrder
<1>6. InOrder'
  BY <1>2, <1>5 DEF InOrder, Contents, ContentsOf
<1>7. pc' \in [Threads -> Pcs]
  <2>1. [pc EXCEPT ![r] = "idle"] \in [Threads -> Pcs]
    BY DEF TypeOK, Pcs
  <2>2. "sendWait" \in Pcs /\ "sendWoken" \in Pcs
    BY DEF Pcs
  <2> QED
    BY <1>2, <2>1, <2>2, SignalPoint
<1>8. /\ (head + 1) % cap \in 0..(cap - 1)
      /\ (((head + 1) % cap) + (len - 1)) % cap = (head + len) % cap
  BY <1>1, HeadNext
<1>9. head' \in 0..(cap - 1) /\ tail' = (head' + len') % cap' /\ len' \in 0..cap'
  <2>1. tail = (head + len) % cap
    BY <1>1 DEF TypeOK
  <2>2. head' + len' = ((head + 1) % cap) + (len - 1)
    BY <1>2
  <2>3. tail' = (head' + len') % cap'
    BY <1>2, <1>8, <2>1, <2>2
  <2> QED
    BY <1>1, <1>2, <1>8, <2>3
<1>10. got' \in Seq(Int)
  BY <1>2, <1>4, <1>5
<1> QED
  BY <1>1, <1>2, <1>6, <1>7, <1>9, <1>10 DEF TypeOK, Pcs

\* A thread that moves to another state joins no third one.
LEMMA MoveOne ==
  ASSUME NEW p \in [Threads -> Pcs], NEW t \in Threads, NEW x \in Pcs,
         NEW q, Moved(q, p, t, x)
  PROVE  /\ \A k : k # x => At(q, k) \subseteq At(p, k)
         /\ \A k : k # x /\ p[t] # k => At(q, k) = At(p, k)
BY DEF At, Moved

\* A store, which adds a value and signals a receiver, keeps the count.
LEMMA WokenStore ==
  ASSUME NEW p \in [Threads -> Pcs], NEW s \in Threads, p[s] \in {"idle", "sendWoken"},
         NEW l \in Nat, NEW c \in Nat, NEW z \in BOOLEAN, ~z, WokenFor(p, l, c, z),
         NEW m \in [Threads -> Pcs], Moved(m, p, s, "idle"),
         NEW q \in SignalOne(m, "recvWait", "recvWoken")
  PROVE  WokenFor(q, l + 1, c, z) /\ At(q, "sendWait") = At(p, "sendWait")
<1>3. /\ "idle" \in Pcs /\ "recvWait" \in Pcs /\ "recvWoken" \in Pcs
      /\ "sendWait" \in Pcs /\ "sendWoken" \in Pcs
  BY DEF Pcs
<1>4. /\ At(m, "recvWait") \subseteq At(p, "recvWait")
      /\ At(m, "recvWoken") = At(p, "recvWoken")
      /\ At(m, "sendWait") = At(p, "sendWait")
  <2>1. /\ \A k : k # "idle" => At(m, k) \subseteq At(p, k)
        /\ \A k : k # "idle" /\ p[s] # k => At(m, k) = At(p, k)
    BY <1>3, MoveOne
  <2> QED
    BY <2>1
<1>5. Cardinality(At(p, "sendWoken")) <= Cardinality(At(m, "sendWoken")) + 1
  BY <1>3, LeaveOne
<1>6. /\ At(q, "recvWait") \subseteq At(m, "recvWait")
      /\ At(q, "sendWait") = At(m, "sendWait") /\ At(q, "sendWoken") = At(m, "sendWoken")
      /\ At(q, "recvWait") # {}
           => Cardinality(At(q, "recvWoken")) = Cardinality(At(m, "recvWoken")) + 1
  <2>1. \A k : k # "recvWait" /\ k # "recvWoken" => At(q, k) = At(m, k)
    BY <1>3, SignalCount
  <2>2. /\ At(q, "recvWait") \subseteq At(m, "recvWait")
        /\ At(q, "recvWait") # {}
             => Cardinality(At(q, "recvWoken")) = Cardinality(At(m, "recvWoken")) + 1
    BY <1>3, SignalCount
  <2> QED
    BY <2>1, <2>2
<1>7. At(q, "recvWait") # {} => l + 1 <= Cardinality(At(q, "recvWoken"))
  <2> SUFFICES ASSUME At(q, "recvWait") # {}
               PROVE  l + 1 <= Cardinality(At(q, "recvWoken"))
    OBVIOUS
  <2>1. l <= Cardinality(At(p, "recvWoken"))
    BY <1>4, <1>6 DEF WokenFor
  <2>2. Cardinality(At(q, "recvWoken")) = Cardinality(At(p, "recvWoken")) + 1
    BY <1>4, <1>6
  <2> QED
    BY <2>1, <2>2, AtFinite
<1>8. At(q, "sendWait") # {}
        => c > 0 /\ c <= (l + 1) + Cardinality(At(q, "sendWoken"))
  <2> SUFFICES ASSUME At(q, "sendWait") # {}
               PROVE  c > 0 /\ c <= (l + 1) + Cardinality(At(q, "sendWoken"))
    OBVIOUS
  <2>1. c > 0 /\ c <= l + Cardinality(At(p, "sendWoken"))
    BY <1>4, <1>6 DEF WokenFor
  <2>2. Cardinality(At(p, "sendWoken")) <= Cardinality(At(q, "sendWoken")) + 1
    BY <1>5, <1>6
  <2>3. Cardinality(At(p, "sendWoken")) \in Nat /\ Cardinality(At(q, "sendWoken")) \in Nat
    BY AtFinite
  <2> QED
    BY <2>1, <2>2, <2>3
<1> QED
  BY <1>4, <1>6, <1>7, <1>8 DEF WokenFor

\* A take, which frees a slot and signals a sender, keeps the count.
LEMMA WokenTake ==
  ASSUME NEW p \in [Threads -> Pcs], NEW r \in Threads, p[r] \in {"idle", "recvWoken"},
         NEW l \in Nat \ {0}, NEW c \in Nat, NEW z \in BOOLEAN, WokenFor(p, l, c, z),
         NEW m \in [Threads -> Pcs], Moved(m, p, r, "idle"),
         NEW q \in SignalOne(m, "sendWait", "sendWoken")
  PROVE  WokenFor(q, l - 1, c, z)
<1>3. /\ "idle" \in Pcs /\ "recvWait" \in Pcs /\ "recvWoken" \in Pcs
      /\ "sendWait" \in Pcs /\ "sendWoken" \in Pcs
  BY DEF Pcs
<1>4. /\ At(m, "recvWait") = At(p, "recvWait")
      /\ At(m, "sendWoken") = At(p, "sendWoken")
      /\ At(m, "sendWait") \subseteq At(p, "sendWait")
  <2>1. /\ \A k : k # "idle" => At(m, k) \subseteq At(p, k)
        /\ \A k : k # "idle" /\ p[r] # k => At(m, k) = At(p, k)
    BY <1>3, MoveOne
  <2> QED
    BY <2>1
<1>5. Cardinality(At(p, "recvWoken")) <= Cardinality(At(m, "recvWoken")) + 1
  BY <1>3, LeaveOne
<1>6. /\ At(q, "sendWait") \subseteq At(m, "sendWait")
      /\ At(q, "recvWait") = At(m, "recvWait") /\ At(q, "recvWoken") = At(m, "recvWoken")
      /\ At(q, "sendWait") # {}
           => Cardinality(At(q, "sendWoken")) = Cardinality(At(m, "sendWoken")) + 1
  <2>1. \A k : k # "sendWait" /\ k # "sendWoken" => At(q, k) = At(m, k)
    BY <1>3, SignalCount
  <2>2. /\ At(q, "sendWait") \subseteq At(m, "sendWait")
        /\ At(q, "sendWait") # {}
             => Cardinality(At(q, "sendWoken")) = Cardinality(At(m, "sendWoken")) + 1
    BY <1>3, SignalCount
  <2> QED
    BY <2>1, <2>2
<1>7. At(q, "recvWait") # {} => l - 1 <= Cardinality(At(q, "recvWoken"))
  <2> SUFFICES ASSUME At(q, "recvWait") # {}
               PROVE  l - 1 <= Cardinality(At(q, "recvWoken"))
    OBVIOUS
  <2>1. l <= Cardinality(At(p, "recvWoken"))
    BY <1>4, <1>6 DEF WokenFor
  <2>2. Cardinality(At(p, "recvWoken")) <= Cardinality(At(q, "recvWoken")) + 1
    BY <1>5, <1>6
  <2>3. Cardinality(At(p, "recvWoken")) \in Nat /\ Cardinality(At(q, "recvWoken")) \in Nat
    BY AtFinite
  <2> QED
    BY <2>1, <2>2, <2>3
<1>8. At(q, "sendWait") # {}
        => c > 0 /\ c <= (l - 1) + Cardinality(At(q, "sendWoken"))
  <2> SUFFICES ASSUME At(q, "sendWait") # {}
               PROVE  c > 0 /\ c <= (l - 1) + Cardinality(At(q, "sendWoken"))
    OBVIOUS
  <2>1. c > 0 /\ c <= l + Cardinality(At(p, "sendWoken"))
    BY <1>4, <1>6 DEF WokenFor
  <2>2. Cardinality(At(q, "sendWoken")) = Cardinality(At(p, "sendWoken")) + 1
    BY <1>4, <1>6
  <2>3. Cardinality(At(p, "sendWoken")) \in Nat /\ Cardinality(At(q, "sendWoken")) \in Nat
    BY AtFinite
  <2> QED
    BY <2>1, <2>2, <2>3
<1>9. z => At(q, "recvWait") = {} /\ At(q, "sendWait") = {}
  BY <1>4, <1>6 DEF WokenFor
<1> QED
  BY <1>7, <1>8, <1>9 DEF WokenFor

\* A wake-up nobody asked for keeps the count.
LEMMA WokenSpurious ==
  ASSUME NEW p \in [Threads -> Pcs], NEW l \in Nat, NEW c \in Nat, NEW z \in BOOLEAN,
         WokenFor(p, l, c, z), NEW t \in Threads, NEW q,
         \/ p[t] = "recvWait" /\ q = [p EXCEPT ![t] = "recvWoken"]
         \/ p[t] = "sendWait" /\ q = [p EXCEPT ![t] = "sendWoken"]
  PROVE  WokenFor(q, l, c, z)
<1>1. /\ "recvWait" \in Pcs /\ "recvWoken" \in Pcs
      /\ "sendWait" \in Pcs /\ "sendWoken" \in Pcs
  BY DEF Pcs
<1>2. \A k : Cardinality(At(p, k)) \in Nat
  BY AtFinite
<1>3. CASE p[t] = "recvWait" /\ q = [p EXCEPT ![t] = "recvWoken"]
  <2>1. q \in SignalOne(p, "recvWait", "recvWoken")
    BY <1>3 DEF SignalOne
  <2>2. /\ At(q, "recvWait") \subseteq At(p, "recvWait")
        /\ At(q, "sendWait") = At(p, "sendWait") /\ At(q, "sendWoken") = At(p, "sendWoken")
        /\ At(q, "recvWait") # {}
             => Cardinality(At(q, "recvWoken")) = Cardinality(At(p, "recvWoken")) + 1
    BY <1>1, <2>1, SignalCount
  <2>3. At(q, "recvWait") # {} => l <= Cardinality(At(q, "recvWoken"))
    BY <1>2, <2>2 DEF WokenFor
  <2> QED
    BY <2>2, <2>3 DEF WokenFor
<1>4. CASE p[t] = "sendWait" /\ q = [p EXCEPT ![t] = "sendWoken"]
  <2>1. q \in SignalOne(p, "sendWait", "sendWoken")
    BY <1>4 DEF SignalOne
  <2>2. /\ At(q, "sendWait") \subseteq At(p, "sendWait")
        /\ At(q, "recvWait") = At(p, "recvWait") /\ At(q, "recvWoken") = At(p, "recvWoken")
        /\ At(q, "sendWait") # {}
             => Cardinality(At(q, "sendWoken")) = Cardinality(At(p, "sendWoken")) + 1
    BY <1>1, <2>1, SignalCount
  <2>3. At(q, "sendWait") # {} => c > 0 /\ c <= l + Cardinality(At(q, "sendWoken"))
    BY <1>2, <2>2 DEF WokenFor
  <2> QED
    BY <2>2, <2>3 DEF WokenFor
<1> QED
  BY <1>3, <1>4

-----------------------------------------------------------------------------
(* Every action keeps it *)

\* The three kinds of threads are threads, and nobody both sends and receives.
LEMMA InThreads ==
  /\ Senders \subseteq Threads /\ Receivers \subseteq Threads
  /\ Senders \cap Receivers = {}
BY ChannelAssumption DEF Threads

\* SendStore keeps the invariant.
LEMMA StoreStep ==
  ASSUME ChanInv, NEW s \in Senders, SendStore(s)
  PROVE  ChanInv'
<1> USE DEF ChanInv
<1>1. TypeOK' /\ InOrder'
  BY StoreType, StoreInOrder
<1>2. s \in Threads /\ s \notin Receivers /\ pc \in [Threads -> Pcs]
  BY InThreads DEF TypeOK, Pcs
<1>3. PICK m \in [Threads -> Pcs] :
        /\ Moved(m, pc, s, "idle")
        /\ pc' \in SignalOne(m, "recvWait", "recvWoken")
  BY <1>2 DEF SendStore, Pcs, Moved
<1>4. \A t \in Threads : pc'[t] = m[t] \/ pc'[t] = "recvWoken"
  <2>1. "recvWait" \in Pcs /\ "recvWoken" \in Pcs
    BY DEF Pcs
  <2> QED
    BY <1>3, <2>1, SignalPoint
<1>5. ItemsLeft'
  <2> SUFFICES ASSUME NEW u \in Senders, pc'[u] \in {"sendWait", "sendWoken"}
               PROVE  MoreToSend(u)'
    BY DEF ItemsLeft
  <2>1. u # s /\ pc[u] = pc'[u]
    BY <1>2, <1>3, <1>4, InThreads DEF Moved
  <2>2. next'[u] = next[u]
    BY <2>1 DEF SendStore, SendDone, TypeOK
  <2> QED
    BY <2>1, <2>2 DEF ItemsLeft, MoreToSend
<1>6. EndSeen'
  <2>1. closed = FALSE /\ result' = [result EXCEPT ![s] = "ok"]
    BY DEF SendStore, SendDone, TypeOK
  <2>2. result \in [Threads -> Outcomes] /\ \A u \in Receivers : result[u] # "closed"
    BY <2>1 DEF EndSeen
  <2>3. result' \in [Threads -> Outcomes]
    BY <2>1, <2>2 DEF Outcomes
  <2>4. \A u \in Receivers : result'[u] # "closed"
    BY <1>2, <2>1, <2>2, InThreads
  <2> QED
    BY <2>3, <2>4 DEF EndSeen
<1>7. WokenEnough'
  <2>1. /\ pc[s] \in {"idle", "sendWoken"} /\ ~closed
        /\ closed' = closed /\ closed \in BOOLEAN /\ len' = len + 1
    BY DEF SendStore, InSend, TypeOK
  <2>2. len \in Nat /\ cap \in Nat /\ WokenFor(pc, len, cap, closed)
    BY DEF TypeOK, WokenEnough
  <2>3. WokenFor(pc', len + 1, cap, closed) /\ At(pc', "sendWait") = At(pc, "sendWait")
    BY <1>2, <1>3, <2>1, <2>2, WokenStore
  <2>4. WokenFor(pc', len + 1, cap', closed)
    <3> DEFINE v == Items[s][next[s] + 1]
    <3>1. CASE StoreKeeps(v)
      BY <2>3, <3>1 DEF StoreKeeps
    <3>2. CASE StoreGrows(v)
      <4>1. At(pc', "sendWait") = {}
        BY <2>2, <2>3, <3>2 DEF StoreGrows, WokenFor
      <4> QED
        BY <2>3, <4>1 DEF WokenFor
    <3> QED
      BY <3>1, <3>2, StoreCases
  <2> QED
    BY <2>1, <2>4 DEF WokenEnough
<1> QED
  BY <1>1, <1>5, <1>6, <1>7

\* RecvTake and TryRecvTake keep the invariant.
LEMMA TakeStep ==
  ASSUME ChanInv, NEW r \in Receivers, pc[r] \in {"idle", "recvWoken"}, Take(r)
  PROVE  ChanInv'
<1> USE DEF ChanInv
<1>1. TypeOK' /\ InOrder'
  BY TakeFacts
<1>2. r \in Threads /\ r \notin Senders /\ pc \in [Threads -> Pcs]
  BY InThreads DEF TypeOK, Pcs
<1>3. PICK m \in [Threads -> Pcs] :
        /\ Moved(m, pc, r, "idle")
        /\ pc' \in SignalOne(m, "sendWait", "sendWoken")
  BY <1>2 DEF Take, Pcs, Moved
<1>4. \A t \in Threads : pc'[t] = m[t] \/ (m[t] = "sendWait" /\ pc'[t] = "sendWoken")
  <2>1. "sendWait" \in Pcs /\ "sendWoken" \in Pcs
    BY DEF Pcs
  <2> QED
    BY <1>3, <2>1, SignalPoint
<1>5. ItemsLeft'
  <2> SUFFICES ASSUME NEW u \in Senders, pc'[u] \in {"sendWait", "sendWoken"}
               PROVE  MoreToSend(u)'
    BY DEF ItemsLeft
  <2>1. pc[u] \in {"sendWait", "sendWoken"}
    BY <1>2, <1>3, <1>4, InThreads DEF Moved
  <2>2. next' = next
    BY DEF Take
  <2> QED
    BY <2>1, <2>2 DEF ItemsLeft, MoreToSend
<1>6. EndSeen'
  <2>1. len # 0 /\ result' = [result EXCEPT ![r] = "value"]
    BY DEF Take, TypeOK
  <2>2. result \in [Threads -> Outcomes] /\ \A u \in Receivers : result[u] # "closed"
    BY <2>1 DEF EndSeen
  <2>3. result' \in [Threads -> Outcomes]
    BY <2>1, <2>2 DEF Outcomes
  <2>4. \A u \in Receivers : result'[u] # "closed"
    BY <1>2, <2>1, <2>2, InThreads
  <2> QED
    BY <2>3, <2>4 DEF EndSeen
<1>7. WokenEnough'
  <2>1. len \in Nat \ {0} /\ cap \in Nat /\ closed \in BOOLEAN
    BY DEF TypeOK, Take
  <2>3. WokenFor(pc', len - 1, cap, closed)
    BY <1>2, <1>3, <2>1, WokenTake DEF WokenEnough
  <2> QED
    BY <2>3 DEF Take, WokenEnough
<1> QED
  BY <1>1, <1>5, <1>6, <1>7

\* The actions that leave the ring and the two histories alone
LEMMA RingKept ==
  ASSUME TypeOK, InOrder, UNCHANGED <<requested, buf, cap, len, head, tail, sent, got>>,
         closed' \in BOOLEAN, pc' \in [Threads -> Pcs], next' \in [Senders -> Nat]
  PROVE  TypeOK' /\ InOrder'
BY DEF TypeOK, InOrder, Contents, Pcs

\* SendWait keeps the invariant: a sender sleeps only on a full channel.
LEMMA SendWaitStep ==
  ASSUME ChanInv, NEW s \in Senders, SendWait(s)
  PROVE  ChanInv'
<1> USE DEF ChanInv
<1>1. s \in Threads /\ pc \in [Threads -> Pcs] /\ pc[s] \in {"idle", "sendWoken"}
  BY InThreads DEF TypeOK, Pcs, SendWait, InSend
<1>2. Moved(pc', pc, s, "sendWait") /\ pc' \in [Threads -> Pcs] /\ "sendWait" \in Pcs
  BY <1>1 DEF SendWait, Moved, Pcs
<1>3. UNCHANGED <<requested, buf, cap, len, head, tail, closed, next, sent, got, result>>
  BY DEF SendWait, chanVars
<1>4. TypeOK' /\ InOrder'
  BY <1>2, <1>3, RingKept DEF TypeOK
<1>5. ItemsLeft'
  <2>1. MoreToSend(s)
    BY DEF SendWait, InSend, ItemsLeft
  <2> QED
    BY <1>1, <1>2, <1>3, <2>1, InThreads DEF ItemsLeft, MoreToSend, Moved
<1>6. EndSeen'
  BY <1>3 DEF EndSeen
<1>7. WokenFor(pc', len, cap, closed)
  <2>1. /\ \A k : k # "sendWait" => At(pc', k) \subseteq At(pc, k)
        /\ \A k : k # "sendWait" /\ pc[s] # k => At(pc', k) = At(pc, k)
    BY <1>1, <1>2, MoveOne
  <2>2. /\ At(pc', "recvWait") = At(pc, "recvWait")
        /\ At(pc', "recvWoken") = At(pc, "recvWoken")
    BY <1>1, <2>1
  <2>3. cap > 0 /\ cap <= len + Cardinality(At(pc', "sendWoken"))
    <3>1. cap > 0 /\ len >= cap /\ cap \in Nat /\ len \in Nat
      BY DEF SendWait, SendMustWait, TypeOK
    <3> QED
      BY <3>1, AtFinite
  <2>4. ~closed
    BY DEF SendWait, SendMustWait
  <2> QED
    BY <2>2, <2>3, <2>4 DEF WokenEnough, WokenFor
<1> QED
  BY <1>3, <1>4, <1>5, <1>6, <1>7 DEF WokenEnough

\* The calls that return without touching the ring: thread t, awake until now,
\* goes to "idle" with the outcome o.
Returned(t, o) ==
  /\ pc[t] \in {"idle", "sendWoken", "recvWoken"}
  /\ pc' = [pc EXCEPT ![t] = "idle"]
  /\ result' = [result EXCEPT ![t] = o] /\ o \in Outcomes
  /\ UNCHANGED <<requested, buf, cap, len, head, tail, closed, sent, got>>

\* A call that returns without touching the ring keeps the invariant when the
\* channel is closed, when no sender sleeps, or when nothing is stored.
LEMMA ReturnStep ==
  ASSUME ChanInv, NEW t \in Threads, NEW o, Returned(t, o),
         next' \in [Senders -> Nat], \A u \in Senders : u # t => next'[u] = next[u],
         t \in Receivers => (o = "closed" => closed /\ len = 0),
         \/ closed
         \/ At(pc, "sendWait") = {} /\ pc[t] # "recvWoken"
         \/ len = 0 /\ pc[t] # "sendWoken"
  PROVE  ChanInv'
<1> USE DEF ChanInv
<1>1. pc \in [Threads -> Pcs] /\ "idle" \in Pcs
  BY DEF TypeOK, Pcs
<1>2. Moved(pc', pc, t, "idle") /\ pc' \in [Threads -> Pcs]
  BY <1>1 DEF Returned, Moved
<1>3. UNCHANGED <<requested, buf, cap, len, head, tail, closed, sent, got>>
  BY DEF Returned
<1>4. TypeOK' /\ InOrder'
  BY <1>2, <1>3, RingKept DEF TypeOK
<1>5. ItemsLeft'
  <2> SUFFICES ASSUME NEW u \in Senders, pc'[u] \in {"sendWait", "sendWoken"}
               PROVE  MoreToSend(u)'
    BY DEF ItemsLeft
  <2>1. u # t /\ pc[u] = pc'[u]
    BY <1>1, <1>2, InThreads DEF Moved
  <2>2. next'[u] = next[u]
    BY <2>1
  <2> QED
    BY <2>1, <2>2 DEF ItemsLeft, MoreToSend
<1>6. EndSeen'
  <2>1. result' = [result EXCEPT ![t] = o] /\ o \in Outcomes
    BY DEF Returned
  <2>2. result' \in [Threads -> Outcomes]
    BY <2>1 DEF EndSeen
  <2>3. ASSUME NEW u \in Receivers, result'[u] = "closed"
        PROVE  closed /\ len = 0
    BY <2>1, <2>3, InThreads DEF EndSeen
  <2> QED
    BY <1>3, <2>2, <2>3 DEF EndSeen
<1>7. WokenFor(pc', len, cap, closed)
  <2>1. /\ \A k : k # "idle" => At(pc', k) \subseteq At(pc, k)
        /\ \A k : k # "idle" /\ pc[t] # k => At(pc', k) = At(pc, k)
    BY <1>1, <1>2, MoveOne
  <2>2. /\ At(pc', "sendWait") \subseteq At(pc, "sendWait")
        /\ At(pc', "recvWait") \subseteq At(pc, "recvWait")
        /\ pc[t] # "sendWoken" => At(pc', "sendWoken") = At(pc, "sendWoken")
        /\ pc[t] # "recvWoken" => At(pc', "recvWoken") = At(pc, "recvWoken")
    BY <2>1
  <2>3. CASE closed
    BY <2>2, <2>3 DEF WokenEnough, WokenFor
  <2>4. CASE At(pc, "sendWait") = {} /\ pc[t] # "recvWoken"
    BY <2>2, <2>4 DEF WokenEnough, WokenFor
  <2>5. CASE len = 0 /\ pc[t] # "sendWoken"
    <3>1. len <= Cardinality(At(pc', "recvWoken"))
      BY <2>5, AtFinite
    <3> QED
      BY <2>2, <2>5, <3>1 DEF WokenEnough, WokenFor
  <2> QED
    BY <2>3, <2>4, <2>5
<1> QED
  BY <1>3, <1>4, <1>5, <1>6, <1>7 DEF WokenEnough

\* SendClosed keeps the invariant.
LEMMA SendClosedStep ==
  ASSUME ChanInv, NEW s \in Senders, SendClosed(s)
  PROVE  ChanInv'
<1>1. s \in Threads /\ s \notin Receivers
  BY InThreads
<1>2. Returned(s, "closed") /\ closed
  BY DEF SendClosed, SendDone, InSend, Returned, Outcomes, chanVars
<1>3. next' \in [Senders -> Nat] /\ \A u \in Senders : u # s => next'[u] = next[u]
  BY DEF SendClosed, SendDone, ChanInv, TypeOK
<1> QED
  BY <1>1, <1>2, <1>3, ReturnStep

\* SendNoMemory keeps the invariant: it is met only before the first slots exist.
LEMMA SendNoMemoryStep ==
  ASSUME ChanInv, NEW s \in Senders, SendNoMemory(s)
  PROVE  ChanInv'
<1>1. s \in Threads /\ s \notin Receivers
  BY InThreads
<1>2. Returned(s, "no memory") /\ pc[s] # "recvWoken"
  BY DEF SendNoMemory, SendDone, InSend, Returned, Outcomes, chanVars
<1>3. next' \in [Senders -> Nat] /\ \A u \in Senders : u # s => next'[u] = next[u]
  <2>1. next' = [next EXCEPT ![s] = @ + 1] /\ next \in [Senders -> Nat]
    BY DEF SendNoMemory, SendDone, ChanInv, TypeOK
  <2> QED
    BY <2>1
<1>4. cap = 0
  <2>1. cap \in Nat
    BY DEF ChanInv, TypeOK
  <2>2. ~(cap > 0 /\ len >= cap) /\ (cap = 0 \/ len >= cap)
    BY DEF SendNoMemory, MustGrow, SendMustWait
  <2> QED
    BY <2>1, <2>2
<1>5. At(pc, "sendWait") = {}
  BY <1>4 DEF ChanInv, WokenEnough, WokenFor
<1> QED
  BY <1>1, <1>2, <1>3, <1>5, ReturnStep

\* RecvClosed keeps the invariant.
LEMMA RecvClosedStep ==
  ASSUME ChanInv, NEW r \in Receivers, RecvClosed(r)
  PROVE  ChanInv'
<1>1. r \in Threads /\ r \notin Senders
  BY InThreads
<1>2. Returned(r, "closed") /\ closed /\ len = 0
  BY DEF RecvClosed, InRecv, Returned, Outcomes, chanVars
<1>3. next' \in [Senders -> Nat] /\ \A u \in Senders : u # r => next'[u] = next[u]
  BY DEF RecvClosed, ChanInv, TypeOK
<1> QED
  BY <1>1, <1>2, <1>3, ReturnStep

\* TryRecvEmpty keeps the invariant.
LEMMA TryRecvEmptyStep ==
  ASSUME ChanInv, NEW r \in Receivers, TryRecvEmpty(r)
  PROVE  ChanInv'
<1>1. r \in Threads /\ r \notin Senders
  BY InThreads
<1>2. Returned(r, "empty") /\ len = 0 /\ pc[r] # "sendWoken"
  BY DEF TryRecvEmpty, Returned, Outcomes, chanVars, ChanInv, TypeOK
<1>3. next' \in [Senders -> Nat] /\ \A u \in Senders : u # r => next'[u] = next[u]
  BY DEF TryRecvEmpty, ChanInv, TypeOK
<1> QED
  BY <1>1, <1>2, <1>3, ReturnStep

\* RecvWait keeps the invariant: a receiver sleeps only on an empty channel.
LEMMA RecvWaitStep ==
  ASSUME ChanInv, NEW r \in Receivers, RecvWait(r)
  PROVE  ChanInv'
<1> USE DEF ChanInv
<1>1. /\ r \in Threads /\ r \notin Senders /\ pc \in [Threads -> Pcs]
      /\ pc[r] \in {"idle", "recvWoken"}
  BY InThreads DEF TypeOK, Pcs, RecvWait, InRecv
<1>2. Moved(pc', pc, r, "recvWait") /\ pc' \in [Threads -> Pcs] /\ "recvWait" \in Pcs
  BY <1>1 DEF RecvWait, Moved, Pcs
<1>3. UNCHANGED <<requested, buf, cap, len, head, tail, closed, next, sent, got, result>>
  BY DEF RecvWait, chanVars
<1>4. TypeOK' /\ InOrder'
  BY <1>2, <1>3, RingKept DEF TypeOK
<1>5. ItemsLeft'
  BY <1>1, <1>2, <1>3, InThreads DEF ItemsLeft, MoreToSend, Moved
<1>6. EndSeen'
  BY <1>3 DEF EndSeen
<1>7. WokenFor(pc', len, cap, closed)
  <2>1. \A k : k # "recvWait" /\ pc[r] # k => At(pc', k) = At(pc, k)
    BY <1>1, <1>2, MoveOne
  <2>2. /\ At(pc', "sendWait") = At(pc, "sendWait")
        /\ At(pc', "sendWoken") = At(pc, "sendWoken")
    BY <1>1, <2>1
  <2>3. len <= Cardinality(At(pc', "recvWoken")) /\ ~closed
    BY AtFinite DEF RecvWait
  <2> QED
    BY <2>2, <2>3 DEF WokenEnough, WokenFor
<1> QED
  BY <1>3, <1>4, <1>5, <1>6, <1>7 DEF WokenEnough

\* Close keeps the invariant: the broadcasts leave nobody asleep.
LEMMA CloseStep ==
  ASSUME ChanInv, NEW k \in Closers, Close(k)
  PROVE  ChanInv'
<1> USE DEF ChanInv
<1>1. /\ UNCHANGED <<requested, buf, cap, len, head, tail, next, sent, got, result>>
      /\ closed' = TRUE /\ pc' = [t \in Threads |-> Awake(pc[t])]
  BY DEF Close
<1>2. \A t \in Threads : /\ pc'[t] \in {"idle", "sendWoken", "recvWoken"}
                         /\ pc'[t] = "sendWoken" => pc[t] \in {"sendWait", "sendWoken"}
  BY <1>1 DEF Awake, TypeOK
<1>3. pc' \in [Threads -> Pcs]
  BY <1>1, <1>2 DEF Pcs
<1>4. TypeOK' /\ InOrder'
  BY <1>1, <1>3, RingKept DEF TypeOK
<1>5. ItemsLeft'
  BY <1>1, <1>2, InThreads DEF ItemsLeft, MoreToSend
<1>6. EndSeen'
  BY <1>1 DEF EndSeen
<1>7. At(pc', "recvWait") = {} /\ At(pc', "sendWait") = {}
  BY <1>2 DEF At
<1> QED
  BY <1>4, <1>5, <1>6, <1>7 DEF WokenEnough, WokenFor

\* SpuriousWake keeps the invariant.
LEMMA SpuriousStep ==
  ASSUME ChanInv, NEW t \in Threads, SpuriousWake(t)
  PROVE  ChanInv'
<1> USE DEF ChanInv
<1>1. UNCHANGED <<requested, buf, cap, len, head, tail, closed, next, sent, got, result>>
  BY DEF SpuriousWake, chanVars
<1>2. \/ pc[t] = "recvWait" /\ pc' = [pc EXCEPT ![t] = "recvWoken"]
      \/ pc[t] = "sendWait" /\ pc' = [pc EXCEPT ![t] = "sendWoken"]
  BY DEF SpuriousWake, Awake
<1>3. pc \in [Threads -> Pcs]
  BY DEF TypeOK, Pcs
<1>4. pc' \in [Threads -> Pcs]
  BY <1>2, <1>3 DEF Pcs
<1>5. TypeOK' /\ InOrder'
  BY <1>1, <1>4, RingKept DEF TypeOK
<1>6. ItemsLeft'
  BY <1>1, <1>2, <1>3, InThreads DEF ItemsLeft, MoreToSend
<1>7. EndSeen'
  BY <1>1 DEF EndSeen
<1>8. WokenFor(pc', len, cap, closed)
  <2>1. len \in Nat /\ cap \in Nat /\ closed \in BOOLEAN /\ WokenFor(pc, len, cap, closed)
    BY DEF TypeOK, WokenEnough
  <2> QED
    BY <1>2, <1>3, <2>1, WokenSpurious
<1> QED
  BY <1>1, <1>5, <1>6, <1>7, <1>8 DEF WokenEnough

\* The invariant holds of a channel just made.
LEMMA InitInv == Init => ChanInv
<1> SUFFICES ASSUME Init PROVE ChanInv
  OBVIOUS
<1>1. requested \in Nat /\ cap = requested /\ len = 0 /\ head = 0 /\ tail = 0
  BY ChannelAssumption DEF Init
<1>3. TypeOK
  <2>1. buf \in [0..(cap - 1) -> Int \cup {Nil}]
    BY <1>1 DEF Init
  <2>2. IF cap = 0 THEN head = 0 /\ tail = 0
        ELSE head \in 0..(cap - 1) /\ tail = (head + len) % cap
    <3>1. CASE cap = 0
      BY <1>1, <3>1
    <3>2. CASE cap # 0
      <4>1. 0 \in 0..(cap - 1) /\ head + len = 0 /\ 0 % cap = 0
        BY <1>1, <3>2
      <4> QED
        BY <1>1, <3>2, <4>1
    <3> QED
      BY <3>1, <3>2
  <2>3. pc \in [Threads -> Pcs] /\ next \in [Senders -> Nat]
    BY DEF Init, Pcs
  <2>4. sent \in Seq(Int) /\ got \in Seq(Int) /\ closed \in BOOLEAN
    <3>1. sent = <<>> /\ got = <<>> /\ closed = FALSE
      BY DEF Init
    <3>2. <<>> \in Seq(Int)
      OBVIOUS
    <3> QED
      BY <3>1, <3>2
  <2>5. requested \in Requests /\ cap \in Nat /\ len \in 0..cap
    BY <1>1 DEF Init
  <2> QED
    BY <2>1, <2>2, <2>3, <2>4, <2>5 DEF TypeOK, Pcs
<1>4. InOrder
  <2>1. Contents = ContentsOf(buf, head, 0, cap)
    BY <1>1 DEF Contents, ContentsOf
  <2>2. Contents = <<>>
    BY <2>1, EmptyContents
  <2>3. sent = <<>> /\ got = <<>>
    BY DEF Init
  <2>4. <<>> \o <<>> = <<>>
    OBVIOUS
  <2> QED
    BY <2>2, <2>3, <2>4 DEF InOrder
<1>5. \A t \in Threads : pc[t] = "idle" /\ result[t] = "none"
  BY DEF Init
<1>6. ItemsLeft
  BY <1>5, InThreads DEF ItemsLeft
<1>7. EndSeen
  BY <1>5, InThreads DEF Init, EndSeen, Outcomes
<1>8. WokenEnough
  <2>1. At(pc, "recvWait") = {} /\ At(pc, "sendWait") = {}
    BY <1>5 DEF At
  <2> QED
    BY <2>1 DEF WokenEnough, WokenFor
<1> QED
  BY <1>3, <1>4, <1>6, <1>7, <1>8 DEF ChanInv

\* The invariant is inductive.
LEMMA NextInv == ChanInv /\ [Next]_vars => ChanInv'
<1> SUFFICES ASSUME ChanInv, [Next]_vars PROVE ChanInv'
  OBVIOUS
<1>1. ASSUME NEW s \in Senders, SendStep(s) PROVE ChanInv'
  BY <1>1, SendWaitStep, SendClosedStep, StoreStep, SendNoMemoryStep DEF SendStep
<1>2. ASSUME NEW r \in Receivers, RecvStep(r) PROVE ChanInv'
  <2>1. CASE RecvTake(r)
    BY <2>1, TakeStep DEF RecvTake, InRecv
  <2> QED
    BY <1>2, <2>1, RecvWaitStep, RecvClosedStep DEF RecvStep
<1>3. ASSUME NEW r \in Receivers, TryRecvTake(r) PROVE ChanInv'
  BY <1>3, TakeStep DEF TryRecvTake
<1>4. ASSUME NEW r \in Receivers, TryRecvEmpty(r) PROVE ChanInv'
  BY <1>4, TryRecvEmptyStep
<1>5. ASSUME NEW k \in Closers, Close(k) PROVE ChanInv'
  BY <1>5, CloseStep
<1>6. ASSUME NEW t \in Threads, SpuriousWake(t) PROVE ChanInv'
  BY <1>6, SpuriousStep
<1>7. ASSUME UNCHANGED vars PROVE ChanInv'
  BY <1>7 DEF vars, ChanInv, TypeOK, InOrder, Contents, ItemsLeft, MoreToSend,
              EndSeen, WokenEnough
<1> QED
  BY <1>1, <1>2, <1>3, <1>4, <1>5, <1>6, <1>7 DEF Next

\* The inductive invariant of the channel holds in every reachable state.
THEOREM ChannelInvariant == Spec => []ChanInv
BY InitInv, NextInv, PTL DEF Spec

\* The values come out in the order in which __meth_chan_send accepted them,
\* none twice and none missing, whatever the interleaving, the growth and the
\* wrap-around of the ring.
THEOREM ChannelInOrder == Spec => []InOrder
<1>1. ChanInv => InOrder
  BY DEF ChanInv
<1> QED
  BY <1>1, ChannelInvariant, PTL

\* The fields of MethChannel keep their ranges: the length never exceeds the
\* capacity and both indices stay inside the ring.
THEOREM ChannelTypes == Spec => []TypeOK
<1>1. ChanInv => TypeOK
  BY DEF ChanInv
<1> QED
  BY <1>1, ChannelInvariant, PTL

\* A receiver is told that the channel is closed only when every accepted value
\* has been received: __meth_chan_close discards nothing.
THEOREM ChannelCloseLosesNothing == Spec => []CloseLosesNothing
<1>1. ChanInv => CloseLosesNothing
  <2> SUFFICES ASSUME ChanInv, \E r \in Receivers : result[r] = "closed"
               PROVE  got = sent
    BY DEF CloseLosesNothing
  <2>1. len = 0
    BY DEF ChanInv, EndSeen
  <2>2. Contents = ContentsOf(buf, head, 0, cap)
    BY <2>1 DEF Contents, ContentsOf
  <2>3. Contents = <<>>
    BY <2>2, EmptyContents
  <2>4. sent = got \o Contents /\ got \in Seq(Int)
    BY DEF ChanInv, InOrder, TypeOK
  <2>5. got \o <<>> = got
    BY <2>4, ConcatEmptySeq
  <2> QED
    BY <2>3, <2>4, <2>5
<1> QED
  BY <1>1, ChannelInvariant, PTL

\* __meth_chan_send and __meth_chan_recv signal one sleeper each, and still no
\* receiver sleeps beside a value, and no sender beside a free slot, unless
\* another has been woken for it.
THEOREM ChannelNobodyLeftBehind == Spec => []NobodyLeftBehind
<1>1. ChanInv => NobodyLeftBehind
  <2> SUFFICES ASSUME ChanInv PROVE NobodyLeftBehind
    OBVIOUS
  <2>1. WokenFor(pc, len, cap, closed) /\ len \in 0..cap /\ cap \in Nat
    BY DEF ChanInv, WokenEnough, TypeOK
  <2>2. ASSUME NEW k, At(pc, k) = {} PROVE Cardinality(At(pc, k)) = 0
    BY <2>2, FS_EmptySet
  <2>3. (len > 0 /\ \E t \in Threads : pc[t] = "recvWait")
          => \E t \in Threads : pc[t] = "recvWoken"
    <3> SUFFICES ASSUME len > 0, NEW t \in Threads, pc[t] = "recvWait"
                 PROVE  \E u \in Threads : pc[u] = "recvWoken"
      OBVIOUS
    <3>1. At(pc, "recvWait") # {}
      BY DEF At
    <3>2. len <= Cardinality(At(pc, "recvWoken"))
      BY <2>1, <3>1 DEF WokenFor
    <3>3. At(pc, "recvWoken") # {}
      BY <2>1, <2>2, <3>2
    <3> QED
      BY <3>3 DEF At
  <2>4. (len < cap /\ \E t \in Threads : pc[t] = "sendWait")
          => \E t \in Threads : pc[t] = "sendWoken"
    <3> SUFFICES ASSUME len < cap, NEW t \in Threads, pc[t] = "sendWait"
                 PROVE  \E u \in Threads : pc[u] = "sendWoken"
      OBVIOUS
    <3>1. At(pc, "sendWait") # {}
      BY DEF At
    <3>2. cap <= len + Cardinality(At(pc, "sendWoken"))
      BY <2>1, <3>1 DEF WokenFor
    <3>3. At(pc, "sendWoken") # {}
      BY <2>1, <2>2, <3>2
    <3> QED
      BY <3>3 DEF At
  <2>5. closed => \A t \in Threads : pc[t] \notin {"recvWait", "sendWait"}
    BY <2>1 DEF WokenFor, At
  <2> QED
    BY <2>3, <2>4, <2>5 DEF NobodyLeftBehind
<1> QED
  BY <1>1, ChannelInvariant, PTL


=============================================================================
