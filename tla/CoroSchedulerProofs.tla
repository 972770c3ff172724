------------------------ MODULE CoroSchedulerProofs ------------------------
(***************************************************************************)
(* Proofs about the coroutine scheduler, for every number of coroutines,   *)
(* addresses, runners and wakers and every program of the runners.         *)
(*                                                                         *)
(* The ready list is exact whatever the runners do, because each operation *)
(* on it runs under one lock.  That no wake is lost and that no freed task *)
(* is stepped is proved for one runner, SingleRunner: what a runner knows  *)
(* of a task outside the lock is true because nobody else frees it.        *)
(***************************************************************************)
EXTENDS CoroScheduler, FiniteSetTheorems, SequenceTheorems, TLAPS

Stepping == {"read", "step", "complete"}

\* The types that the proofs need, and that a task has an owner from the time
\* it is made on.
Shape ==
  /\ tasks \subseteq Addrs
  /\ next \in [Addrs -> Addrs \cup {Null}]
  /\ queued \in [Addrs -> BOOLEAN]
  /\ owner \in [Addrs -> Coros \cup {Null}]
  /\ pc \in [Runners -> Stepping \cup {"main", "poll", "asleep", "awake",
                                       "drain", "scan", "resolve", "give", "again"}]
  /\ cur \in [Runners -> Addrs \cup {Null}]
  /\ \A a \in tasks : owner[a] \in Coros
  /\ \A r \in Runners : pc[r] \in Stepping =>
                          cur[r] \in Addrs /\ owner[cur[r]] \in Coros
  /\ due \subseteq Coros

\* The ready list is the sequence s: it holds each queued task once.
IsReadyList(s) ==
  /\ s \in Seq(Addrs)
  /\ \A i, j \in 1..Len(s) : s[i] = s[j] => i = j
  /\ Queued = {s[i] : i \in 1..Len(s)}
  /\ Links(s)

ReadyList == \E s : IsReadyList(s)

-----------------------------------------------------------------------------
(* The three operations on the ready list *)

\* A task that was not in the list comes to its end.
LEMMA ListAppend ==
  ASSUME Shape, NEW s, IsReadyList(s), NEW h \in Addrs, h \notin Queued,
         next' = IF tail = Null THEN [next EXCEPT ![h] = Null]
                 ELSE [next EXCEPT ![h] = Null, ![tail] = h],
         head' = IF tail = Null THEN h ELSE head,
         tail' = h,
         Queued' = Queued \cup {h}
  PROVE  ReadyList'
<1> DEFINE n == Len(s)
           t == Append(s, h)
<1>1. /\ n \in Nat /\ s \in Seq(Addrs) /\ Null \notin Addrs
      /\ \A i \in 1..n : s[i] \in Addrs /\ s[i] # h /\ s[i] # Null
  BY CoroAssumption DEF IsReadyList
<1>2. /\ t \in Seq(Addrs) /\ Len(t) = n + 1 /\ t[n + 1] = h
      /\ \A i \in 1..n : t[i] = s[i]
  BY <1>1
<1>3. s = <<>> <=> n = 0
  BY <1>1
<1>4. /\ head = IF n = 0 THEN Null ELSE s[1]
      /\ tail = IF n = 0 THEN Null ELSE s[n]
      /\ \A i \in 1..n : next[s[i]] = IF i = n THEN Null ELSE s[i + 1]
      /\ \A i, j \in 1..n : s[i] = s[j] => i = j
      /\ Queued = {s[i] : i \in 1..n}
      /\ next \in [Addrs -> Addrs \cup {Null}]
  BY <1>3 DEF IsReadyList, Links, Shape
<1> HIDE DEF n, t
<1>5. \A i, j \in 1..(n + 1) : t[i] = t[j] => i = j
  <2>1. \A i \in 1..(n + 1) : i \in 1..n \/ i = n + 1
    BY <1>1
  <2>2. \A i \in 1..n : t[i] # t[n + 1]
    BY <1>1, <1>2
  <2>3. \A i, j \in 1..n : t[i] = t[j] => i = j
    BY <1>2, <1>4
  <2> QED BY <2>1, <2>2, <2>3
<1>6. Queued' = {t[i] : i \in 1..(n + 1)}
  <2>1. \A a : a \in Queued' <=> \E i \in 1..(n + 1) : a = t[i]
    BY <1>1, <1>2, <1>4
  <2> QED BY <2>1
<1>7. head' = t[1] /\ tail' = t[n + 1]
  BY <1>1, <1>2, <1>4
<1>8. \A i \in 1..(n + 1) : next'[t[i]] = IF i = n + 1 THEN Null ELSE t[i + 1]
  <2>1. next'[h] = Null
    BY <1>1, <1>4
  <2>2. \A i \in 1..n : next'[s[i]] = IF i = n THEN h ELSE s[i + 1]
    BY <1>1, <1>4
  <2>3. \A i \in 1..(n + 1) : i \in 1..n \/ i = n + 1
    BY <1>1
  <2>4. \A i \in 1..n : i + 1 \in 1..(n + 1) /\ i # n + 1 /\ (i # n => i + 1 \in 1..n)
    BY <1>1
  <2>5. \A i \in 1..n : next'[t[i]] = t[i + 1]
    BY <1>1, <1>2, <2>2, <2>4
  <2> QED BY <1>2, <2>1, <2>3, <2>4, <2>5
<1>9. t # <<>>
  BY <1>1, <1>2
<1>10. IsReadyList(t)'
  BY <1>1, <1>2, <1>5, <1>6, <1>7, <1>8, <1>9, ZenonT(60) DEF IsReadyList, Links
<1> QED BY <1>10 DEF ReadyList

\* The first task leaves the list.
LEMMA ListPop ==
  ASSUME Shape, NEW s, IsReadyList(s), head # Null,
         head' = next[head],
         tail' = IF next[head] = Null THEN Null ELSE tail,
         next' = [next EXCEPT ![head] = Null],
         Queued' = Queued \ {head}
  PROVE  ReadyList'
<1> DEFINE n == Len(s)
           t == Tail(s)
<1>1. /\ n \in Nat /\ s \in Seq(Addrs) /\ Null \notin Addrs
      /\ \A i \in 1..n : s[i] \in Addrs /\ s[i] # Null
  BY CoroAssumption DEF IsReadyList
<1>2. s # <<>> /\ n > 0
  BY <1>1 DEF IsReadyList, Links
<1>3. /\ t \in Seq(Addrs) /\ Len(t) = n - 1
      /\ \A i \in 1..(n - 1) : t[i] = s[i + 1]
  BY <1>1, <1>2
<1>4. /\ head = s[1] /\ tail = s[n]
      /\ \A i \in 1..n : next[s[i]] = IF i = n THEN Null ELSE s[i + 1]
      /\ \A i, j \in 1..n : s[i] = s[j] => i = j
      /\ Queued = {s[i] : i \in 1..n}
      /\ next \in [Addrs -> Addrs \cup {Null}]
  BY <1>2 DEF IsReadyList, Links, Shape
<1>5. t = <<>> <=> n = 1
  BY <1>1, <1>2, <1>3
<1> HIDE DEF n, t
<1>6. \A i, j \in 1..(n - 1) : t[i] = t[j] => i = j
  BY <1>1, <1>2, <1>3, <1>4
<1>7. Queued' = {t[i] : i \in 1..(n - 1)}
  <2>1. ASSUME NEW a \in Queued' PROVE \E i \in 1..(n - 1) : a = t[i]
    <3>1. PICK i \in 1..n : a = s[i]
      BY <2>1, <1>4
    <3>2. i - 1 \in 1..(n - 1) /\ a = t[i - 1]
      BY <3>1, <2>1, <1>1, <1>2, <1>3, <1>4
    <3> QED BY <3>2
  <2>2. ASSUME NEW i \in 1..(n - 1) PROVE t[i] \in Queued'
    <3>1. i + 1 \in 1..n /\ t[i] = s[i + 1] /\ s[i + 1] # s[1]
      BY <1>1, <1>2, <1>3, <1>4
    <3> QED BY <3>1, <1>4
  <2> QED BY <2>1, <2>2
<1>8. next[head] = IF n = 1 THEN Null ELSE s[2]
  BY <1>1, <1>2, <1>4
<1>9. /\ head' = IF n = 1 THEN Null ELSE t[1]
      /\ tail' = IF n = 1 THEN Null ELSE t[n - 1]
  BY <1>1, <1>2, <1>3, <1>4, <1>8
<1>10. \A i \in 1..(n - 1) : next'[t[i]] = IF i = n - 1 THEN Null ELSE t[i + 1]
  <2>1. \A i \in 2..n : next'[s[i]] = IF i = n THEN Null ELSE s[i + 1]
    BY <1>1, <1>2, <1>4
  <2> QED BY <1>1, <1>2, <1>3, <2>1
<1>11. IsReadyList(t)'
  <2> DEFINE m == n - 1
  <2>1. m = Len(t) /\ (t = <<>> <=> n = 1)
    BY <1>3, <1>5
  <2>2. /\ t \in Seq(Addrs)
        /\ \A i, j \in 1..m : t[i] = t[j] => i = j
        /\ Queued' = {t[i] : i \in 1..m}
        /\ head' = IF t = <<>> THEN Null ELSE t[1]
        /\ tail' = IF t = <<>> THEN Null ELSE t[m]
        /\ \A i \in 1..m : next'[t[i]] = IF i = m THEN Null ELSE t[i + 1]
    BY <1>3, <1>6, <1>7, <1>9, <1>10, <2>1
  <2> HIDE DEF m
  <2> QED BY <2>1, <2>2, ZenonT(60) DEF IsReadyList, Links
<1> QED BY <1>11 DEF ReadyList

\* A task is unlinked wherever it stands in the list.
LEMMA ListUnlink ==
  ASSUME Shape, NEW s, IsReadyList(s), NEW h \in Queued, Unlink(h),
         Queued' = Queued \ {h}
  PROVE  ReadyList'
<1> DEFINE n == Len(s)
           before == {a \in tasks : next[a] = h /\ queued[a]}
           prev == IF before = {} THEN Null ELSE CHOOSE a \in before : TRUE
<1>1. /\ n \in Nat /\ s \in Seq(Addrs) /\ Null \notin Addrs
      /\ \A i \in 1..n : s[i] \in Addrs /\ s[i] # Null
  BY CoroAssumption DEF IsReadyList
<1>2. PICK k \in 1..n : h = s[k]
  BY DEF IsReadyList
<1>3. /\ head = s[1] /\ tail = s[n] /\ n > 0
      /\ \A i \in 1..n : next[s[i]] = IF i = n THEN Null ELSE s[i + 1]
      /\ \A i, j \in 1..n : s[i] = s[j] => i = j
      /\ Queued = {s[i] : i \in 1..n}
      /\ next \in [Addrs -> Addrs \cup {Null}]
  BY <1>1, <1>2 DEF IsReadyList, Links, Shape
<1>4. before = {a \in Queued : next[a] = h}
  BY DEF Queued
<1>5. /\ head' = IF head = h THEN next[h] ELSE head
      /\ next' = IF prev = Null THEN next ELSE [next EXCEPT ![prev] = next[h]]
      /\ tail' = IF tail = h THEN prev ELSE tail
  BY DEF Unlink
<1> HIDE DEF before, n
<1>6. prev = IF k = 1 THEN Null ELSE s[k - 1]
  <2>1. CASE k = 1
    <3>1. before = {}
      BY <1>1, <1>2, <1>3, <1>4, <2>1
    <3> QED BY <2>1, <3>1
  <2>2. CASE k # 1
    <3>1. k - 1 \in 1..n /\ next[s[k - 1]] = h
      BY <1>1, <1>2, <1>3, <2>2
    <3>2. \A i \in 1..n : next[s[i]] = h => i = k - 1
      BY <1>1, <1>2, <1>3, <2>2
    <3>3. before = {s[k - 1]}
      BY <1>3, <1>4, <3>1, <3>2
    <3> QED BY <2>2, <3>3
  <2> QED BY <2>1, <2>2
<1> HIDE DEF prev
<1> DEFINE t == [i \in 1..(n - 1) |-> IF i < k THEN s[i] ELSE s[i + 1]]
<1>7. t \in Seq(Addrs) /\ Len(t) = n - 1 /\ (t = <<>> <=> n = 1)
  <2>1. n - 1 \in Nat
    BY <1>1, <1>3
  <2>2. \A i \in 1..(n - 1) : t[i] \in Addrs
    BY <1>1, <1>2, <1>3
  <2>3. t \in [1..(n - 1) -> Addrs]
    BY <2>2
  <2>4. t \in Seq(Addrs)
    BY <2>1, <2>3, IsASeq
  <2>5. Len(t) = n - 1
    BY <2>1, <2>4, LenProperties
  <2> HIDE DEF t
  <2>6. t = <<>> <=> Len(t) = 0
    BY <2>4
  <2>7. n - 1 = 0 <=> n = 1
    BY <1>1
  <2> QED BY <2>4, <2>5, <2>6, <2>7
<1>8. \A i \in 1..(n - 1) : t[i] = IF i < k THEN s[i] ELSE s[i + 1]
  OBVIOUS
<1> HIDE DEF t
<1>9. \A i, j \in 1..(n - 1) : t[i] = t[j] => i = j
  BY <1>1, <1>2, <1>3, <1>8
<1>10. Queued' = {t[i] : i \in 1..(n - 1)}
  <2>1. ASSUME NEW a \in Queued' PROVE \E i \in 1..(n - 1) : a = t[i]
    <3>1. PICK i \in 1..n : a = s[i] /\ i # k
      BY <1>2, <1>3, <2>1
    <3>2. CASE i < k
      BY <1>1, <1>2, <1>8, <3>1, <3>2
    <3>3. CASE i > k
      <4>1. i - 1 \in 1..(n - 1) /\ t[i - 1] = a
        BY <1>1, <1>2, <1>8, <3>1, <3>3
      <4> QED BY <4>1
    <3> QED BY <3>1, <3>2, <3>3, <1>2
  <2>2. ASSUME NEW i \in 1..(n - 1) PROVE t[i] \in Queued'
    <3>1. PICK j \in 1..n : t[i] = s[j] /\ j # k
      BY <1>1, <1>2, <1>8
    <3> QED BY <3>1, <1>2, <1>3
  <2> QED BY <2>1, <2>2
<1>11. next[h] = IF k = n THEN Null ELSE s[k + 1]
  BY <1>2, <1>3
<1>12. /\ head' = IF n = 1 THEN Null ELSE t[1]
       /\ tail' = IF n = 1 THEN Null ELSE t[n - 1]
  <2>1. head = h <=> k = 1
    BY <1>1, <1>2, <1>3
  <2>2. tail = h <=> k = n
    BY <1>1, <1>2, <1>3
  <2> QED BY <1>1, <1>2, <1>3, <1>5, <1>6, <1>8, <1>11, <2>1, <2>2
<1>13. \A i \in 1..n : i # k =>
         next'[s[i]] = IF i = k - 1 THEN next[h] ELSE IF i = n THEN Null ELSE s[i + 1]
  BY <1>1, <1>2, <1>3, <1>5, <1>6
<1>14. \A i \in 1..(n - 1) : next'[t[i]] = IF i = n - 1 THEN Null ELSE t[i + 1]
  <2> TAKE i \in 1..(n - 1)
  <2>1. CASE i < k - 1
    BY <1>1, <1>2, <1>8, <1>13, <2>1
  <2>2. CASE i = k - 1
    BY <1>1, <1>2, <1>8, <1>11, <1>13, <2>2
  <2>3. CASE i > k - 1
    <3>1. i + 1 \in 1..n /\ i + 1 # k /\ t[i] = s[i + 1] /\ i + 1 # k - 1
      BY <1>1, <1>2, <1>8, <2>3
    <3>2. next'[s[i + 1]] = IF i + 1 = n THEN Null ELSE s[i + 2]
      BY <1>1, <1>13, <3>1
    <3> QED BY <1>1, <1>2, <1>8, <2>3, <3>1, <3>2
  <2> QED BY <1>1, <1>2, <2>1, <2>2, <2>3
<1>15. IsReadyList(t)'
  <2> DEFINE m == n - 1
  <2>1. m = Len(t) /\ (t = <<>> <=> n = 1)
    BY <1>7
  <2>2. /\ t \in Seq(Addrs)
        /\ \A i, j \in 1..m : t[i] = t[j] => i = j
        /\ Queued' = {t[i] : i \in 1..m}
        /\ head' = IF t = <<>> THEN Null ELSE t[1]
        /\ tail' = IF t = <<>> THEN Null ELSE t[m]
        /\ \A i \in 1..m : next'[t[i]] = IF i = m THEN Null ELSE t[i + 1]
    BY <1>7, <1>9, <1>10, <1>12, <1>14, <2>1
  <2> HIDE DEF m
  <2> QED BY <2>1, <2>2 DEF IsReadyList, Links
<1> QED BY <1>15 DEF ReadyList

-----------------------------------------------------------------------------
(* The ready list through every step *)

\* What the list says of its ends and of its members.
LEMMA ListFacts ==
  ASSUME Shape, ReadyList
  PROVE  /\ head = Null <=> tail = Null
         /\ head # Null => head \in Queued
         /\ tail # Null => tail \in Queued
         /\ Queued \subseteq tasks /\ Queued \subseteq Addrs
         /\ \A a \in Queued : /\ next[a] \in Queued \cup {Null}
                              /\ a = head \/ \E b \in Queued : next[b] = a
<1> PICK s : IsReadyList(s)
  BY DEF ReadyList
<1> DEFINE n == Len(s)
<1>1. /\ n \in Nat /\ s \in Seq(Addrs) /\ Null \notin Addrs
      /\ \A i \in 1..n : s[i] \in Addrs /\ s[i] # Null /\ s[i] \in Queued
      /\ s = <<>> <=> n = 0
      /\ Queued = {s[i] : i \in 1..n}
  BY CoroAssumption DEF IsReadyList
<1>2. /\ head = IF n = 0 THEN Null ELSE s[1]
      /\ tail = IF n = 0 THEN Null ELSE s[n]
      /\ \A i \in 1..n : next[s[i]] = IF i = n THEN Null ELSE s[i + 1]
  BY <1>1 DEF IsReadyList, Links
<1> HIDE DEF n
<1>3. Queued \subseteq tasks /\ Queued \subseteq Addrs
  BY DEF Queued, Shape
<1>4. ASSUME NEW a \in Queued
      PROVE  /\ next[a] \in Queued \cup {Null}
             /\ a = head \/ \E b \in Queued : next[b] = a
  <2>1. PICK i \in 1..n : a = s[i]
    BY <1>1
  <2>2. next[a] \in Queued \cup {Null}
    <3>1. i # n => i + 1 \in 1..n
      BY <1>1
    <3> QED BY <1>1, <1>2, <2>1, <3>1
  <2>3. CASE i = 1
    BY <1>1, <1>2, <2>1, <2>2, <2>3
  <2>4. CASE i # 1
    <3>1. i - 1 \in 1..n /\ next[s[i - 1]] = a
      BY <1>1, <1>2, <2>1, <2>4
    <3> QED BY <1>1, <2>2, <3>1
  <2> QED BY <2>3, <2>4
<1> QED BY <1>1, <1>2, <1>3, <1>4

\* A step that leaves the tasks and the list alone leaves the list exact.
LEMMA ListSame ==
  ASSUME ReadyList, UNCHANGED <<tasks, head, tail, next, queued>>
  PROVE  ReadyList'
<1> PICK s : IsReadyList(s)
  BY DEF ReadyList
<1>1. Queued' = Queued
  BY DEF Queued
<1>2. IsReadyList(s)'
  BY <1>1 DEF IsReadyList, Links
<1> QED BY <1>2 DEF ReadyList

LEMMA SchedulePreserves ==
  ASSUME Shape, ReadyList, NEW h, Schedule(h), UNCHANGED <<tasks, owner, cur>>,
         UNCHANGED pc \/ \E r \in Runners : Goto(r, "again")
  PROVE  Shape' /\ ReadyList'
<1>0. /\ pc' \in [Runners -> Stepping \cup {"main", "poll", "asleep", "awake", "drain",
                                         "scan", "resolve", "give", "again"}]
      /\ \A r \in Runners : pc'[r] \in Stepping => pc[r] \in Stepping
  BY DEF Shape, Goto, Stepping
<1>1. CASE ~Accepts(h)
  BY <1>0, <1>1, ListSame DEF Schedule, Shape
<1>2. CASE Accepts(h) /\ queued[h]
  BY <1>0, <1>2, ListSame DEF Schedule, Shape, Accepts
<1>3. CASE Accepts(h) /\ ~queued[h]
  <2>1. h \in Addrs /\ h \in tasks /\ h \notin Queued /\ owner[h] \in Coros
    BY <1>3 DEF Accepts, Shape, Queued
  <2>2. /\ due' = due \cup {owner[h]}
        /\ queued' = [queued EXCEPT ![h] = TRUE]
        /\ next' = IF tail = Null THEN [next EXCEPT ![h] = Null]
                   ELSE [next EXCEPT ![h] = Null, ![tail] = h]
        /\ head' = IF tail = Null THEN h ELSE head
        /\ tail' = h
    BY <1>3 DEF Schedule
  <2>3. Queued' = Queued \cup {h}
    BY <2>1, <2>2 DEF Queued, Shape
  <2>4. PICK s : IsReadyList(s)
    BY DEF ReadyList
  <2>5. ReadyList'
    BY <2>1, <2>2, <2>3, <2>4, ListAppend
  <2>6. tail \in Addrs \cup {Null}
    BY ListFacts
  <2>7. next' \in [Addrs -> Addrs \cup {Null}] /\ queued' \in [Addrs -> BOOLEAN]
    BY <2>1, <2>2, <2>6 DEF Shape
  <2> QED BY <1>0, <2>1, <2>2, <2>5, <2>7 DEF Shape
<1> QED BY <1>1, <1>2, <1>3

LEMMA PopPreserves ==
  ASSUME Shape, ReadyList, NEW r \in Runners, Pop(r), Goto(r, "read"),
         UNCHANGED <<tasks, owner, due>>
  PROVE  /\ Shape' /\ ReadyList'
         /\ head \in Queued /\ cur' = [cur EXCEPT ![r] = head]
         /\ Queued' = Queued \ {head}
<1>1. /\ head # Null /\ head \in Queued /\ head \in Addrs /\ head \in tasks
      /\ next[head] \in Addrs \cup {Null}
  BY ListFacts DEF Pop
<1>2. /\ cur' = [cur EXCEPT ![r] = head]
      /\ head' = next[head]
      /\ tail' = IF next[head] = Null THEN Null ELSE tail
      /\ next' = [next EXCEPT ![head] = Null]
      /\ queued' = [queued EXCEPT ![head] = FALSE]
      /\ pc' = [pc EXCEPT ![r] = "read"]
  BY DEF Pop, Goto
<1>3. Queued' = Queued \ {head}
  BY <1>1, <1>2 DEF Queued, Shape
<1>4. PICK s : IsReadyList(s)
  BY DEF ReadyList
<1>5. ReadyList'
  BY <1>1, <1>2, <1>3, <1>4, ListPop
<1>6. Shape'
  BY <1>1, <1>2 DEF Shape, Stepping
<1> QED BY <1>1, <1>2, <1>3, <1>5, <1>6

LEMMA DestroyPreserves ==
  ASSUME Shape, ReadyList, NEW h, Destroy(h), UNCHANGED <<queued, owner, pc, cur>>
  PROVE  Shape' /\ ReadyList'
<1>1. h \in tasks /\ tasks' = tasks \ {h} /\ due' = due \ {owner[h]}
  BY DEF Destroy
<1>2. Queued' = Queued \ {h}
  BY <1>1 DEF Queued
<1>3. CASE queued[h]
  <2>1. h \in Queued /\ Unlink(h)
    BY <1>1, <1>3 DEF Queued, Destroy
  <2>2. PICK s : IsReadyList(s)
    BY DEF ReadyList
  <2>3. ReadyList'
    BY <1>2, <2>1, <2>2, ListUnlink
  <2>4. next[h] \in Addrs \cup {Null}
    BY <2>1, ListFacts
  <2>5. next' \in [Addrs -> Addrs \cup {Null}]
    <3>1. \E p : next' = IF p = Null THEN next ELSE [next EXCEPT ![p] = next[h]]
      BY <2>1 DEF Unlink
    <3> QED BY <2>4, <3>1 DEF Shape
  <2> QED BY <1>1, <2>3, <2>5 DEF Shape
<1>4. CASE ~queued[h]
  <2>1. UNCHANGED <<head, tail, next>>
    BY <1>4 DEF Destroy
  <2>2. Queued' = Queued
    BY <1>2, <1>4 DEF Queued
  <2>3. PICK s : IsReadyList(s)
    BY DEF ReadyList
  <2>4. IsReadyList(s)'
    BY <2>1, <2>2, <2>3 DEF IsReadyList, Links
  <2> QED BY <1>1, <2>1, <2>4 DEF Shape, ReadyList
<1> QED BY <1>3, <1>4

LEMMA CreatePreserves ==
  ASSUME Shape, ReadyList, NEW r \in Runners, NEW c \in Coros, Create(r, c)
  PROVE  Shape' /\ ReadyList'
<1>1. PICK a \in Addrs \ tasks :
        /\ tasks' = tasks \cup {a}
        /\ owner' = [owner EXCEPT ![a] = c]
        /\ queued' = [queued EXCEPT ![a] = TRUE]
        /\ next' = IF tail = Null THEN [next EXCEPT ![a] = Null]
                   ELSE [next EXCEPT ![a] = Null, ![tail] = a]
        /\ head' = IF tail = Null THEN a ELSE head
        /\ tail' = a
  BY DEF Create
<1>2. due' = due \cup {c} /\ UNCHANGED <<pc, cur>>
  BY DEF Create
<1>3. a \notin Queued /\ Queued' = Queued \cup {a}
  BY <1>1 DEF Queued, Shape
<1>4. PICK s : IsReadyList(s)
  BY DEF ReadyList
<1>5. ReadyList'
  BY <1>1, <1>3, <1>4, ListAppend
<1>6. tail \in Addrs \cup {Null}
  BY ListFacts
<1>7. next' \in [Addrs -> Addrs \cup {Null}]
  BY <1>1, <1>6 DEF Shape
<1>8. /\ queued' \in [Addrs -> BOOLEAN] /\ tasks' \subseteq Addrs
      /\ owner' \in [Addrs -> Coros \cup {Null}] /\ due' \subseteq Coros
      /\ \A b \in tasks' : owner'[b] \in Coros
      /\ \A b \in Addrs : owner[b] \in Coros => owner'[b] \in Coros
  BY <1>1, <1>2 DEF Shape
<1>9. Shape'
  BY <1>2, <1>7, <1>8 DEF Shape
<1> QED BY <1>5, <1>9

\* The steps that have nothing to do with the ready list: the step function,
\* the two reactors, and the completions that only post a wake.
Elsewhere(r) ==
  \/ \E c \in Coros : RunPoll(r, c)
  \/ ReactorDown(r) \/ ReactorUp(r)
  \/ StepBegin(r) \/ StepEnd(r) \/ MarkDone(r)
  \/ PollDown(r) \/ PollTake(r) \/ PollSleep(r) \/ SleepTimeout(r) \/ SleepTake(r)
  \/ PollReturns(r) \/ AwakeTake(r) \/ Drain(r) \/ Scan(r) \/ ResolveToken(r)

Posts(w) ==
  \/ \E o \in ops : PostWake(w, o) \/ IoCompletes(w, o)
  \/ PostSignal(w)
  \/ \E c \in Coros : CloseFd(w, c)

LEMMA ElsewhereFrame ==
  ASSUME Shape, NEW r \in Runners, Elsewhere(r)
  PROVE  /\ UNCHANGED <<tasks, head, tail, next, queued, owner, cur>>
         /\ Shape'
         /\ due' \subseteq due
<1>1. CASE StepBegin(r)
  <2>1. /\ UNCHANGED <<tasks, head, tail, next, queued, owner, cur>>
        /\ due' = due \ {owner[cur[r]]} /\ pc[r] = "read" /\ pc' = [pc EXCEPT ![r] = "step"]
    BY <1>1 DEF StepBegin, taskVars, Goto
  <2> QED BY <2>1 DEF Shape, Stepping
<1>2. CASE StepEnd(r)
  <2>1. /\ UNCHANGED <<tasks, head, tail, next, queued, owner, cur, due>>
        /\ pc[r] = "step"
        /\ \E p \in {"complete", "main"} : pc' = [pc EXCEPT ![r] = p]
    BY <1>2 DEF StepEnd, taskVars, Goto, AfterStep
  <2> QED BY <2>1 DEF Shape, Stepping
<1>3. ASSUME UNCHANGED <<tasks, head, tail, next, queued, owner, cur, due>>,
             NEW p \in {"main", "poll", "asleep", "awake", "drain", "scan",
                        "resolve", "give", "again"},
             pc' = [pc EXCEPT ![r] = p]
      PROVE  Shape'
  BY <1>3 DEF Shape, Stepping
<1>4. ASSUME NEW c \in Coros, RunPoll(r, c) PROVE Shape'
  BY <1>4, <1>3 DEF RunPoll, taskVars, coroVars, Goto
<1>5. CASE ReactorDown(r) \/ ReactorUp(r)
  BY <1>5 DEF ReactorDown, ReactorUp, taskVars, coroVars, Shape
<1>6. CASE MarkDone(r)
  BY <1>6, <1>3 DEF MarkDone, listVars, coroVars, Goto
<1>7. CASE PollDown(r) \/ PollSleep(r) \/ SleepTimeout(r) \/ SleepTake(r)
  BY <1>7, <1>3 DEF PollDown, PollSleep, SleepTimeout, SleepTake, taskVars, coroVars, Goto
<1>8. CASE PollTake(r) \/ PollReturns(r) \/ AwakeTake(r) \/ Drain(r)
  BY <1>8, <1>3 DEF PollTake, PollReturns, AwakeTake, Drain, taskVars, coroVars, Goto
<1>9. CASE Scan(r) \/ ResolveToken(r)
  BY <1>9, <1>3 DEF Scan, ResolveToken, taskVars, coroVars, Goto
<1>10. Shape'
  BY <1>1, <1>2, <1>4, <1>5, <1>6, <1>7, <1>8, <1>9,
     \A c \in Coros : RunPoll(r, c) => Shape' DEF Elsewhere
<1>11. UNCHANGED <<tasks, head, tail, next, queued, owner, cur>> /\ due' \subseteq due
  BY DEF Elsewhere, RunPoll, ReactorDown, ReactorUp, StepBegin, StepEnd, MarkDone,
     PollDown, PollTake, PollSleep, SleepTimeout, SleepTake, PollReturns, AwakeTake,
     Drain, Scan, ResolveToken, taskVars, coroVars, listVars
<1> QED BY <1>10, <1>11

LEMMA PostsFrame ==
  ASSUME NEW w \in Wakers, Posts(w)
  PROVE  UNCHANGED <<tasks, head, tail, next, queued, owner, cur, pc, due>>
BY DEF Posts, PostWake, IoCompletes, PostSignal, CloseFd, taskVars, runnerVars,
       coroVars

LEMMA ListInit ==
  Init => Shape /\ ReadyList
<1> SUFFICES ASSUME Init PROVE Shape /\ ReadyList
  OBVIOUS
<1>1. Shape
  BY DEF Init, Shape, Stepping
<1>2. IsReadyList(<<>>)
  <2>1. Queued = {}
    BY DEF Queued, Init
  <2>2. head = Null /\ tail = Null
    BY DEF Init
  <2>3. <<>> \in Seq(Addrs) /\ Len(<<>>) = 0
    OBVIOUS
  <2> QED BY <2>1, <2>2, <2>3 DEF IsReadyList, Links
<1> QED BY <1>1, <1>2 DEF ReadyList

LEMMA ListStep ==
  ASSUME Shape, ReadyList, [Next]_vars
  PROVE  Shape' /\ ReadyList'
<1>1. ASSUME NEW r \in Runners, NEW c \in Coros, Create(r, c)
      PROVE  Shape' /\ ReadyList'
  BY <1>1, CreatePreserves
<1>2. ASSUME NEW r \in Runners, NEW c \in Coros, WaitDone(r, c)
      PROVE  Shape' /\ ReadyList'
  <2>1. UNCHANGED <<queued, owner, pc, cur>>
    BY <1>2 DEF WaitDone
  <2>2. CASE Destroy(at[c])
    BY <2>1, <2>2, DestroyPreserves
  <2>3. CASE UNCHANGED <<tasks, listVars, binding, due>>
    BY <2>1, <2>3, ListSame DEF listVars, Shape
  <2> QED BY <1>2, <2>2, <2>3 DEF WaitDone
<1>3. ASSUME NEW r \in Runners, NEW c \in Coros, RunReady(r, c)
      PROVE  Shape' /\ ReadyList'
  BY <1>3, PopPreserves DEF RunReady, coroVars
<1>4. ASSUME NEW r \in Runners, GiveEvent(r)
      PROVE  Shape' /\ ReadyList'
  <2>1. /\ Schedule(event[r]) /\ UNCHANGED <<tasks, owner, cur>>
        /\ Goto(r, "again")
    BY <1>4 DEF GiveEvent
  <2> QED BY <2>1, SchedulePreserves
<1>5. ASSUME NEW r \in Runners, PopAgain(r)
      PROVE  Shape' /\ ReadyList'
  <2>1. UNCHANGED <<tasks, owner, due>>
    BY <1>5 DEF PopAgain, coroVars
  <2>2. CASE Pop(r) /\ Goto(r, "read")
    BY <2>1, <2>2, PopPreserves
  <2>3. CASE Goto(r, "main") /\ UNCHANGED <<listVars, queued, cur>>
    BY <2>1, <2>3, ListSame DEF listVars, Goto, Shape, Stepping
  <2> QED BY <1>5, <2>2, <2>3 DEF PopAgain
<1>6. ASSUME NEW r \in Runners, Elsewhere(r)
      PROVE  Shape' /\ ReadyList'
  BY <1>6, ElsewhereFrame, ListSame
<1>7. ASSUME NEW w \in Wakers, NEW o \in ops, WakeDirect(w, o)
      PROVE  Shape' /\ ReadyList'
  <2>1. Schedule(o.token) /\ UNCHANGED <<tasks, owner, pc, cur>>
    BY <1>7 DEF WakeDirect, runnerVars
  <2> QED BY <2>1, SchedulePreserves
<1>8. ASSUME NEW w \in Wakers, Posts(w)
      PROVE  Shape' /\ ReadyList'
  BY <1>8, PostsFrame, ListSame DEF Shape
<1>9. CASE UNCHANGED vars
  BY <1>9, ListSame DEF vars, Shape
<1>10. ASSUME NEW r \in Runners, RunnerNext(r)
       PROVE  Shape' /\ ReadyList'
  BY <1>1, <1>2, <1>3, <1>4, <1>5, <1>6, <1>10 DEF RunnerNext, Elsewhere
<1>11. ASSUME NEW w \in Wakers, Completes(w) \/ \E c \in Coros : CloseFd(w, c)
       PROVE  Shape' /\ ReadyList'
  BY <1>7, <1>8, <1>11 DEF Completes, Posts
<1> QED BY <1>9, <1>10, <1>11 DEF Next

LEMMA ListInvariant == Spec => [](Shape /\ ReadyList)
<1>1. Init => Shape /\ ReadyList
  BY ListInit
<1>2. (Shape /\ ReadyList) /\ [Next]_vars => (Shape /\ ReadyList)'
  BY ListStep, SMTT(30)
<1> QED BY <1>1, <1>2, PTL DEF Spec

\* A sequence without repetitions has as many members as places.
LEMMA DistinctMembers ==
  ASSUME NEW S, NEW q \in Seq(S), \A i, j \in 1..Len(q) : q[i] = q[j] => i = j
  PROVE  LET Q == {q[i] : i \in 1..Len(q)}
         IN  IsFiniteSet(Q) /\ Cardinality(Q) = Len(q)
<1> DEFINE n == Len(q)
           Q == {q[i] : i \in 1..n}
<1>1. n \in Nat
  OBVIOUS
<1> HIDE DEF n
<1>2. IsFiniteSet(1..n) /\ Cardinality(1..n) = n
  BY <1>1, FS_Interval
<1>3. q \in Injection(1..n, Q) /\ q \in Surjection(1..n, Q)
  <2>1. q \in [1..n -> Q]
    BY DEF n
  <2>2. q \in Injection(1..n, Q)
    BY <2>1 DEF Injection, IsInjective, n
  <2>3. q \in Surjection(1..n, Q)
    BY <2>1 DEF Surjection
  <2> QED BY <2>2, <2>3
<1>4. IsFiniteSet(Q) /\ Cardinality(Q) = n
  BY <1>2, <1>3, FS_Surjection, SMTT(30)
<1> QED BY <1>4 DEF n

LEMMA ListIsExact ==
  ASSUME ReadyList PROVE ReadyListExact
<1> PICK s : IsReadyList(s)
  BY DEF ReadyList
<1>1. Cardinality(Queued) = Len(s)
  BY DistinctMembers DEF IsReadyList
<1>2. s \in [1..Len(s) -> Queued] /\ DOMAIN s = 1..Len(s)
  BY DEF IsReadyList
<1> QED BY <1>1, <1>2 DEF ReadyListExact, IsReadyList

\* For every number of runners, wakers and tasks: from ready_head one reaches
\* exactly the tasks marked as queued, each once, and ready_tail is the last,
\* through every schedule, pop and destroy (async_runtime.c:294-426).
THEOREM ReadyListIsExact == Spec => []ReadyListExact
<1>1. Shape /\ ReadyList => ReadyListExact
  BY ListIsExact
<1> QED BY <1>1, ListInvariant, PTL

-----------------------------------------------------------------------------
(* One runner: the task it steps lives, and no wake is swallowed *)

\* What a wake is remembered by: the task in the list, or in the hands of the
\* runner that took it out and has not begun the step.
Remembered(c) ==
  \/ \E a \in Queued : owner[a] = c
  \/ \E r \in Runners : pc[r] = "read" /\ owner[cur[r]] = c

WakeInv == StepsLiveTask /\ \A c \in due : Remembered(c)

LEMMA ScheduleWakes ==
  ASSUME Shape, ReadyList, WakeInv, NEW h, Schedule(h), UNCHANGED <<tasks, owner, cur>>,
         UNCHANGED pc \/ \E r \in Runners : pc[r] = "give" /\ Goto(r, "again")
  PROVE  WakeInv'
<1>1. /\ \A r \in Runners : pc'[r] \in {"read", "step"} => pc[r] \in {"read", "step"}
      /\ \A r \in Runners : pc[r] = "read" => pc'[r] = "read"
  BY DEF Shape, Goto
<1>2. Queued \subseteq Queued' /\ \A c \in due' \ due : \E a \in Queued' : owner[a] = c
  BY DEF Schedule, Accepts, Queued, Shape
<1>3. \A c \in due' : Remembered(c)'
  BY <1>1, <1>2 DEF WakeInv, Remembered
<1> QED BY <1>1, <1>3 DEF WakeInv, StepsLiveTask

LEMMA PopWakes ==
  ASSUME SingleRunner, Shape, ReadyList, WakeInv, NEW r \in Runners, Pop(r),
         Goto(r, "read"), pc[r] # "read", UNCHANGED <<tasks, owner, due>>
  PROVE  WakeInv'
<1>1. /\ head \in Queued /\ cur' = [cur EXCEPT ![r] = head]
      /\ Queued' = Queued \ {head}
  BY PopPreserves
<1>2. /\ pc' = [pc EXCEPT ![r] = "read"] /\ pc'[r] = "read" /\ cur'[r] = head
      /\ \A s \in Runners : s = r
  BY <1>1 DEF Goto, SingleRunner, Shape
<1>3. StepsLiveTask'
  BY <1>1, <1>2, ListFacts DEF StepsLiveTask
<1>4. ASSUME NEW c \in due' PROVE Remembered(c)'
  <2>1. Remembered(c) /\ pc[r] # "read"
    BY <1>4 DEF WakeInv
  <2>2. PICK a \in Queued : owner[a] = c
    BY <2>1, <1>2 DEF Remembered
  <2> QED BY <1>1, <1>2, <2>2 DEF Remembered
<1> QED BY <1>3, <1>4 DEF WakeInv

LEMMA WakeStep ==
  ASSUME SingleRunner, Shape, ReadyList, WakeInv, [Next]_vars
  PROVE  WakeInv'
<1>1. ASSUME NEW r \in Runners, NEW c \in Coros, Create(r, c)
      PROVE  WakeInv'
  <2>1. pc[r] = "main" /\ UNCHANGED <<pc, cur>> /\ due' = due \cup {c}
    BY <1>1 DEF Create, Ready
  <2>2. \A s \in Runners : pc[s] = "main"
    BY <2>1 DEF SingleRunner
  <2>3. PICK a \in Addrs \ tasks :
          /\ tasks' = tasks \cup {a}
          /\ owner' = [owner EXCEPT ![a] = c]
          /\ queued' = [queued EXCEPT ![a] = TRUE]
    BY <1>1 DEF Create
  <2>4. a \in Queued' /\ owner'[a] = c /\ Queued \subseteq Queued'
        /\ \A b \in Queued : owner'[b] = owner[b]
    BY <2>3 DEF Shape, Queued
  <2>5. \A d \in due' : Remembered(d)'
    BY <2>1, <2>2, <2>4 DEF WakeInv, Remembered
  <2> QED BY <2>1, <2>2, <2>5 DEF WakeInv, StepsLiveTask
<1>2. ASSUME NEW r \in Runners, NEW c \in Coros, WaitDone(r, c)
      PROVE  WakeInv'
  <2>1. UNCHANGED <<queued, owner, pc, cur>> /\ pc[r] = "main"
    BY <1>2 DEF WaitDone, Ready
  <2>2. \A s \in Runners : pc[s] = "main"
    BY <2>1 DEF SingleRunner
  <2>3. CASE Destroy(at[c])
    <3>1. /\ due' = due \ {owner[at[c]]} /\ Queued' = Queued \ {at[c]}
      BY <2>1, <2>3 DEF Destroy, Queued
    <3>2. \A d \in due' : Remembered(d)'
      BY <2>1, <2>2, <3>1 DEF WakeInv, Remembered
    <3> QED BY <2>1, <2>2, <3>2 DEF WakeInv, StepsLiveTask
  <2>4. CASE UNCHANGED <<tasks, listVars, binding, due>>
    BY <2>1, <2>4 DEF WakeInv, Remembered, StepsLiveTask, Queued
  <2> QED BY <1>2, <2>3, <2>4 DEF WaitDone
<1>3. ASSUME NEW r \in Runners, NEW c \in Coros, RunReady(r, c)
      PROVE  WakeInv'
  BY <1>3, PopWakes DEF RunReady, coroVars, Ready
<1>4. ASSUME NEW r \in Runners, GiveEvent(r)
      PROVE  WakeInv'
  <2>1. /\ Schedule(event[r]) /\ UNCHANGED <<tasks, owner, cur>>
        /\ pc[r] = "give" /\ Goto(r, "again")
    BY <1>4 DEF GiveEvent
  <2> QED BY <2>1, ScheduleWakes
<1>5. ASSUME NEW r \in Runners, PopAgain(r)
      PROVE  WakeInv'
  <2>1. UNCHANGED <<tasks, owner, due>> /\ pc[r] = "again"
    BY <1>5 DEF PopAgain, coroVars
  <2>2. CASE Pop(r) /\ Goto(r, "read")
    BY <2>1, <2>2, PopWakes
  <2>3. CASE Goto(r, "main") /\ UNCHANGED <<listVars, queued, cur>>
    BY <2>1, <2>3 DEF listVars, Goto, Shape, WakeInv, Remembered, StepsLiveTask, Queued
  <2> QED BY <1>5, <2>2, <2>3 DEF PopAgain
<1>6. ASSUME NEW r \in Runners, StepBegin(r)
      PROVE  WakeInv'
  <2>1. /\ UNCHANGED <<tasks, queued, owner, cur>> /\ pc[r] = "read"
        /\ due' = due \ {owner[cur[r]]} /\ pc' = [pc EXCEPT ![r] = "step"]
    BY <1>6 DEF StepBegin, taskVars, Goto
  <2>2. \A d \in due' : Remembered(d)'
    BY <2>1 DEF WakeInv, Remembered, Queued, Shape
  <2> QED BY <2>1, <2>2 DEF WakeInv, StepsLiveTask, Shape
<1>7. ASSUME NEW r \in Runners, Elsewhere(r), ~StepBegin(r)
      PROVE  WakeInv'
  <2>1. UNCHANGED <<tasks, queued, owner, cur>> /\ due' \subseteq due
    BY <1>7, ElsewhereFrame
  <2>2. pc[r] # "read" /\ \E p \in {"main", "complete", "poll", "asleep", "awake",
                                     "drain", "scan", "resolve", "give"} :
                            pc' = [pc EXCEPT ![r] = p]
    <3>1. pc' = pc => pc' = [pc EXCEPT ![r] = pc[r]]
      BY DEF Shape
    <3> QED BY <1>7, <3>1 DEF Elsewhere, RunPoll, ReactorDown, ReactorUp, StepEnd, MarkDone,
          PollDown, PollTake, PollSleep, SleepTimeout, SleepTake, PollReturns,
          AwakeTake, Drain, Scan, ResolveToken, Goto, AfterStep, Ready
  <2>3. Queued' = Queued
    BY <2>1 DEF Queued
  <2>4. \A d \in due' : Remembered(d)'
    BY <2>1, <2>2, <2>3 DEF WakeInv, Remembered, Shape
  <2> QED BY <2>1, <2>2, <2>4 DEF WakeInv, StepsLiveTask, Shape
<1>8. ASSUME NEW w \in Wakers, NEW o \in ops, WakeDirect(w, o)
      PROVE  WakeInv'
  <2>1. Schedule(o.token) /\ UNCHANGED <<tasks, owner, pc, cur>>
    BY <1>8 DEF WakeDirect, runnerVars
  <2> QED BY <2>1, ScheduleWakes
<1>9. ASSUME UNCHANGED <<tasks, queued, owner, cur, pc, due>>
      PROVE  WakeInv'
  BY <1>9 DEF WakeInv, Remembered, StepsLiveTask, Queued
<1>10. ASSUME NEW w \in Wakers, Posts(w)
       PROVE  WakeInv'
  BY <1>9, <1>10, PostsFrame
<1>11. CASE UNCHANGED vars
  BY <1>9, <1>11 DEF vars
<1>12. ASSUME NEW r \in Runners, RunnerNext(r)
       PROVE  WakeInv'
  BY <1>1, <1>2, <1>3, <1>4, <1>5, <1>6, <1>7, <1>12 DEF RunnerNext, Elsewhere
<1>13. ASSUME NEW w \in Wakers, Completes(w) \/ \E c \in Coros : CloseFd(w, c)
       PROVE  WakeInv'
  BY <1>8, <1>10, <1>13 DEF Completes, Posts
<1> QED BY <1>11, <1>12, <1>13 DEF Next

LEMMA WakeInvariant ==
  ASSUME SingleRunner PROVE Spec => []WakeInv
<1>1. Init => WakeInv
  BY DEF Init, WakeInv, StepsLiveTask
<1>2. (Shape /\ ReadyList) /\ WakeInv /\ [Next]_vars => WakeInv'
  BY WakeStep
<1> QED BY <1>1, <1>2, ListInvariant, PTL DEF Spec

\* With one thread in meth_async_wait: the task that it is about to step, or
\* steps, has not been freed (async_runtime.c:412-452, 294-346).
THEOREM StepsOnlyLiveTasks ==
  ASSUME SingleRunner PROVE Spec => []StepsLiveTask
<1>1. WakeInv => StepsLiveTask
  BY DEF WakeInv
<1> QED BY <1>1, WakeInvariant, PTL

-----------------------------------------------------------------------------
(* One runner on posix: a byte in the pipe for every wake in the queue *)

\* The wakers that have queued a wake and still owe its byte
Owing == {w \in Wakers : wpc[w] = "post" /\ giving[w].epoch = epoch}

\* The runner has taken a wake out of the queue and not read its byte yet.
Reading == IF \E r \in Runners : pc[r] = "drain" THEN 1 ELSE 0

PipeShape ==
  /\ up \in BOOLEAN /\ epoch \in Nat /\ pipe \in Nat
  /\ events \in Seq(Tokens \cup {Null})
  /\ ops \subseteq [via : Vias, token : Tokens]
  /\ wpc \in [Wakers -> {"idle", "post"}]
  /\ giving \in [Wakers -> [token : Tokens \cup {Null}, epoch : Nat]]

\* Two facts make the count inductive: an awake runner has a byte to read, and
\* nobody polls without a reactor, whose queue is empty.
PipeInv ==
  /\ PipeShape
  /\ \A r \in Runners : pc[r] \in {"asleep", "awake", "drain"} => up
  /\ backend = "posix" =>
       /\ ~up => events = <<>>
       /\ \A r \in Runners : pc[r] = "awake" => pipe > 0
       /\ Len(events) + Reading <= pipe + Cardinality(Owing)

LEMMA OwingFinite ==
  IsFiniteSet(Owing) /\ Cardinality(Owing) \in Nat
BY CoroAssumption, FS_Subset, FS_CardinalityType DEF Owing

\* A step that touches neither the reactor nor the wakers.
LEMMA PipeSame ==
  ASSUME PipeInv,
         UNCHANGED <<backend, up, epoch, events, pipe, ops, wpc, giving>>,
         \A r \in Runners : pc'[r] \in {"asleep", "awake", "drain"} => pc'[r] = pc[r],
         \A r \in Runners : pc[r] = "drain" => pc'[r] = "drain"
  PROVE  PipeInv'
<1>1. Owing' = Owing /\ Reading' = Reading
  BY DEF Owing, Reading
<1>2. PipeShape'
  BY DEF PipeInv, PipeShape
<1> QED BY <1>1, <1>2 DEF PipeInv

\* The steps of the runner in the poll, on its own queue and pipe.
LEMMA PollPipe ==
  ASSUME SingleRunner, Shape, PipeInv, NEW r \in Runners,
         \/ PollTake(r) \/ PollSleep(r) \/ SleepTake(r)
         \/ PollReturns(r) \/ AwakeTake(r) \/ Drain(r)
  PROVE  PipeInv'
<1>1. /\ UNCHANGED <<backend, up, epoch, ops, wpc, giving>>
      /\ Owing' = Owing
  BY DEF PollTake, PollSleep, SleepTake, PollReturns, AwakeTake, Drain, coroVars,
         reactorVars, Owing
<1>2. /\ Cardinality(Owing) \in Nat /\ Len(events) \in Nat /\ pipe \in Nat
      /\ events \in Seq(Tokens \cup {Null})
  BY OwingFinite DEF PipeInv, PipeShape
<1>3. \A s \in Runners : s = r
  BY DEF SingleRunner
<1>4. /\ Reading = IF pc[r] = "drain" THEN 1 ELSE 0
      /\ Reading' = IF pc'[r] = "drain" THEN 1 ELSE 0
  BY <1>3 DEF Reading
<1>5. PipeShape' /\ events' \in Seq(Tokens \cup {Null}) /\ pipe' \in Nat
  <2>1. events' \in Seq(Tokens \cup {Null})
    <3>1. \/ events' = events
          \/ events # <<>> /\ events' = Tail(events)
      BY DEF PollTake, PollSleep, SleepTake, PollReturns, AwakeTake, Drain,
         TakeEvent, reactorVars
    <3> QED BY <1>2, <3>1
  <2>2. pipe' \in Nat
    BY <1>2 DEF PollTake, PollSleep, SleepTake, PollReturns, AwakeTake, Drain,
       Drained, reactorVars
  <2> QED BY <1>1, <2>1, <2>2 DEF PipeInv, PipeShape
<1>6. CASE PollTake(r)
  <2>1. /\ up /\ pc[r] = "poll" /\ events # <<>> /\ events' = Tail(events) /\ pipe' = pipe
        /\ pc' = [pc EXCEPT ![r] = IF backend = "posix" THEN "drain" ELSE "resolve"]
    BY <1>6 DEF PollTake, TakeEvent, Goto
  <2>2. Len(events') = Len(events) - 1
    BY <1>2, <2>1
  <2>3. pc'[r] = IF backend = "posix" THEN "drain" ELSE "resolve"
    BY <2>1 DEF Shape
  <2> QED BY <1>1, <1>2, <1>3, <1>4, <1>5, <2>1, <2>2, <2>3 DEF PipeInv
<1>7. CASE PollSleep(r)
  <2>1. /\ up /\ pc[r] = "poll" /\ events' = events /\ pipe' = pipe
        /\ pc' = [pc EXCEPT ![r] = "asleep"]
    BY <1>7 DEF PollSleep, reactorVars, Goto
  <2>2. pc'[r] = "asleep"
    BY <2>1 DEF Shape
  <2> QED BY <1>1, <1>2, <1>3, <1>4, <1>5, <2>1, <2>2 DEF PipeInv
<1>8. CASE SleepTake(r)
  <2>1. /\ backend = "iocp" /\ pc' = [pc EXCEPT ![r] = "resolve"]
    BY <1>8 DEF SleepTake, Goto
  <2>2. pc'[r] = "resolve"
    BY <2>1 DEF Shape
  <2> QED BY <1>1, <1>3, <1>5, <2>1, <2>2 DEF PipeInv
<1>9. CASE PollReturns(r)
  <2>1. /\ pc[r] = "asleep" /\ events' = events /\ pipe' = pipe
        /\ pc' = [pc EXCEPT ![r] = IF pipe > 0 THEN "awake" ELSE "scan"]
    BY <1>9 DEF PollReturns, reactorVars, Goto
  <2>2. pc'[r] = IF pipe > 0 THEN "awake" ELSE "scan"
    BY <2>1 DEF Shape
  <2> QED BY <1>1, <1>2, <1>3, <1>4, <1>5, <2>1, <2>2 DEF PipeInv
<1>10. CASE AwakeTake(r)
  <2>1. /\ pc[r] = "awake" /\ pipe' = pipe /\ pc' = [pc EXCEPT ![r] = "drain"]
        /\ \/ events # <<>> /\ events' = Tail(events)
           \/ events = <<>> /\ events' = <<>>
    BY <1>10 DEF AwakeTake, TakeEvent, Goto
  <2>2. /\ pc'[r] = "drain"
        /\ \/ Len(events') = Len(events) - 1
           \/ Len(events') = 0
    BY <1>2, <2>1 DEF Shape
  <2> QED BY <1>1, <1>2, <1>3, <1>4, <1>5, <2>1, <2>2 DEF PipeInv
<1>11. CASE Drain(r)
  <2>1. /\ pc[r] = "drain" /\ events' = events
        /\ pipe' = IF pipe > 0 THEN pipe - 1 ELSE 0
        /\ pc' = [pc EXCEPT ![r] = IF event[r] = Null THEN "scan" ELSE "resolve"]
    BY <1>11 DEF Drain, Drained, Goto
  <2>2. pc'[r] = IF event[r] = Null THEN "scan" ELSE "resolve"
    BY <2>1 DEF Shape
  <2> QED BY <1>1, <1>2, <1>3, <1>4, <1>5, <2>1, <2>2 DEF PipeInv
<1> QED BY <1>6, <1>7, <1>8, <1>9, <1>10, <1>11

\* The reactor goes and comes back while its runner is in its own code.
LEMMA ReactorPipe ==
  ASSUME SingleRunner, Shape, PipeInv, NEW r \in Runners,
         ReactorDown(r) \/ ReactorUp(r)
  PROVE  PipeInv'
<1>1. /\ UNCHANGED <<backend, ops, wpc, giving, pc>> /\ pc[r] = "main"
  BY DEF ReactorDown, ReactorUp, Ready, coroVars
<1>2. \A s \in Runners : pc[s] = "main"
  BY <1>1 DEF SingleRunner
<1>3. Reading' = 0 /\ Cardinality(Owing') \in Nat
  <2>1. Reading' = 0
    BY <1>1, <1>2 DEF Reading
  <2>2. Owing' \subseteq Wakers
    BY DEF Owing
  <2> QED BY <2>1, <2>2, CoroAssumption, FS_Subset, FS_CardinalityType
<1>4. CASE ReactorDown(r)
  <2>1. up' = FALSE /\ events' = <<>> /\ pipe' = 0 /\ epoch' = epoch
    BY <1>4 DEF ReactorDown
  <2>2. PipeShape' /\ Len(events') = 0
    <3>1. events' \in Seq(Tokens \cup {Null}) /\ Len(events') = 0
      BY <2>1
    <3>2. up' \in BOOLEAN /\ pipe' \in Nat /\ epoch' \in Nat
      BY <2>1 DEF PipeInv, PipeShape
    <3> QED BY <1>1, <3>1, <3>2 DEF PipeInv, PipeShape
  <2> QED BY <1>1, <1>2, <1>3, <2>1, <2>2 DEF PipeInv
<1>5. CASE ReactorUp(r) /\ up
  <2>1. UNCHANGED <<up, epoch, events, pipe>>
    BY <1>5 DEF ReactorUp
  <2> QED BY <1>1, <1>2, <2>1, PipeSame
<1>6. CASE ReactorUp(r) /\ ~up
  <2>1. up' = TRUE /\ epoch' = epoch + 1 /\ UNCHANGED <<events, pipe>>
    BY <1>6 DEF ReactorUp
  <2>2. PipeShape' /\ pipe \in Nat
    BY <1>1, <2>1 DEF PipeInv, PipeShape
  <2>3. backend = "posix" => Len(events) = 0
    BY <1>6 DEF PipeInv
  <2>4. backend = "posix" => Len(events') + Reading' <= pipe' + Cardinality(Owing')
    BY <1>3, <2>1, <2>2, <2>3
  <2> QED BY <1>1, <1>2, <2>1, <2>2, <2>4 DEF PipeInv
<1> QED BY <1>4, <1>5, <1>6

\* The wakers: a wake is queued before its byte is written.
LEMMA WakerPipe ==
  ASSUME SingleRunner, Shape, PipeInv, NEW w \in Wakers, Posts(w)
  PROVE  PipeInv'
<1>1. UNCHANGED <<backend, up, epoch, pc>> /\ Reading' = Reading
  BY DEF Posts, PostWake, IoCompletes, PostSignal, CloseFd, runnerVars, Reading
<1>2. /\ Cardinality(Owing) \in Nat /\ Len(events) \in Nat /\ pipe \in Nat
      /\ events \in Seq(Tokens \cup {Null}) /\ Reading \in {0, 1} /\ IsFiniteSet(Owing)
  BY OwingFinite DEF PipeInv, PipeShape, Reading
<1>3. ASSUME NEW o \in ops, PostWake(w, o), up
      PROVE  PipeInv'
  <2>1. /\ wpc[w] = "idle" /\ wpc' = [wpc EXCEPT ![w] = "post"] /\ pipe' = pipe
        /\ giving' = [giving EXCEPT ![w] = [token |-> o.token, epoch |-> epoch]]
        /\ events' = IF backend = "posix" THEN Append(events, o.token) ELSE events
        /\ ops' \subseteq ops
    BY <1>3 DEF PostWake, Finish
  <2>2. Owing' = Owing \cup {w} /\ w \notin Owing
    BY <1>1, <2>1 DEF Owing, PipeInv, PipeShape
  <2>3. Cardinality(Owing') = Cardinality(Owing) + 1
    BY <1>2, <2>2, FS_AddElement
  <2>4. o.token \in Tokens /\ (backend = "posix" => Len(events') = Len(events) + 1)
    BY <1>2, <2>1 DEF PipeInv, PipeShape
  <2>5. PipeShape'
    BY <1>1, <1>2, <2>1, <2>4 DEF PipeInv, PipeShape
  <2> QED BY <1>1, <1>2, <1>3, <2>1, <2>3, <2>4, <2>5 DEF PipeInv
<1>4. ASSUME NEW o \in ops, PostWake(w, o), ~up
      PROVE  PipeInv'
  <2>1. UNCHANGED <<wpc, giving, events, pipe>> /\ ops' \subseteq ops
    BY <1>4 DEF PostWake, Finish
  <2>2. Owing' = Owing
    BY <1>1, <2>1 DEF Owing
  <2> QED BY <1>1, <1>2, <2>1, <2>2 DEF PipeInv, PipeShape
<1>5. ASSUME NEW o \in ops, IoCompletes(w, o)
      PROVE  PipeInv'
  <2>1. /\ UNCHANGED <<wpc, giving, pipe>> /\ ops' \subseteq ops
        /\ \/ events' = events
           \/ backend = "iocp" /\ events' = Append(events, o.token)
    BY <1>5 DEF IoCompletes, Finish
  <2>2. Owing' = Owing /\ o.token \in Tokens /\ "iocp" # "posix"
    BY <1>1, <2>1 DEF Owing, PipeInv, PipeShape
  <2>3. PipeShape'
    <3>1. events' \in Seq(Tokens \cup {Null})
      BY <1>2, <2>1, <2>2
    <3> QED BY <1>1, <2>1, <3>1 DEF PipeInv, PipeShape
  <2> QED BY <1>1, <1>2, <2>1, <2>2, <2>3 DEF PipeInv
<1>6. CASE PostSignal(w)
  <2>1. /\ wpc[w] = "post" /\ wpc' = [wpc EXCEPT ![w] = "idle"] /\ ops' = ops
        /\ giving' = [giving EXCEPT ![w] = [token |-> Null, epoch |-> 0]]
    BY <1>6 DEF PostSignal, coroVars
  <2>2. Owing' = Owing \ {w} /\ (w \in Owing <=> giving[w].epoch = epoch)
    BY <1>1, <2>1 DEF Owing, PipeInv, PipeShape
  <2>3. Cardinality(Owing') = IF giving[w].epoch = epoch THEN Cardinality(Owing) - 1
                              ELSE Cardinality(Owing)
    BY <1>2, <2>2, FS_RemoveElement
  <2>4. \/ /\ up /\ pipe' = IF backend = "posix" THEN pipe + 1 ELSE pipe
           /\ events' = IF backend = "iocp" THEN Append(events, giving[w].token)
                        ELSE events
        \/ /\ ~up \/ giving[w].epoch # epoch
           /\ pipe' = pipe /\ events' = events
    BY <1>6 DEF PostSignal
  <2>5. giving[w].token \in Tokens \cup {Null}
    BY DEF PipeInv, PipeShape
  <2>6. events' \in Seq(Tokens \cup {Null}) /\ pipe' \in Nat
    BY <1>2, <2>4, <2>5
  <2>7. PipeShape'
    BY <1>1, <2>1, <2>6 DEF PipeInv, PipeShape
  <2>8. backend = "posix" => events' = events /\ pipe <= pipe'
    BY <1>2, <2>4
  <2>9. backend = "posix" => Len(events) + Reading <= pipe' + Cardinality(Owing')
    <3>1. CASE up
      BY <1>2, <2>3, <2>4, <3>1 DEF PipeInv
    <3>2. CASE ~up
      <4>1. Reading = 0
        BY <3>2 DEF PipeInv, Reading
      <4>2. backend = "posix" => Len(events) = 0
        BY <3>2 DEF PipeInv
      <4> QED BY <1>2, <2>2, <2>3, <2>6, <4>1, <4>2, FS_RemoveElement, FS_CardinalityType
    <3> QED BY <3>1, <3>2
  <2> QED BY <1>1, <1>2, <2>6, <2>7, <2>8, <2>9 DEF PipeInv
<1>7. ASSUME NEW c \in Coros, CloseFd(w, c) PROVE PipeInv'
  BY <1>1, <1>7, PipeSame DEF CloseFd, coroVars
<1> QED BY <1>3, <1>4, <1>5, <1>6, <1>7 DEF Posts

LEMMA PipeStep ==
  ASSUME SingleRunner, Shape, PipeInv, [Next]_vars
  PROVE  PipeInv'
<1>1. ASSUME NEW r \in Runners,
             UNCHANGED <<backend, reactorVars, ops, wpc, giving>>,
             NEW p \in {"main", "read", "poll", "step", "complete", "scan",
                        "resolve", "give", "again"},
             pc[r] # "drain", pc' = [pc EXCEPT ![r] = p]
      PROVE  PipeInv'
  <2>1. UNCHANGED <<up, epoch, events, pipe>>
    BY <1>1 DEF reactorVars
  <2>2. \A s \in Runners : pc'[s] = IF s = r THEN p ELSE pc[s]
    BY <1>1 DEF Shape
  <2> QED BY <1>1, <2>1, <2>2, PipeSame
<1>2. ASSUME UNCHANGED <<backend, reactorVars, pc, ops, wpc, giving>>
      PROVE  PipeInv'
  BY <1>2, PipeSame DEF reactorVars
<1>3. ASSUME NEW r \in Runners, NEW c \in Coros,
             Create(r, c) \/ WaitDone(r, c) \/ RunReady(r, c) \/ RunPoll(r, c)
      PROVE  PipeInv'
  <2>1. CASE Create(r, c) \/ WaitDone(r, c)
    BY <1>2, <2>1 DEF Create, WaitDone
  <2>2. CASE RunReady(r, c) \/ RunPoll(r, c)
    BY <1>1, <2>2 DEF RunReady, RunPoll, coroVars, Goto, Ready
  <2> QED BY <1>3, <2>1, <2>2
<1>4. ASSUME NEW r \in Runners, StepBegin(r)
      PROVE  PipeInv'
  <2>1. /\ pc[r] = "read" /\ pc' = [pc EXCEPT ![r] = "step"]
        /\ UNCHANGED <<backend, up, epoch, events, pipe, wpc, giving>>
    BY <1>4 DEF StepBegin, Goto
  <2>2. cur[r] \in Tokens /\ owner[cur[r]] \in Tokens
    BY <2>1 DEF Shape, Stepping, Tokens
  <2>3. ops' \subseteq [via : Vias, token : Tokens]
    BY <1>4, <2>2 DEF StepBegin, PipeInv, PipeShape
  <2>4. Owing' = Owing /\ Reading' = Reading
    BY <2>1 DEF Owing, Reading, Shape
  <2>5. PipeShape'
    BY <2>1, <2>3 DEF PipeInv, PipeShape
  <2> QED BY <2>1, <2>4, <2>5 DEF PipeInv, Shape
<1>5. ASSUME NEW r \in Runners, StepEnd(r) \/ MarkDone(r) \/ PollDown(r) \/ SleepTimeout(r)
      PROVE  PipeInv'
  BY <1>1, <1>5 DEF StepEnd, MarkDone, PollDown, SleepTimeout, coroVars, Goto, AfterStep
<1>6. ASSUME NEW r \in Runners, Scan(r) \/ ResolveToken(r) \/ GiveEvent(r) \/ PopAgain(r)
      PROVE  PipeInv'
  BY <1>1, <1>6 DEF Scan, ResolveToken, GiveEvent, PopAgain, coroVars, Goto
<1>7. ASSUME NEW w \in Wakers, NEW o \in ops, WakeDirect(w, o)
      PROVE  PipeInv'
  <2>1. /\ UNCHANGED <<backend, up, epoch, events, pipe, pc, wpc, giving>>
        /\ ops' \subseteq ops
    BY <1>7 DEF WakeDirect, Finish, reactorVars, runnerVars
  <2>2. Owing' = Owing /\ Reading' = Reading
    BY <2>1 DEF Owing, Reading
  <2> QED BY <2>1, <2>2 DEF PipeInv, PipeShape
<1>8. CASE UNCHANGED vars
  BY <1>2, <1>8 DEF vars, reactorVars
<1>9. ASSUME NEW r \in Runners, RunnerNext(r)
      PROVE  PipeInv'
  BY <1>3, <1>4, <1>5, <1>6, <1>9, PollPipe, ReactorPipe DEF RunnerNext
<1>10. ASSUME NEW w \in Wakers, Completes(w) \/ \E c \in Coros : CloseFd(w, c)
       PROVE  PipeInv'
  BY <1>7, <1>10, WakerPipe DEF Completes, Posts
<1> QED BY <1>8, <1>9, <1>10 DEF Next

LEMMA PipeInit == Init => PipeInv
<1> SUFFICES ASSUME Init PROVE PipeInv
  OBVIOUS
<1>1. PipeShape
  BY DEF Init, PipeShape
<1>2. Reading = 0 /\ events = <<>> /\ pipe = 0 /\ up
  BY DEF Init, Reading
<1>3. \A r \in Runners : pc[r] = "main"
  BY DEF Init
<1> QED BY <1>1, <1>2, <1>3, OwingFinite DEF PipeInv

LEMMA PipeInvariant ==
  ASSUME SingleRunner PROVE Spec => []PipeInv
<1>1. (Shape /\ ReadyList) /\ PipeInv /\ [Next]_vars => PipeInv'
  BY PipeStep
<1> QED BY <1>1, PipeInit, ListInvariant, PTL DEF Spec

\* With one thread in meth_async_wait, on both ports: a coroutine woken since
\* its last step began is in the ready list or about to be stepped, and on posix
\* each wake in the queue has its byte in the pipe or a waker that writes it
\* (async_runtime.c:348-447, 642-837).
THEOREM NoWakeIsLost ==
  ASSUME SingleRunner PROVE Spec => []NoWakeLost
<1>1. ASSUME Shape, ReadyList, WakeInv, PipeInv PROVE NoWakeLost
  <2>1. ASSUME NEW c \in due
        PROVE  \/ \E a \in tasks : Linked(a) /\ owner[a] = c
               \/ \E r \in Runners : pc[r] = "read" /\ owner[cur[r]] = c
    <3>1. Remembered(c)
      BY <1>1 DEF WakeInv
    <3>2. \A a \in Queued : Linked(a) /\ a \in tasks
      BY <1>1, ListFacts DEF Linked
    <3> QED BY <3>1, <3>2 DEF Remembered
  <2>2. backend = "posix" => Len(events) <= pipe + Cardinality(Owing)
    <3>1. Reading \in {0, 1} /\ Len(events) \in Nat /\ pipe \in Nat
          /\ Cardinality(Owing) \in Nat
      BY <1>1, OwingFinite DEF Reading, PipeInv, PipeShape
    <3> QED BY <1>1, <3>1 DEF PipeInv
  <2> QED BY <2>1, <2>2 DEF NoWakeLost, Owing
<1>2. (Shape /\ ReadyList) /\ WakeInv /\ PipeInv => NoWakeLost
  BY <1>1
<1> QED BY <1>2, ListInvariant, WakeInvariant, PipeInvariant, PTL
=============================================================================
