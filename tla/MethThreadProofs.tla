--------------------------- MODULE MethThreadProofs ---------------------------
(***************************************************************************)
(* Theorems about the tracked heap, for any threads, blocks and sizes, and *)
(* about the threads, mutexes and atomics of the program that it serves,   *)
(* for any finite set of threads.                                          *)
(*                                                                         *)
(* That no block is lost and none is on the list twice is not inductive: a *)
(* critical section writes what it has read some steps ago.  HeapInv says  *)
(* what each place of a call knows: who is inside, that what it has read is *)
(* still so, whose block is whose, and how far a shutdown has come.        *)
(*                                                                         *)
(* JoinIsSafe needs to know where a thread's struct, its function and its  *)
(* result are at each place of meth_thread_entry (LifeOK); NoLostUpdate    *)
(* needs to know who holds the mutex and that its holder's register is     *)
(* still the cell (CountOK).                                               *)
(***************************************************************************)
EXTENDS MethThread, SequenceTheorems, FiniteSetTheorems, TLAPS

-----------------------------------------------------------------------------
(* The inductive invariant *)

\* A call has an operation, and a block if it is gc_alloc; what it read under
\* the lock is still so when it writes.
CallOK ==
  \A t \in Threads :
    /\ hpc[t] = "idle" => op[t] = None
    /\ op[t] = "alloc" <=> block[t] # None
    /\ hpc[t] \in {"link", "refused", "fatal"} => op[t] = "alloc"
    /\ hpc[t] = "free" => op[t] = "shutdown"
    /\ hpc[t] = "link" => /\ seen[t].list = allocations
                          /\ seen[t].count = allocation_count

Unlinked == {"lock", "locked", "link", "refused"}

\* A block belongs to one call until it is linked, and is on the list after
\* that; calloc has returned every block that is on the list or freed.
BlocksOK ==
  /\ \A t \in Threads : block[t] # None => sizeOf[block[t]] > 0
  /\ \A t, u \in Threads : block[t] # None /\ block[t] = block[u] => t = u
  /\ \A t \in Threads : block[t] # None /\ hpc[t] \in Unlinked =>
        block[t] \notin ToSet(allocations) /\ block[t] \notin freed
  /\ \A t \in Threads : block[t] # None /\ hpc[t] = "unlock" =>
        block[t] \in ToSet(allocations)
  /\ \A b \in Blocks : b \in ToSet(allocations) \/ b \in freed => sizeOf[b] > 0

\* The list has no block twice; a shutdown has freed exactly the part of it
\* that it has walked.
ListOK ==
  /\ IsInjective(allocations)
  /\ allocation_count = Len(allocations)
  /\ (\A t \in Threads : hpc[t] # "free") => ToSet(allocations) \cap freed = {}
  /\ \A t \in Threads : hpc[t] = "free" =>
        /\ IsInjective(seen[t].list)
        /\ ToSet(seen[t].list) \subseteq ToSet(allocations)
        /\ \A b \in ToSet(allocations) : b \in freed <=> b \notin ToSet(seen[t].list)

HeapInv == HeapTypeOK /\ LockOK /\ CallOK /\ BlocksOK /\ ListOK /\ NoBlockLost

-----------------------------------------------------------------------------
(* Lists *)

LEMMA EmptyFacts == ToSet(<<>>) = {} /\ IsInjective(<<>>) /\ Len(<<>>) = 0
BY DEF ToSet, IsInjective

\* A new block in front
LEMMA ConsFacts ==
  ASSUME NEW S, NEW s \in Seq(S), NEW e \in S
  PROVE  /\ <<e>> \o s \in Seq(S)
         /\ Len(<<e>> \o s) = Len(s) + 1
         /\ ToSet(<<e>> \o s) = {e} \cup ToSet(s)
         /\ IsInjective(s) /\ e \notin ToSet(s) => IsInjective(<<e>> \o s)
<1> DEFINE r == <<e>> \o s
<1>1. <<e>> \in Seq(S) /\ Len(<<e>>) = 1 /\ <<e>>[1] = e
  OBVIOUS
<1>2. Len(s) \in Nat /\ DOMAIN s = 1..Len(s)
  BY LenProperties
<1>3. /\ r \in Seq(S) /\ Len(r) = Len(s) + 1
      /\ \A i \in 1..(Len(s) + 1) : r[i] = IF i <= 1 THEN e ELSE s[i - 1]
  <2>1. /\ r \in Seq(S) /\ Len(r) = Len(<<e>>) + Len(s)
        /\ \A i \in 1..(Len(<<e>>) + Len(s)) :
              r[i] = IF i <= Len(<<e>>) THEN <<e>>[i] ELSE s[i - Len(<<e>>)]
    BY <1>1, ConcatProperties
  <2> HIDE DEF r
  <2>2. ASSUME NEW i \in 1..(Len(s) + 1)
        PROVE  r[i] = IF i <= 1 THEN e ELSE s[i - 1]
    <3>1. i = 1 => <<e>>[i] = e
      BY <1>1
    <3> QED
      BY <1>1, <1>2, <2>1, <3>1
  <2> QED
    BY <1>1, <1>2, <2>1, <2>2
<1> HIDE DEF r
<1>4. DOMAIN r = 1..(Len(s) + 1)
  BY <1>3, LenProperties
<1>5. ToSet(r) = {e} \cup ToSet(s)
  <2>1. ToSet(r) \subseteq {e} \cup ToSet(s)
    <3> SUFFICES ASSUME NEW i \in 1..(Len(s) + 1)
                 PROVE  r[i] = e \/ \E j \in 1..Len(s) : r[i] = s[j]
      BY <1>2, <1>4 DEF ToSet
    <3>1. CASE i = 1
      BY <1>3, <3>1
    <3>2. CASE i # 1
      <4>1. i - 1 \in 1..Len(s) /\ r[i] = s[i - 1]
        BY <1>2, <1>3, <3>2
      <4> QED
        BY <4>1
    <3> QED
      BY <3>1, <3>2
  <2>2. e \in ToSet(r)
    <3>1. 1 \in DOMAIN r /\ r[1] = e
      BY <1>2, <1>3, <1>4
    <3> QED
      BY <3>1 DEF ToSet
  <2>3. ToSet(s) \subseteq ToSet(r)
    <3> SUFFICES ASSUME NEW j \in 1..Len(s)
                 PROVE  \E i \in 1..(Len(s) + 1) : s[j] = r[i]
      BY <1>2, <1>4 DEF ToSet
    <3>1. j + 1 \in 1..(Len(s) + 1) /\ r[j + 1] = s[j]
      BY <1>2, <1>3
    <3> QED
      BY <3>1
  <2> QED
    BY <2>1, <2>2, <2>3
<1>6. ASSUME IsInjective(s), e \notin ToSet(s)
      PROVE  IsInjective(r)
  <2>1. \A j \in 1..Len(s) : s[j] # e
    BY <1>2, <1>6 DEF ToSet
  <2>2. \A i, j \in 1..Len(s) : s[i] = s[j] => i = j
    BY <1>2, <1>6 DEF IsInjective
  <2>3. ASSUME NEW i \in 1..(Len(s) + 1), NEW j \in 1..(Len(s) + 1), r[i] = r[j]
        PROVE  i = j
    <3>1. CASE i = 1 \/ j = 1
      BY <1>2, <1>3, <2>1, <2>3, <3>1
    <3>2. CASE i # 1 /\ j # 1
      <4>1. i - 1 \in 1..Len(s) /\ j - 1 \in 1..Len(s) /\ s[i - 1] = s[j - 1]
        BY <1>2, <1>3, <2>3, <3>2
      <4> QED
        BY <2>2, <4>1
    <3> QED
      BY <3>1, <3>2
  <2> QED
    BY <1>4, <2>3 DEF IsInjective
<1> QED
  BY <1>3, <1>5, <1>6 DEF r

\* The first block goes.
LEMMA TailFacts ==
  ASSUME NEW S, NEW s \in Seq(S), s # <<>>, IsInjective(s)
  PROVE  /\ Head(s) \in S /\ Head(s) \in ToSet(s)
         /\ Tail(s) \in Seq(S)
         /\ IsInjective(Tail(s))
         /\ ToSet(Tail(s)) = ToSet(s) \ {Head(s)}
<1> DEFINE r == Tail(s)
<1>1. Len(s) \in Nat \ {0} /\ DOMAIN s = 1..Len(s)
  BY LenProperties, EmptySeq
<1>2. Head(s) = s[1] /\ Head(s) \in S
  BY HeadTailProperties
<1>3. r \in Seq(S) /\ Len(r) = Len(s) - 1 /\ \A i \in 1..(Len(s) - 1) : r[i] = s[i + 1]
  BY HeadTailProperties
<1> HIDE DEF r
<1>4. DOMAIN r = 1..(Len(s) - 1)
  BY <1>3, LenProperties
<1>5. \A i, j \in 1..Len(s) : s[i] = s[j] => i = j
  BY <1>1 DEF IsInjective
<1>6. Head(s) \in ToSet(s)
  <2>1. 1 \in DOMAIN s
    BY <1>1
  <2> QED
    BY <1>2, <2>1 DEF ToSet
<1>7. ASSUME NEW i \in 1..(Len(s) - 1), NEW j \in 1..(Len(s) - 1), r[i] = r[j]
      PROVE  i = j
  <2>1. i + 1 \in 1..Len(s) /\ j + 1 \in 1..Len(s) /\ s[i + 1] = s[j + 1]
    BY <1>1, <1>3, <1>7
  <2>2. i + 1 = j + 1
    BY <1>5, <2>1
  <2> QED
    BY <1>1, <2>2
<1>8. ToSet(r) = ToSet(s) \ {Head(s)}
  <2>1. ASSUME NEW i \in 1..(Len(s) - 1)
        PROVE  r[i] # s[1] /\ \E j \in 1..Len(s) : r[i] = s[j]
    <3>1. i + 1 \in 1..Len(s) /\ 1 \in 1..Len(s) /\ i + 1 # 1 /\ r[i] = s[i + 1]
      BY <1>1, <1>3
    <3> QED
      BY <1>5, <3>1
  <2>2. ASSUME NEW j \in 1..Len(s), s[j] # s[1]
        PROVE  \E i \in 1..(Len(s) - 1) : s[j] = r[i]
    <3>1. j - 1 \in 1..(Len(s) - 1) /\ r[j - 1] = s[j]
      <4>1. j # 1
        BY <2>2
      <4>2. j - 1 \in 1..(Len(s) - 1) /\ (j - 1) + 1 = j
        BY <1>1, <4>1
      <4> QED
        BY <1>3, <4>2
    <3> QED
      BY <3>1
  <2>3. ToSet(r) \subseteq ToSet(s) \ {s[1]}
    BY <1>1, <1>4, <2>1 DEF ToSet
  <2>4. ToSet(s) \ {s[1]} \subseteq ToSet(r)
    BY <1>1, <1>4, <2>2 DEF ToSet
  <2> QED
    BY <1>2, <2>3, <2>4
<1> QED
  BY <1>2, <1>3, <1>4, <1>6, <1>7, <1>8 DEF r, IsInjective

-----------------------------------------------------------------------------
(* The actions *)

LEMMA NoneApart ==
  /\ None \notin Threads /\ None \notin Blocks
  /\ None \notin {"alloc", "threshold", "get", "shutdown"}
BY HeapAssumption

LEMMA CallKeeps ==
  ASSUME HeapInv, NEW t \in Threads, NEW o \in HeapCalls, Call(t, o)
  PROVE  HeapInv'
<1> USE NoneApart DEF Call, Idle, Step, HeapCalls, list_vars, call_vars
<1>0. HeapTypeOK /\ LockOK /\ CallOK /\ BlocksOK /\ ListOK /\ NoBlockLost
  BY DEF HeapInv
<1>1. HeapTypeOK'
  BY <1>0, HeapAssumption DEF HeapTypeOK, HeapLabels, HeapCalls
<1>2. LockOK'
  BY <1>0 DEF HeapTypeOK, LockOK, Inside
<1>3. CallOK'
  BY <1>0 DEF HeapTypeOK, LockOK, CallOK, Inside
<1>4. BlocksOK'
  BY <1>0 DEF HeapTypeOK, LockOK, CallOK, BlocksOK, Unlinked, Inside
<1>5. ListOK'
  BY <1>0 DEF HeapTypeOK, LockOK, CallOK, BlocksOK, ListOK, Unlinked, Inside
<1>6. NoBlockLost'
  BY <1>0 DEF HeapTypeOK, LockOK, CallOK, BlocksOK, ListOK, NoBlockLost, Inside
<1> QED
  BY <1>1, <1>2, <1>3, <1>4, <1>5, <1>6 DEF HeapInv

LEMMA LockKeeps ==
  ASSUME HeapInv, NEW t \in Threads, Lock(t)
  PROVE  HeapInv'
<1> USE NoneApart DEF Lock, Step, gc_lock, list_vars, call_vars
<1>0. HeapTypeOK /\ LockOK /\ CallOK /\ BlocksOK /\ ListOK /\ NoBlockLost
  BY DEF HeapInv
<1>1. HeapTypeOK'
  BY <1>0, HeapAssumption DEF HeapTypeOK, HeapLabels, HeapCalls
<1>2. LockOK'
  BY <1>0 DEF HeapTypeOK, LockOK, Inside
<1>3. CallOK'
  BY <1>0 DEF HeapTypeOK, LockOK, CallOK, Inside
<1>4. BlocksOK'
  BY <1>0 DEF HeapTypeOK, LockOK, CallOK, BlocksOK, Unlinked, Inside
<1>5. ListOK'
  BY <1>0 DEF HeapTypeOK, LockOK, CallOK, BlocksOK, ListOK, Unlinked, Inside
<1>6. NoBlockLost'
  BY <1>0 DEF HeapTypeOK, LockOK, CallOK, BlocksOK, ListOK, NoBlockLost, Inside
<1> QED
  BY <1>1, <1>2, <1>3, <1>4, <1>5, <1>6 DEF HeapInv

LEMMA UnlockKeeps ==
  ASSUME HeapInv, NEW t \in Threads, Unlock(t)
  PROVE  HeapInv'
<1> USE NoneApart DEF Unlock, Step, gc_unlock, Nothing, list_vars, call_vars
<1>0. HeapTypeOK /\ LockOK /\ CallOK /\ BlocksOK /\ ListOK /\ NoBlockLost
  BY DEF HeapInv
<1>1. HeapTypeOK'
  BY <1>0, HeapAssumption DEF HeapTypeOK, HeapLabels, HeapCalls
<1>2. LockOK'
  BY <1>0 DEF HeapTypeOK, LockOK, Inside
<1>3. CallOK'
  BY <1>0 DEF HeapTypeOK, LockOK, CallOK, Inside
<1>4. BlocksOK'
  BY <1>0 DEF HeapTypeOK, LockOK, CallOK, BlocksOK, Unlinked, Inside
<1>5. ListOK'
  BY <1>0 DEF HeapTypeOK, LockOK, CallOK, BlocksOK, ListOK, Unlinked, Inside
<1>6. NoBlockLost'
  BY <1>0 DEF HeapTypeOK, LockOK, CallOK, BlocksOK, ListOK, NoBlockLost, Inside
<1> QED
  BY <1>1, <1>2, <1>3, <1>4, <1>5, <1>6 DEF HeapInv

LEMMA FatalKeeps ==
  ASSUME HeapInv, Fatal
  PROVE  HeapInv'
BY DEF HeapInv, HeapTypeOK, LockOK, CallOK, BlocksOK, ListOK, NoBlockLost, Fatal, list_vars, call_vars

LEMMA AllocKeeps ==
  ASSUME HeapInv, NEW t \in Threads, NEW s \in Sizes, Alloc(t, s)
  PROVE  HeapInv'
<1> USE NoneApart DEF Idle, Step, list_vars, call_vars
<1>a. CASE Fatal
  BY <1>a, FatalKeeps
<1>b. CASE ~Fatal
  <2>0. HeapTypeOK /\ LockOK /\ CallOK /\ BlocksOK /\ ListOK /\ NoBlockLost
    BY DEF HeapInv
  <2>a. PICK b \in Blocks :
          /\ sizeOf[b] = 0
          /\ sizeOf' = [sizeOf EXCEPT ![b] = s]
          /\ block' = [block EXCEPT ![t] = b]
    BY <1>b DEF Alloc
  <2>b. /\ hpc[t] = "idle" /\ hpc' = [hpc EXCEPT ![t] = "lock"]
        /\ op' = [op EXCEPT ![t] = "alloc"]
        /\ UNCHANGED <<gcLock, allocations, allocation_count, allocated_bytes, threshold, freed, seen, exited>>
    BY <1>b DEF Alloc
  <2>c. s \in Nat /\ s > 0
    BY HeapAssumption
  <2>1. HeapTypeOK'
    BY <2>0, <2>a, <2>b, <2>c DEF HeapTypeOK, HeapLabels, HeapCalls
  <2>2. LockOK'
    BY <2>0, <2>b DEF HeapTypeOK, LockOK, Inside
  <2>3. CallOK'
    BY <2>0, <2>a, <2>b DEF HeapTypeOK, LockOK, CallOK, Inside
  <2>4. BlocksOK'
    <3>1. b \notin ToSet(allocations) /\ b \notin freed /\ \A u \in Threads : block[u] # b
      BY <2>0, <2>a DEF BlocksOK
    <3>2. \A u \in Threads : block'[u] = IF u = t THEN b ELSE block[u]
      BY <2>0, <2>a DEF HeapTypeOK
    <3>3. \A u \in Threads : hpc'[u] = IF u = t THEN "lock" ELSE hpc[u]
      BY <2>0, <2>b DEF HeapTypeOK
    <3>4. \A c \in Blocks : sizeOf'[c] = IF c = b THEN s ELSE sizeOf[c]
      BY <2>0, <2>a DEF HeapTypeOK
    <3>5. \A u \in Threads : block[u] # None => block[u] \in Blocks
      BY <2>0 DEF HeapTypeOK
    <3> QED
      BY <2>0, <2>b, <2>c, <3>1, <3>2, <3>3, <3>4, <3>5 DEF BlocksOK, Unlinked
  <2>5. ListOK'
    <3>1. \A u \in Threads : hpc'[u] = IF u = t THEN "lock" ELSE hpc[u]
      BY <2>0, <2>b DEF HeapTypeOK
    <3>2. (\A u \in Threads : hpc'[u] # "free") => \A u \in Threads : hpc[u] # "free"
      BY <2>b, <3>1
    <3> QED
      BY <2>0, <2>b, <3>1, <3>2 DEF ListOK
  <2>6. NoBlockLost'
    BY <2>0, <2>a, <2>b DEF HeapTypeOK, CallOK, NoBlockLost
  <2> QED
    BY <2>1, <2>2, <2>3, <2>4, <2>5, <2>6 DEF HeapInv
<1> QED
  BY <1>a, <1>b

LEMMA AllocReadKeeps ==
  ASSUME HeapInv, NEW t \in Threads, AllocRead(t)
  PROVE  HeapInv'
<1> USE NoneApart DEF AllocRead, Step, list_vars, call_vars
<1>0. HeapTypeOK /\ LockOK /\ CallOK /\ BlocksOK /\ ListOK /\ NoBlockLost
  BY DEF HeapInv
<1>1. HeapTypeOK'
  BY <1>0, HeapAssumption DEF HeapTypeOK, HeapLabels, HeapCalls
<1>2. LockOK'
  BY <1>0 DEF HeapTypeOK, LockOK, Inside
<1>3. CallOK'
  BY <1>0 DEF HeapTypeOK, LockOK, CallOK, Inside
<1>4. BlocksOK'
  BY <1>0 DEF HeapTypeOK, LockOK, CallOK, BlocksOK, Unlinked, Inside
<1>5. ListOK'
  BY <1>0 DEF HeapTypeOK, LockOK, CallOK, BlocksOK, ListOK, Unlinked, Inside
<1>6. NoBlockLost'
  BY <1>0 DEF HeapTypeOK, LockOK, CallOK, BlocksOK, ListOK, NoBlockLost, Inside
<1> QED
  BY <1>1, <1>2, <1>3, <1>4, <1>5, <1>6 DEF HeapInv

LEMMA AllocLinkKeeps ==
  ASSUME HeapInv, NEW t \in Threads, AllocLink(t)
  PROVE  HeapInv'
<1> USE NoneApart DEF AllocLink, Step, list_vars, call_vars
<1>0. HeapTypeOK /\ LockOK /\ CallOK /\ BlocksOK /\ ListOK /\ NoBlockLost
  BY DEF HeapInv
<1>a. /\ hpc[t] = "link" /\ block[t] \in Blocks
      /\ block[t] \notin ToSet(allocations) /\ block[t] \notin freed
      /\ sizeOf[block[t]] \in Nat /\ sizeOf[block[t]] > 0
      /\ seen[t].list = allocations /\ seen[t].count = allocation_count
      /\ seen[t].bytes \in Nat
  BY <1>0 DEF HeapTypeOK, CallOK, BlocksOK, Unlinked
<1>b. /\ allocations' \in Seq(Blocks) /\ Len(allocations') = Len(allocations) + 1
      /\ ToSet(allocations') = {block[t]} \cup ToSet(allocations)
      /\ IsInjective(allocations')
  BY <1>0, <1>a, ConsFacts DEF HeapTypeOK, ListOK
<1>c. \A u \in Threads : hpc'[u] = IF u = t THEN "unlock" ELSE hpc[u]
  BY <1>0 DEF HeapTypeOK
<1>d. \A u \in Threads : u # t => hpc[u] \notin Inside
  BY <1>0, <1>a DEF LockOK, Inside
<1>1. HeapTypeOK'
  BY <1>0, <1>a, <1>b DEF HeapTypeOK, HeapLabels, HeapCalls
<1>2. LockOK'
  BY <1>0 DEF HeapTypeOK, LockOK, Inside
<1>3. CallOK'
  BY <1>0, <1>a, <1>c, <1>d DEF CallOK, Inside
<1>4. BlocksOK'
  <2>1. block' = block /\ sizeOf' = sizeOf /\ freed' = freed
    OBVIOUS
  <2>2. \A u \in Threads : hpc'[u] \in Unlinked => hpc[u] \in Unlinked /\ u # t
    BY <1>c DEF Unlinked
  <2>3. \A u \in Threads : block[u] # None /\ hpc'[u] \in Unlinked =>
          block[u] \notin ToSet(allocations') /\ block[u] \notin freed
    BY <1>0, <1>b, <2>2 DEF BlocksOK
  <2>4. \A u \in Threads : block[u] # None /\ hpc'[u] = "unlock" =>
          block[u] \in ToSet(allocations')
    BY <1>0, <1>b, <1>c DEF BlocksOK
  <2>5. \A b \in Blocks : b \in ToSet(allocations') \/ b \in freed => sizeOf[b] > 0
    BY <1>0, <1>a, <1>b DEF BlocksOK
  <2> QED BY <1>0, <2>1, <2>3, <2>4, <2>5 DEF BlocksOK
<1>5. ListOK'
  <2>1. \A u \in Threads : hpc[u] # "free" /\ hpc'[u] # "free"
    BY <1>a, <1>c, <1>d DEF Inside
  <2>2. ToSet(allocations) \cap freed = {}
    BY <1>0, <2>1 DEF ListOK
  <2> QED
    BY <1>0, <1>a, <1>b, <2>1, <2>2 DEF ListOK
<1>6. NoBlockLost'
  BY <1>0, <1>b DEF NoBlockLost
<1> QED
  BY <1>1, <1>2, <1>3, <1>4, <1>5, <1>6 DEF HeapInv

LEMMA AllocRefuseKeeps ==
  ASSUME HeapInv, NEW t \in Threads, AllocRefuse(t)
  PROVE  HeapInv'
<1> USE NoneApart DEF AllocRefuse, Step, gc_unlock, list_vars, call_vars
<1>0. HeapTypeOK /\ LockOK /\ CallOK /\ BlocksOK /\ ListOK /\ NoBlockLost
  BY DEF HeapInv
<1>1. HeapTypeOK'
  BY <1>0, HeapAssumption DEF HeapTypeOK, HeapLabels, HeapCalls
<1>2. LockOK'
  BY <1>0 DEF HeapTypeOK, LockOK, Inside
<1>3. CallOK'
  BY <1>0 DEF HeapTypeOK, LockOK, CallOK, Inside
<1>4. BlocksOK'
  BY <1>0 DEF HeapTypeOK, LockOK, CallOK, BlocksOK, Unlinked, Inside
<1>5. ListOK'
  BY <1>0 DEF HeapTypeOK, LockOK, CallOK, BlocksOK, ListOK, Unlinked, Inside
<1>6. NoBlockLost'
  BY <1>0 DEF HeapTypeOK, LockOK, CallOK, BlocksOK, ListOK, NoBlockLost, Inside
<1> QED
  BY <1>1, <1>2, <1>3, <1>4, <1>5, <1>6 DEF HeapInv

LEMMA RefuseFreeKeeps ==
  ASSUME HeapInv, NEW t \in Threads, RefuseFree(t)
  PROVE  HeapInv'
<1> USE NoneApart DEF RefuseFree, Step, list_vars, call_vars
<1>0. HeapTypeOK /\ LockOK /\ CallOK /\ BlocksOK /\ ListOK /\ NoBlockLost
  BY DEF HeapInv
<1>1. HeapTypeOK'
  <2>1. block[t] \in Blocks
    BY <1>0 DEF HeapTypeOK, CallOK
  <2> QED
    BY <1>0, <2>1 DEF HeapTypeOK, HeapLabels, HeapCalls
<1>2. LockOK'
  BY <1>0 DEF HeapTypeOK, LockOK, Inside
<1>3. CallOK'
  BY <1>0 DEF HeapTypeOK, LockOK, CallOK, Inside
<1>4. BlocksOK'
  BY <1>0 DEF HeapTypeOK, LockOK, CallOK, BlocksOK, Unlinked, Inside
<1>5. ListOK'
  BY <1>0 DEF HeapTypeOK, LockOK, CallOK, BlocksOK, ListOK, Unlinked, Inside
<1>6. NoBlockLost'
  BY <1>0 DEF HeapTypeOK, LockOK, CallOK, BlocksOK, ListOK, NoBlockLost, Inside
<1> QED
  BY <1>1, <1>2, <1>3, <1>4, <1>5, <1>6 DEF HeapInv

LEMMA SetThresholdKeeps ==
  ASSUME HeapInv, NEW t \in Threads, SetThreshold(t)
  PROVE  HeapInv'
<1> USE NoneApart DEF SetThreshold, Step, list_vars, call_vars
<1>0. HeapTypeOK /\ LockOK /\ CallOK /\ BlocksOK /\ ListOK /\ NoBlockLost
  BY DEF HeapInv
<1>1. HeapTypeOK'
  BY <1>0, HeapAssumption DEF HeapTypeOK, HeapLabels, HeapCalls
<1>2. LockOK'
  BY <1>0 DEF HeapTypeOK, LockOK, Inside
<1>3. CallOK'
  BY <1>0 DEF HeapTypeOK, LockOK, CallOK, Inside
<1>4. BlocksOK'
  BY <1>0 DEF HeapTypeOK, LockOK, CallOK, BlocksOK, Unlinked, Inside
<1>5. ListOK'
  BY <1>0 DEF HeapTypeOK, LockOK, CallOK, BlocksOK, ListOK, Unlinked, Inside
<1>6. NoBlockLost'
  BY <1>0 DEF HeapTypeOK, LockOK, CallOK, BlocksOK, ListOK, NoBlockLost, Inside
<1> QED
  BY <1>1, <1>2, <1>3, <1>4, <1>5, <1>6 DEF HeapInv

LEMMA GetKeeps ==
  ASSUME HeapInv, NEW t \in Threads, Get(t)
  PROVE  HeapInv'
<1> USE NoneApart DEF Get, Step, list_vars, call_vars
<1>0. HeapTypeOK /\ LockOK /\ CallOK /\ BlocksOK /\ ListOK /\ NoBlockLost
  BY DEF HeapInv
<1>1. HeapTypeOK'
  BY <1>0, HeapAssumption DEF HeapTypeOK, HeapLabels, HeapCalls
<1>2. LockOK'
  BY <1>0 DEF HeapTypeOK, LockOK, Inside
<1>3. CallOK'
  BY <1>0 DEF HeapTypeOK, LockOK, CallOK, Inside
<1>4. BlocksOK'
  BY <1>0 DEF HeapTypeOK, LockOK, CallOK, BlocksOK, Unlinked, Inside
<1>5. ListOK'
  BY <1>0 DEF HeapTypeOK, LockOK, CallOK, BlocksOK, ListOK, Unlinked, Inside
<1>6. NoBlockLost'
  BY <1>0 DEF HeapTypeOK, LockOK, CallOK, BlocksOK, ListOK, NoBlockLost, Inside
<1> QED
  BY <1>1, <1>2, <1>3, <1>4, <1>5, <1>6 DEF HeapInv

LEMMA ShutdownWalkKeeps ==
  ASSUME HeapInv, NEW t \in Threads, ShutdownWalk(t)
  PROVE  HeapInv'
<1> USE NoneApart DEF ShutdownWalk, Step, list_vars, call_vars
<1>0. HeapTypeOK /\ LockOK /\ CallOK /\ BlocksOK /\ ListOK /\ NoBlockLost
  BY DEF HeapInv
<1>1. HeapTypeOK'
  BY <1>0, HeapAssumption DEF HeapTypeOK, HeapLabels, HeapCalls
<1>2. LockOK'
  BY <1>0 DEF HeapTypeOK, LockOK, Inside
<1>3. CallOK'
  BY <1>0 DEF HeapTypeOK, LockOK, CallOK, Inside
<1>4. BlocksOK'
  BY <1>0 DEF HeapTypeOK, LockOK, CallOK, BlocksOK, Unlinked, Inside
<1>5. ListOK'
  BY <1>0 DEF HeapTypeOK, LockOK, CallOK, BlocksOK, ListOK, Unlinked, Inside
<1>6. NoBlockLost'
  BY <1>0 DEF HeapTypeOK, LockOK, CallOK, BlocksOK, ListOK, NoBlockLost, Inside
<1> QED
  BY <1>1, <1>2, <1>3, <1>4, <1>5, <1>6 DEF HeapInv

LEMMA ShutdownFreeKeeps ==
  ASSUME HeapInv, NEW t \in Threads, ShutdownFree(t)
  PROVE  HeapInv'
<1> USE NoneApart DEF ShutdownFree, Step, list_vars, call_vars
<1>0. HeapTypeOK /\ LockOK /\ CallOK /\ BlocksOK /\ ListOK /\ NoBlockLost
  BY DEF HeapInv
<1> DEFINE first == Head(seen[t].list)
           rest == Tail(seen[t].list)
<1>a. /\ seen[t].list \in Seq(Blocks) /\ IsInjective(seen[t].list)
      /\ ToSet(seen[t].list) \subseteq ToSet(allocations)
      /\ \A b \in ToSet(allocations) : b \in freed <=> b \notin ToSet(seen[t].list)
  BY <1>0 DEF HeapTypeOK, ListOK
<1>b. /\ first \in Blocks /\ first \in ToSet(seen[t].list)
      /\ rest \in Seq(Blocks) /\ IsInjective(rest)
      /\ ToSet(rest) = ToSet(seen[t].list) \ {first}
  BY <1>a, TailFacts
<1>c. \A u \in Threads : hpc'[u] = hpc[u]
  BY <1>0 DEF HeapTypeOK
<1>d. /\ \A u \in Threads : u # t => hpc[u] \notin Inside
      /\ hpc[t] = "free" /\ op[t] = "shutdown" /\ block[t] = None
  BY <1>0 DEF LockOK, CallOK, Inside
<1>e. seen'[t].list = rest /\ freed' = freed \cup {first}
  BY <1>0 DEF HeapTypeOK
<1> HIDE DEF first, rest
<1>1. HeapTypeOK'
  <2>1. seen' \in [Threads -> [list : Seq(Blocks), count : Nat, bytes : Nat]]
    BY <1>0, <1>b DEF HeapTypeOK, rest
  <2> QED
    BY <1>0, <1>b, <1>e, <2>1 DEF HeapTypeOK
<1>2. LockOK'
  BY <1>0 DEF HeapTypeOK, LockOK, Inside
<1>3. CallOK'
  BY <1>0 DEF HeapTypeOK, LockOK, CallOK, Inside
<1>4. BlocksOK'
  <2>1. \A u \in Threads : block[u] # None /\ hpc[u] \in Unlinked => block[u] # first
    BY <1>0, <1>a, <1>b DEF BlocksOK
  <2>2. sizeOf[first] > 0
    BY <1>0, <1>a, <1>b DEF BlocksOK
  <2> QED
    BY <1>0, <1>c, <1>e, <2>1, <2>2 DEF BlocksOK, Unlinked
<1>5. ListOK'
  BY <1>0, <1>a, <1>b, <1>c, <1>d, <1>e DEF ListOK, Inside
<1>6. NoBlockLost'
  BY <1>0 DEF HeapTypeOK, LockOK, CallOK, BlocksOK, ListOK, NoBlockLost, Inside
<1> QED
  BY <1>1, <1>2, <1>3, <1>4, <1>5, <1>6 DEF HeapInv

LEMMA ShutdownResetKeeps ==
  ASSUME HeapInv, NEW t \in Threads, ShutdownReset(t)
  PROVE  HeapInv'
<1> USE NoneApart DEF ShutdownReset, Step, list_vars, call_vars
<1>0. HeapTypeOK /\ LockOK /\ CallOK /\ BlocksOK /\ ListOK /\ NoBlockLost
  BY DEF HeapInv
<1>a. \A u \in Threads : hpc'[u] = IF u = t THEN "unlock" ELSE hpc[u]
  BY <1>0 DEF HeapTypeOK
<1>b. /\ \A u \in Threads : u # t => hpc[u] \notin Inside
      /\ hpc[t] = "free" /\ op[t] = "shutdown" /\ block[t] = None
  BY <1>0 DEF LockOK, CallOK, Inside
<1>1. HeapTypeOK'
  BY <1>0, HeapAssumption DEF HeapTypeOK, HeapLabels, HeapCalls
<1>2. LockOK'
  BY <1>0 DEF HeapTypeOK, LockOK, Inside
<1>3. CallOK'
  BY <1>0 DEF HeapTypeOK, LockOK, CallOK, Inside
<1>4. BlocksOK'
  BY <1>0, <1>a, <1>b, EmptyFacts DEF BlocksOK, Unlinked, Inside
<1>5. ListOK'
  BY <1>0 DEF HeapTypeOK, LockOK, CallOK, BlocksOK, ListOK, Unlinked, Inside
<1>6. NoBlockLost'
  BY <1>0 DEF HeapTypeOK, LockOK, CallOK, BlocksOK, ListOK, NoBlockLost, Inside
<1> QED
  BY <1>1, <1>2, <1>3, <1>4, <1>5, <1>6 DEF HeapInv

-----------------------------------------------------------------------------
(* The theorems *)

LEMMA HeapInitOK == HeapInit => HeapInv
<1> SUFFICES ASSUME HeapInit PROVE HeapInv
  OBVIOUS
<1> USE NoneApart DEF HeapInit
<1>1. HeapTypeOK
  <2>1. <<>> \in Seq(Blocks)
    BY EmptySeq
  <2>2. seen \in [Threads -> [list : Seq(Blocks), count : Nat, bytes : Nat]]
    BY <2>1 DEF Nothing
  <2>3. allocations \in Seq(Blocks)
    BY <2>1
  <2> QED
    BY <2>2, <2>3, HeapAssumption DEF HeapTypeOK, HeapLabels, HeapCalls
<1>2. LockOK /\ CallOK
  BY DEF LockOK, CallOK, Inside
<1>3. BlocksOK /\ ListOK /\ NoBlockLost
  BY EmptyFacts DEF BlocksOK, ListOK, NoBlockLost
<1> QED
  BY <1>1, <1>2, <1>3 DEF HeapInv

LEMMA HeapStepOK == HeapInv /\ [HeapNext]_heap_vars => HeapInv'
<1> SUFFICES ASSUME HeapInv, [HeapNext]_heap_vars PROVE HeapInv'
  OBVIOUS
<1>1. CASE UNCHANGED heap_vars
  BY <1>1 DEF HeapInv, HeapTypeOK, LockOK, CallOK, BlocksOK, ListOK, NoBlockLost,
     heap_vars, list_vars, call_vars
<1>2. CASE HeapNext
  <2>1. PICK t \in Threads :
          (\E s \in Sizes : Alloc(t, s)) \/ (\E o \in HeapCalls : Call(t, o)) \/ HeapStep(t)
    BY <1>2 DEF HeapNext
  <2>2. CASE \E s \in Sizes : Alloc(t, s)
    BY <2>2, AllocKeeps
  <2>3. CASE \E o \in HeapCalls : Call(t, o)
    BY <2>3, CallKeeps
  <2>4. CASE Lock(t) \/ Unlock(t)
    BY <2>4, LockKeeps, UnlockKeeps
  <2>5. CASE AllocRead(t) \/ AllocLink(t) \/ AllocRefuse(t) \/ RefuseFree(t)
    BY <2>5, AllocReadKeeps, AllocLinkKeeps, AllocRefuseKeeps, RefuseFreeKeeps
  <2>6. CASE RefuseEnd(t)
    BY <2>6, FatalKeeps DEF RefuseEnd
  <2>7. CASE SetThreshold(t) \/ Get(t)
    BY <2>7, SetThresholdKeeps, GetKeeps
  <2>8. CASE ShutdownWalk(t) \/ ShutdownFree(t) \/ ShutdownReset(t)
    BY <2>8, ShutdownWalkKeeps, ShutdownFreeKeeps, ShutdownResetKeeps
  <2> QED
    BY <2>1, <2>2, <2>3, <2>4, <2>5, <2>6, <2>7, <2>8 DEF HeapStep
<1> QED
  BY <1>1, <1>2

\* With the lock free, no shutdown is walking the list.
LEMMA ListExactOK == HeapInv => ListExact
<1> SUFFICES ASSUME HeapInv, gcLock = None PROVE ListExact
  BY DEF ListExact
<1>1. \A t \in Threads : hpc[t] # "free"
  BY NoneApart DEF HeapInv, LockOK, Inside
<1> QED
  BY <1>1 DEF HeapInv, ListOK, ListExact

LEMMA HeapInvariant == HeapSpec => []HeapInv
BY HeapInitOK, HeapStepOK, PTL DEF HeapSpec

\* The spin lock of gc.c excludes: one thread at most is between gc_lock and
\* gc_unlock, whatever the calls and in whatever order.
THEOREM HeapLockExcludes == HeapSpec => []LockOK
<1>1. HeapInv => LockOK
  BY DEF HeapInv
<1> QED
  BY <1>1, HeapInvariant, PTL

\* When nobody is in a critical section the count is that of the list and no
\* block is linked twice or still linked after free; no block that calloc has
\* returned is lost, so that a shutdown, which may race allocations, frees each
\* block once (gc_alloc, gc_shutdown).
THEOREM HeapBlocksExact == HeapSpec => []BlocksExact
<1>1. HeapInv => BlocksExact
  BY ListExactOK DEF HeapInv, BlocksExact
<1> QED
  BY <1>1, HeapInvariant, PTL

-----------------------------------------------------------------------------
(* The byte total *)

\* Between the overflow check and the store of the new total nothing that the
\* check has read changes, though the store is a step of its own.
LinkFits ==
  \A t \in Threads : hpc[t] = "link" =>
    /\ seen[t].bytes = allocated_bytes
    /\ ~AddOverflows(allocated_bytes, sizeOf[block[t]])

BytesInv == SumsTo(allocations, allocated_bytes) /\ LinkFits

LEMMA SumsToEmpty == SumsTo(<<>>, 0)
<1> DEFINE rest == [i \in 1..1 |-> 0]
<1>1. 0 \in 0..SizeMax
  BY HeapAssumption
<1>2. rest \in [1..1 -> 0..SizeMax] /\ rest[1] = 0
  BY <1>1
<1> HIDE DEF rest
<1>3. Len(<<>>) = 0 /\ Len(<<>>) + 1 = 1
  OBVIOUS
<1> QED BY <1>2, <1>3 DEF SumsTo

\* A block in front adds its size, which must fit.
LEMMA SumsToCons ==
  ASSUME NEW s \in Seq(Blocks), NEW n \in Nat, NEW b \in Blocks, SumsTo(s, n),
         sizeOf \in [Blocks -> Nat], n + sizeOf[b] <= SizeMax
  PROVE  SumsTo(<<b>> \o s, n + sizeOf[b])
<1> DEFINE k == Len(s)
           r == <<b>> \o s
<1>1. k \in Nat /\ SizeMax \in Nat /\ sizeOf[b] \in Nat
  BY HeapAssumption
<1>2. /\ Len(r) = k + 1 /\ r[1] = b
      /\ \A i \in 1..k : r[i + 1] = s[i] /\ s[i] \in Blocks
  OBVIOUS
<1> HIDE DEF k, r
<1>3. PICK rest \in [1..(k + 1) -> 0..SizeMax] :
        /\ rest[1] = n /\ rest[k + 1] = 0
        /\ \A i \in 1..k : rest[i] = rest[i + 1] + sizeOf[s[i]]
  BY DEF SumsTo, k
<1> DEFINE more == [i \in 1..(k + 2) |-> IF i = 1 THEN n + sizeOf[b] ELSE rest[i - 1]]
<1>4. more \in [1..(k + 2) -> 0..SizeMax]
  BY <1>1, <1>3
<1>5. more[1] = n + sizeOf[b] /\ more[k + 2] = 0
  BY <1>1, <1>3
<1>6. ASSUME NEW i \in 1..(k + 1)
      PROVE  more[i] = more[i + 1] + sizeOf[r[i]]
  <2>1. more[i + 1] = rest[i]
    BY <1>1
  <2>2. CASE i = 1
    BY <1>1, <1>2, <1>3, <2>1, <2>2
  <2>3. CASE i # 1
    <3>1. i - 1 \in 1..k /\ more[i] = rest[i - 1] /\ r[i] = s[i - 1]
      <4>1. i - 1 \in 1..k /\ (i - 1) + 1 = i
        BY <1>1, <2>3
      <4> QED BY <1>1, <1>2, <2>3, <4>1
    <3> QED BY <1>3, <2>1, <3>1
  <2> QED BY <2>2, <2>3
<1> HIDE DEF more
<1>7. Len(r) + 1 = k + 2
  BY <1>1, <1>2
<1>8. SumsTo(r, n + sizeOf[b])
  BY <1>2, <1>4, <1>5, <1>6, <1>7 DEF SumsTo
<1> QED BY <1>8 DEF r

\* The sum depends on the sizes of the blocks on the list only.
LEMMA SumsToSame ==
  ASSUME SumsTo(allocations, allocated_bytes), allocations \in Seq(Blocks),
         UNCHANGED <<allocations, allocated_bytes>>,
         \A b \in ToSet(allocations) : sizeOf'[b] = sizeOf[b]
  PROVE  SumsTo(allocations, allocated_bytes)'
<1>1. \A i \in 1..Len(allocations) : sizeOf'[allocations[i]] = sizeOf[allocations[i]]
  BY DEF ToSet
<1> QED BY <1>1 DEF SumsTo

LEMMA BytesStep ==
  ASSUME HeapInv, BytesInv, [HeapNext]_heap_vars
  PROVE  BytesInv'
<1>1. /\ HeapTypeOK /\ LockOK /\ CallOK /\ BlocksOK
      /\ SumsTo(allocations, allocated_bytes) /\ LinkFits
      /\ allocations \in Seq(Blocks) /\ allocated_bytes \in Nat
      /\ SizeMax \in Nat
  BY HeapAssumption DEF HeapInv, BytesInv, HeapTypeOK
\* Who is in a critical section is alone there.
<1>2. ASSUME NEW t \in Threads, hpc[t] \in Inside, NEW u \in Threads, u # t
      PROVE  hpc[u] # "link"
  BY <1>1, <1>2 DEF LockOK, Inside
<1>3. ASSUME UNCHANGED <<allocations, allocated_bytes, sizeOf, seen, block>>,
             \A t \in Threads : hpc'[t] = "link" => hpc[t] = "link"
      PROVE  BytesInv'
  BY <1>1, <1>3, SumsToSame DEF BytesInv, LinkFits, AddOverflows
<1>4. ASSUME NEW t \in Threads, NEW s \in Sizes, Alloc(t, s)
      PROVE  BytesInv'
  <2>1. CASE Fatal
    BY <1>3, <2>1 DEF Fatal, list_vars, call_vars
  <2>2. CASE ~Fatal
    <3>1. PICK b \in Blocks :
            /\ sizeOf[b] = 0
            /\ sizeOf' = [sizeOf EXCEPT ![b] = s]
            /\ block' = [block EXCEPT ![t] = b]
      BY <1>4, <2>2 DEF Alloc
    <3>2. /\ hpc' = [hpc EXCEPT ![t] = "lock"]
          /\ UNCHANGED <<allocations, allocated_bytes, seen>>
      BY <1>4, <2>2 DEF Alloc, Step, list_vars
    <3>3. \A c \in ToSet(allocations) : sizeOf'[c] = sizeOf[c]
      <4>1. \A c \in ToSet(allocations) : c \in Blocks
        BY <1>1 DEF ToSet
      <4>2. \A c \in ToSet(allocations) : c # b
        BY <1>1, <3>1, <4>1 DEF BlocksOK
      <4> QED BY <1>1, <3>1, <4>1, <4>2 DEF HeapTypeOK
    <3>4. SumsTo(allocations, allocated_bytes)'
      BY <1>1, <3>2, <3>3, SumsToSame
    <3>5. ASSUME NEW u \in Threads, hpc'[u] = "link"
          PROVE  /\ seen'[u].bytes = allocated_bytes'
                 /\ ~(allocated_bytes' > SizeMax - sizeOf'[block'[u]])
      <4>1. u # t /\ hpc[u] = "link" /\ block'[u] = block[u] /\ block[u] \in Blocks
        BY <1>1, <3>1, <3>2, <3>5 DEF HeapTypeOK, CallOK
      <4>2. block[u] # b
        BY <1>1, <3>1, <4>1, NoneApart DEF BlocksOK
      <4> QED BY <1>1, <3>1, <3>2, <4>1, <4>2 DEF LinkFits, AddOverflows, HeapTypeOK
    <3> QED BY <3>4, <3>5 DEF BytesInv, LinkFits, AddOverflows
  <2> QED BY <2>1, <2>2
<1>5. ASSUME NEW t \in Threads, AllocRead(t)
      PROVE  BytesInv'
  <2>1. /\ hpc[t] = "locked" /\ hpc' = [hpc EXCEPT ![t] = "link"]
        /\ ~AddOverflows(allocated_bytes, sizeOf[block[t]])
        /\ seen'[t].bytes = allocated_bytes
        /\ \A u \in Threads : u # t => seen'[u] = seen[u]
        /\ UNCHANGED <<allocations, allocated_bytes, sizeOf, block>>
    BY <1>1, <1>5 DEF AllocRead, Step, list_vars, HeapTypeOK
  <2>2. SumsTo(allocations, allocated_bytes)'
    BY <1>1, <2>1, SumsToSame
  <2>3. LinkFits'
    BY <1>1, <2>1 DEF LinkFits, AddOverflows, HeapTypeOK
  <2> QED BY <2>2, <2>3 DEF BytesInv
<1>6. ASSUME NEW t \in Threads, AllocLink(t)
      PROVE  BytesInv'
  <2>1. /\ hpc[t] = "link" /\ hpc' = [hpc EXCEPT ![t] = "unlock"]
        /\ allocations' = <<block[t]>> \o seen[t].list
        /\ allocated_bytes' = seen[t].bytes + sizeOf[block[t]]
        /\ UNCHANGED <<sizeOf, seen, block>>
    BY <1>6 DEF AllocLink, Step
  <2>2. /\ seen[t].list = allocations /\ seen[t].bytes = allocated_bytes
        /\ block[t] \in Blocks /\ sizeOf \in [Blocks -> Nat]
        /\ ~(allocated_bytes > SizeMax - sizeOf[block[t]])
    BY <1>1, <2>1 DEF CallOK, LinkFits, AddOverflows, HeapTypeOK
  <2>3. sizeOf[block[t]] \in Nat /\ allocated_bytes + sizeOf[block[t]] <= SizeMax
    BY <1>1, <2>2
  <2>4. SumsTo(<<block[t]>> \o allocations, allocated_bytes + sizeOf[block[t]])
    BY <1>1, <2>2, <2>3, SumsToCons
  <2>5. SumsTo(allocations, allocated_bytes)'
    BY <2>1, <2>2, <2>4 DEF SumsTo
  <2>6. \A u \in Threads : hpc'[u] # "link"
    BY <1>1, <1>2, <2>1 DEF HeapTypeOK, Inside
  <2> QED BY <2>5, <2>6 DEF BytesInv, LinkFits
<1>7. ASSUME NEW t \in Threads, ShutdownReset(t)
      PROVE  BytesInv'
  <2>1. /\ hpc[t] = "free" /\ hpc' = [hpc EXCEPT ![t] = "unlock"]
        /\ allocations' = <<>> /\ allocated_bytes' = 0
    BY <1>7 DEF ShutdownReset, Step
  <2>2. \A u \in Threads : hpc'[u] # "link"
    BY <1>1, <1>2, <2>1 DEF HeapTypeOK, Inside
  <2>3. SumsTo(allocations, allocated_bytes)'
    BY <2>1, SumsToEmpty DEF SumsTo
  <2> QED BY <2>2, <2>3 DEF BytesInv, LinkFits
\* The steps of the other calls work on no block that is about to be linked.
<1>8. ASSUME NEW t \in Threads, Unlock(t)
      PROVE  BytesInv'
  <2>1. /\ hpc' = [hpc EXCEPT ![t] = "idle"]
        /\ seen' = [seen EXCEPT ![t] = Nothing] /\ block' = [block EXCEPT ![t] = None]
        /\ UNCHANGED <<allocations, allocated_bytes, sizeOf>>
    BY <1>8 DEF Unlock, Step, list_vars
  <2>2. SumsTo(allocations, allocated_bytes)'
    BY <1>1, <2>1, SumsToSame
  <2>3. LinkFits'
    BY <1>1, <2>1 DEF LinkFits, AddOverflows, HeapTypeOK
  <2> QED BY <2>2, <2>3 DEF BytesInv
<1>9. ASSUME NEW t \in Threads, ShutdownWalk(t) \/ ShutdownFree(t)
      PROVE  BytesInv'
  <2>1. /\ hpc' = [hpc EXCEPT ![t] = "free"]
        /\ \A u \in Threads : u # t => seen'[u] = seen[u]
        /\ UNCHANGED <<allocations, allocated_bytes, sizeOf, block>>
    BY <1>1, <1>9 DEF ShutdownWalk, ShutdownFree, Step, list_vars, HeapTypeOK
  <2>2. SumsTo(allocations, allocated_bytes)'
    BY <1>1, <2>1, SumsToSame
  <2>3. LinkFits'
    BY <1>1, <2>1 DEF LinkFits, AddOverflows, HeapTypeOK
  <2> QED BY <2>2, <2>3 DEF BytesInv
<1>10. ASSUME NEW t \in Threads, NEW o \in HeapCalls, Call(t, o)
       PROVE  BytesInv'
  <2>1. hpc' = [hpc EXCEPT ![t] = "lock"]
    BY <1>10 DEF Call, Step
  <2> QED BY <1>1, <1>3, <1>10, <2>1 DEF Call, list_vars, HeapTypeOK
<1>11. ASSUME NEW t \in Threads,
              Lock(t) \/ AllocRefuse(t) \/ RefuseFree(t) \/ SetThreshold(t) \/ Get(t)
       PROVE  BytesInv'
  <2>1. /\ \E p \in {"locked", "refused", "fatal", "unlock"} : hpc' = [hpc EXCEPT ![t] = p]
        /\ UNCHANGED <<allocations, allocated_bytes, sizeOf, seen, block>>
    BY <1>11 DEF Lock, AllocRefuse, RefuseFree, SetThreshold, Get, Step, list_vars
  <2> QED BY <1>1, <1>3, <2>1 DEF HeapTypeOK
<1>12. ASSUME NEW t \in Threads, RefuseEnd(t)
       PROVE  BytesInv'
  BY <1>3, <1>12 DEF RefuseEnd, Fatal, list_vars, call_vars
<1>13. CASE UNCHANGED heap_vars
  BY <1>3, <1>13 DEF heap_vars, list_vars, call_vars
<1> QED BY <1>4, <1>5, <1>6, <1>7, <1>8, <1>9, <1>10, <1>11, <1>12, <1>13
        DEF HeapNext, HeapStep

LEMMA BytesInit == HeapInit => BytesInv
<1> SUFFICES ASSUME HeapInit PROVE BytesInv
  OBVIOUS
<1>1. SumsTo(allocations, allocated_bytes)
  BY SumsToEmpty DEF HeapInit
<1>2. LinkFits
  BY DEF HeapInit, LinkFits
<1> QED BY <1>1, <1>2 DEF BytesInv

\* Whatever sizes are asked for, by whichever threads, the byte total is the
\* sum of the sizes on the list and never wraps: an allocation that would take
\* it past SIZE_MAX is refused first (gc_add_overflows in gc_alloc).
THEOREM HeapBytesExact == HeapSpec => []BytesExact
<1>1. HeapInv /\ BytesInv /\ [HeapNext]_heap_vars => BytesInv'
  BY BytesStep
<1>2. BytesInv => BytesExact
  BY DEF BytesInv, BytesExact
<1> QED BY <1>1, <1>2, BytesInit, HeapInvariant, PTL DEF HeapSpec

-----------------------------------------------------------------------------
(* The inductive invariant *)

ThreadStates == {"none", "refused", "created", "runs", "stored", "done", "ended"}
Untaken == {"alloc", "lock", "load", "store", "unlock", "ticket"}
Taken == {"expect", "cas", "returned"}

ThreadTypeOK ==
  /\ thread \in [Workers -> ThreadStates]
  /\ struct \in [Workers -> {"none", "live", "freed"}]
  /\ result \in [Workers -> Nat]
  /\ joined \in [Workers -> Nat \cup {None}]
  /\ body \in [Workers -> Untaken \cup Taken]
  /\ local \in [Workers -> Nat]
  /\ ticket \in [Workers -> Nat \cup {None}]
  /\ mutex \in BOOLEAN
  /\ owner \in Workers \cup {None}
  /\ cell \in Nat /\ tickets \in Nat /\ total \in Nat

\* The struct is there as long as the thread may use it, and what join read is
\* what the function returned: its ticket.
LifeOK ==
  /\ touched = {}
  /\ \A w \in Workers :
       /\ thread[w] \in {"created", "runs", "stored", "done"} => struct[w] = "live"
       /\ thread[w] \in {"none", "refused", "created"} => body[w] = "alloc"
       /\ thread[w] \in {"stored", "done", "ended"} =>
            body[w] = "returned" /\ result[w] = ticket[w]
       /\ body[w] \in Untaken <=> ticket[w] = None
       /\ body[w] = "returned" => local[w] = ticket[w]
       /\ joined[w] # None => \/ thread[w] = "refused" /\ joined[w] = 0
                              \/ thread[w] = "ended" /\ joined[w] = result[w]

Returned == {w \in Workers : body[w] = "returned"}
Stored == {w \in Workers : body[w] \in {"unlock", "ticket"} \cup Taken}

\* The tickets are different, the counters count, the mutex excludes.
CountOK ==
  /\ \A w \in Workers : ticket[w] # None => ticket[w] < tickets
  /\ \A v, w \in Workers : ticket[v] = ticket[w] => v = w \/ ticket[v] = None
  /\ total = Cardinality(Returned)
  /\ mutex => /\ \A w \in Workers : body[w] \in {"load", "store", "unlock"} <=> owner = w
              /\ \A w \in Workers : body[w] = "store" => local[w] = cell
              /\ cell = Cardinality(Stored)

ThreadInv == ThreadTypeOK /\ LifeOK /\ CountOK

-----------------------------------------------------------------------------
(* The actions *)

LEMMA WorkerFacts == IsFiniteSet(Workers) /\ None \notin Workers /\ None \notin Nat
BY ThreadAssumption, HeapAssumption, FS_Subset DEF Workers

\* One more worker in a set of workers
LEMMA OneMore ==
  ASSUME NEW S \in SUBSET Workers, NEW w \in Workers, w \notin S
  PROVE  Cardinality(S \cup {w}) = Cardinality(S) + 1 /\ Cardinality(S) \in Nat
BY WorkerFacts, FS_Subset, FS_AddElement, FS_CardinalityType

LEMMA SpawnKeeps ==
  ASSUME ThreadInv, NEW w \in Workers, Spawn(w)
  PROVE  ThreadInv'
<1> USE WorkerFacts DEF Spawn, heap_vars, list_vars, call_vars, thread_vars, body_vars
<1>0. ThreadTypeOK /\ LifeOK /\ CountOK
  BY DEF ThreadInv
<1>1. ThreadTypeOK'
  BY <1>0 DEF ThreadTypeOK, ThreadStates, Untaken, Taken, LifeOK
<1>2. LifeOK'
  BY <1>0 DEF ThreadTypeOK, ThreadStates, Untaken, Taken, LifeOK
<1>3. CountOK'
  BY <1>0 DEF ThreadTypeOK, Untaken, Taken, LifeOK, CountOK, Returned, Stored
<1> QED
  BY <1>1, <1>2, <1>3 DEF ThreadInv

LEMMA JoinRefusedKeeps ==
  ASSUME ThreadInv, NEW w \in Workers, JoinRefused(w)
  PROVE  ThreadInv'
<1> USE WorkerFacts DEF JoinRefused, heap_vars, list_vars, call_vars, thread_vars, body_vars
<1>0. ThreadTypeOK /\ LifeOK /\ CountOK
  BY DEF ThreadInv
<1>1. ThreadTypeOK'
  BY <1>0 DEF ThreadTypeOK, ThreadStates, Untaken, Taken, LifeOK
<1>2. LifeOK'
  BY <1>0 DEF ThreadTypeOK, ThreadStates, Untaken, Taken, LifeOK
<1>3. CountOK'
  BY <1>0 DEF ThreadTypeOK, Untaken, Taken, LifeOK, CountOK, Returned, Stored
<1> QED
  BY <1>1, <1>2, <1>3 DEF ThreadInv

LEMMA JoinKeeps ==
  ASSUME ThreadInv, NEW w \in Workers, Join(w)
  PROVE  ThreadInv'
<1> USE WorkerFacts DEF Join, heap_vars, list_vars, call_vars, thread_vars, body_vars
<1>0. ThreadTypeOK /\ LifeOK /\ CountOK
  BY DEF ThreadInv
<1>1. ThreadTypeOK'
  BY <1>0 DEF ThreadTypeOK, ThreadStates, Untaken, Taken, LifeOK
<1>2. LifeOK'
  BY <1>0 DEF ThreadTypeOK, ThreadStates, Untaken, Taken, LifeOK
<1>3. CountOK'
  BY <1>0 DEF ThreadTypeOK, Untaken, Taken, LifeOK, CountOK, Returned, Stored
<1> QED
  BY <1>1, <1>2, <1>3 DEF ThreadInv

LEMMA EnterKeeps ==
  ASSUME ThreadInv, NEW w \in Workers, Enter(w)
  PROVE  ThreadInv'
<1> USE WorkerFacts DEF Enter, Uses, heap_vars, list_vars, call_vars, thread_vars, body_vars
<1>0. ThreadTypeOK /\ LifeOK /\ CountOK
  BY DEF ThreadInv
<1>1. ThreadTypeOK'
  BY <1>0 DEF ThreadTypeOK, ThreadStates, Untaken, Taken, LifeOK
<1>2. LifeOK'
  BY <1>0 DEF ThreadTypeOK, ThreadStates, Untaken, Taken, LifeOK
<1>3. CountOK'
  BY <1>0 DEF ThreadTypeOK, Untaken, Taken, LifeOK, CountOK, Returned, Stored
<1> QED
  BY <1>1, <1>2, <1>3 DEF ThreadInv

LEMMA StoreResultKeeps ==
  ASSUME ThreadInv, NEW w \in Workers, StoreResult(w)
  PROVE  ThreadInv'
<1> USE WorkerFacts DEF StoreResult, Uses, heap_vars, list_vars, call_vars, thread_vars, body_vars
<1>0. ThreadTypeOK /\ LifeOK /\ CountOK
  BY DEF ThreadInv
<1>1. ThreadTypeOK'
  BY <1>0 DEF ThreadTypeOK, ThreadStates, Untaken, Taken, LifeOK
<1>2. LifeOK'
  BY <1>0 DEF ThreadTypeOK, ThreadStates, Untaken, Taken, LifeOK
<1>3. CountOK'
  BY <1>0 DEF ThreadTypeOK, Untaken, Taken, LifeOK, CountOK, Returned, Stored
<1> QED
  BY <1>1, <1>2, <1>3 DEF ThreadInv

LEMMA SetDoneKeeps ==
  ASSUME ThreadInv, NEW w \in Workers, SetDone(w)
  PROVE  ThreadInv'
<1> USE WorkerFacts DEF SetDone, Uses, heap_vars, list_vars, call_vars, thread_vars, body_vars
<1>0. ThreadTypeOK /\ LifeOK /\ CountOK
  BY DEF ThreadInv
<1>1. ThreadTypeOK'
  BY <1>0 DEF ThreadTypeOK, ThreadStates, Untaken, Taken, LifeOK
<1>2. LifeOK'
  BY <1>0 DEF ThreadTypeOK, ThreadStates, Untaken, Taken, LifeOK
<1>3. CountOK'
  BY <1>0 DEF ThreadTypeOK, Untaken, Taken, LifeOK, CountOK, Returned, Stored
<1> QED
  BY <1>1, <1>2, <1>3 DEF ThreadInv

LEMMA ThreadEndsKeeps ==
  ASSUME ThreadInv, NEW w \in Workers, ThreadEnds(w)
  PROVE  ThreadInv'
<1> USE WorkerFacts DEF ThreadEnds, heap_vars, list_vars, call_vars, thread_vars, body_vars
<1>0. ThreadTypeOK /\ LifeOK /\ CountOK
  BY DEF ThreadInv
<1>1. ThreadTypeOK'
  BY <1>0 DEF ThreadTypeOK, ThreadStates, Untaken, Taken, LifeOK
<1>2. LifeOK'
  BY <1>0 DEF ThreadTypeOK, ThreadStates, Untaken, Taken, LifeOK
<1>3. CountOK'
  BY <1>0 DEF ThreadTypeOK, Untaken, Taken, LifeOK, CountOK, Returned, Stored
<1> QED
  BY <1>1, <1>2, <1>3 DEF ThreadInv

LEMMA WorkerAllocKeeps ==
  ASSUME ThreadInv, NEW w \in Workers, WorkerAlloc(w)
  PROVE  ThreadInv'
<1> USE WorkerFacts DEF WorkerAlloc, At, heap_vars, list_vars, call_vars, thread_vars, body_vars
<1>0. ThreadTypeOK /\ LifeOK /\ CountOK
  BY DEF ThreadInv
<1>1. ThreadTypeOK'
  BY <1>0 DEF ThreadTypeOK, ThreadStates, Untaken, Taken, LifeOK
<1>2. LifeOK'
  BY <1>0 DEF ThreadTypeOK, ThreadStates, Untaken, Taken, LifeOK
<1>3. CountOK'
  BY <1>0 DEF ThreadTypeOK, Untaken, Taken, LifeOK, CountOK, Returned, Stored
<1> QED
  BY <1>1, <1>2, <1>3 DEF ThreadInv

LEMMA WorkerLockKeeps ==
  ASSUME ThreadInv, NEW w \in Workers, WorkerLock(w)
  PROVE  ThreadInv'
<1> USE WorkerFacts DEF WorkerLock, At, __meth_mutex_lock, heap_vars, list_vars, call_vars, thread_vars, body_vars
<1>0. ThreadTypeOK /\ LifeOK /\ CountOK
  BY DEF ThreadInv
<1>1. ThreadTypeOK'
  BY <1>0 DEF ThreadTypeOK, ThreadStates, Untaken, Taken, LifeOK
<1>2. LifeOK'
  BY <1>0 DEF ThreadTypeOK, ThreadStates, Untaken, Taken, LifeOK
<1>3. CountOK'
  BY <1>0, ZenonT(60) DEF ThreadTypeOK, Untaken, Taken, LifeOK, CountOK, Returned, Stored
<1> QED
  BY <1>1, <1>2, <1>3 DEF ThreadInv

LEMMA WorkerLoadKeeps ==
  ASSUME ThreadInv, NEW w \in Workers, WorkerLoad(w)
  PROVE  ThreadInv'
<1> USE WorkerFacts DEF WorkerLoad, At, heap_vars, list_vars, call_vars, thread_vars, body_vars
<1>0. ThreadTypeOK /\ LifeOK /\ CountOK
  BY DEF ThreadInv
<1>1. ThreadTypeOK'
  BY <1>0 DEF ThreadTypeOK, ThreadStates, Untaken, Taken, LifeOK
<1>2. LifeOK'
  BY <1>0 DEF ThreadTypeOK, ThreadStates, Untaken, Taken, LifeOK
<1>3. CountOK'
  BY <1>0 DEF ThreadTypeOK, Untaken, Taken, LifeOK, CountOK, Returned, Stored
<1> QED
  BY <1>1, <1>2, <1>3 DEF ThreadInv

LEMMA WorkerStoreKeeps ==
  ASSUME ThreadInv, NEW w \in Workers, WorkerStore(w)
  PROVE  ThreadInv'
<1> USE WorkerFacts DEF WorkerStore, At, heap_vars, list_vars, call_vars, thread_vars, body_vars
<1>0. ThreadTypeOK /\ LifeOK /\ CountOK
  BY DEF ThreadInv
<1>1. ThreadTypeOK'
  BY <1>0 DEF ThreadTypeOK, ThreadStates, Untaken, Taken, LifeOK
<1>2. LifeOK'
  BY <1>0 DEF ThreadTypeOK, ThreadStates, Untaken, Taken, LifeOK
<1>a. /\ body[w] = "store" /\ w \notin Stored
      /\ \A v \in Workers : body'[v] = IF v = w THEN "unlock" ELSE body[v]
  BY <1>0 DEF ThreadTypeOK, Stored, Taken
<1>b. Stored' = Stored \cup {w} /\ Returned' = Returned
  BY <1>a DEF Stored, Taken, Returned
<1>c. Cardinality(Stored \cup {w}) = Cardinality(Stored) + 1
  BY <1>a, OneMore DEF Stored
<1>3. CountOK'
  <2>1. mutex => cell' = Cardinality(Stored')
    BY <1>0, <1>a, <1>b, <1>c DEF CountOK
  <2>2. mutex => \A v \in Workers : body'[v] = "store" => local'[v] = cell'
    BY <1>0, <1>a DEF CountOK
  <2>3. mutex => \A v \in Workers : body'[v] \in {"load", "store", "unlock"} <=> owner' = v
    BY <1>0, <1>a DEF CountOK
  <2> QED
    BY <1>0, <1>b, <2>1, <2>2, <2>3 DEF CountOK
<1> QED
  BY <1>1, <1>2, <1>3 DEF ThreadInv

LEMMA WorkerUnlockKeeps ==
  ASSUME ThreadInv, NEW w \in Workers, WorkerUnlock(w)
  PROVE  ThreadInv'
<1> USE WorkerFacts DEF WorkerUnlock, At, __meth_mutex_unlock, heap_vars, list_vars, call_vars, thread_vars, body_vars
<1>0. ThreadTypeOK /\ LifeOK /\ CountOK
  BY DEF ThreadInv
<1>1. ThreadTypeOK'
  BY <1>0 DEF ThreadTypeOK, ThreadStates, Untaken, Taken, LifeOK
<1>2. LifeOK'
  BY <1>0 DEF ThreadTypeOK, ThreadStates, Untaken, Taken, LifeOK
<1>3. CountOK'
  BY <1>0, ZenonT(60) DEF ThreadTypeOK, Untaken, Taken, LifeOK, CountOK, Returned, Stored
<1> QED
  BY <1>1, <1>2, <1>3 DEF ThreadInv

LEMMA WorkerTicketKeeps ==
  ASSUME ThreadInv, NEW w \in Workers, WorkerTicket(w)
  PROVE  ThreadInv'
<1> USE WorkerFacts DEF WorkerTicket, At, heap_vars, list_vars, call_vars, thread_vars, body_vars
<1>0. ThreadTypeOK /\ LifeOK /\ CountOK
  BY DEF ThreadInv
<1>1. ThreadTypeOK'
  BY <1>0 DEF ThreadTypeOK, ThreadStates, Untaken, Taken, LifeOK
<1>2. LifeOK'
  BY <1>0 DEF ThreadTypeOK, ThreadStates, Untaken, Taken, LifeOK
<1>a. /\ ticket[w] = None
      /\ \A v \in Workers : ticket'[v] = IF v = w THEN tickets ELSE ticket[v]
      /\ \A v \in Workers : body'[v] = IF v = w THEN "expect" ELSE body[v]
  BY <1>0 DEF ThreadTypeOK, LifeOK, Untaken
<1>b. Stored' = Stored /\ Returned' = Returned
  BY <1>a DEF Stored, Taken, Returned
<1>3. CountOK'
  <2>1. tickets \in Nat /\ tickets # None
    BY <1>0 DEF ThreadTypeOK
  <2>2. \A v \in Workers : ticket[v] # None => ticket[v] \in Nat /\ ticket[v] < tickets
    BY <1>0 DEF ThreadTypeOK, CountOK
  <2>3. \A v \in Workers : ticket'[v] # None => ticket'[v] < tickets'
    BY <1>a, <2>1, <2>2
  <2>4. \A v, u \in Workers : ticket'[v] = ticket'[u] => v = u \/ ticket'[v] = None
    BY <1>0, <1>a, <2>1, <2>2 DEF CountOK
  <2>5. mutex => \A v \in Workers : body'[v] \in {"load", "store", "unlock"} <=> owner' = v
    BY <1>0, <1>a DEF CountOK
  <2> QED
    BY <1>0, <1>a, <1>b, <2>3, <2>4, <2>5 DEF CountOK
<1> QED
  BY <1>1, <1>2, <1>3 DEF ThreadInv

LEMMA WorkerExpectKeeps ==
  ASSUME ThreadInv, NEW w \in Workers, WorkerExpect(w)
  PROVE  ThreadInv'
<1> USE WorkerFacts DEF WorkerExpect, At, heap_vars, list_vars, call_vars, thread_vars, body_vars
<1>0. ThreadTypeOK /\ LifeOK /\ CountOK
  BY DEF ThreadInv
<1>1. ThreadTypeOK'
  BY <1>0 DEF ThreadTypeOK, ThreadStates, Untaken, Taken, LifeOK
<1>2. LifeOK'
  BY <1>0 DEF ThreadTypeOK, ThreadStates, Untaken, Taken, LifeOK
<1>3. CountOK'
  BY <1>0 DEF ThreadTypeOK, Untaken, Taken, LifeOK, CountOK, Returned, Stored
<1> QED
  BY <1>1, <1>2, <1>3 DEF ThreadInv

LEMMA WorkerCasKeeps ==
  ASSUME ThreadInv, NEW w \in Workers, WorkerCas(w)
  PROVE  ThreadInv'
<1> USE WorkerFacts DEF WorkerCas, Cas, heap_vars, list_vars, call_vars, thread_vars, body_vars
<1>0. ThreadTypeOK /\ LifeOK /\ CountOK
  BY DEF ThreadInv
<1>1. ThreadTypeOK'
  BY <1>0 DEF ThreadTypeOK, ThreadStates, Untaken, Taken, LifeOK
<1>2. LifeOK'
  BY <1>0 DEF ThreadTypeOK, ThreadStates, Untaken, Taken, LifeOK
<1>3. CountOK'
  <2>1. CASE total # local[w]
    BY <1>0, <2>1 DEF ThreadTypeOK, CountOK, Returned, Stored, Taken
  <2>2. CASE total = local[w]
    <3>1. /\ body[w] = "cas" /\ total' = total + 1
          /\ \A v \in Workers : body'[v] = IF v = w THEN "returned" ELSE body[v]
          /\ \A v \in Workers : v # w => local'[v] = local[v]
      BY <1>0, <2>2 DEF ThreadTypeOK
    <3>2. Stored' = Stored /\ Returned' = Returned \cup {w} /\ w \notin Returned
      BY <3>1 DEF Stored, Taken, Returned
    <3>3. Cardinality(Returned \cup {w}) = Cardinality(Returned) + 1
      BY <3>2, OneMore DEF Returned
    <3>4. total' = Cardinality(Returned')
      BY <1>0, <3>1, <3>2, <3>3 DEF CountOK
    <3>5. mutex => /\ \A v \in Workers : body'[v] \in {"load", "store", "unlock"} <=> owner' = v
                   /\ \A v \in Workers : body'[v] = "store" => local'[v] = cell'
                   /\ cell' = Cardinality(Stored')
      BY <1>0, <3>1, <3>2 DEF CountOK
    <3> QED
      BY <1>0, <3>4, <3>5 DEF CountOK
  <2> QED
    BY <2>1, <2>2
<1> QED
  BY <1>1, <1>2, <1>3 DEF ThreadInv

-----------------------------------------------------------------------------
(* The theorems *)

LEMMA ThreadInitOK == Init => ThreadInv
<1> SUFFICES ASSUME Init PROVE ThreadInv
  OBVIOUS
<1> USE WorkerFacts DEF Init
<1>1. ThreadTypeOK /\ LifeOK
  BY DEF ThreadTypeOK, LifeOK, ThreadStates, Untaken, Taken
<1>2. Stored = {} /\ Returned = {}
  BY DEF Stored, Returned, Taken
<1>3. CountOK
  BY <1>2, FS_EmptySet DEF CountOK
<1> QED
  BY <1>1, <1>3 DEF ThreadInv

\* A heap call of any thread leaves the threads' own state alone.
LEMMA ApartKeeps ==
  ASSUME ThreadInv,
         UNCHANGED <<thread_vars, body, local, ticket, mutex, owner, cell, tickets, total>>
  PROVE  ThreadInv'
BY DEF ThreadInv, ThreadTypeOK, LifeOK, CountOK, Returned, Stored, thread_vars

LEMMA ThreadStepOK == ThreadInv /\ [Next]_vars => ThreadInv'
<1> SUFFICES ASSUME ThreadInv, [Next]_vars PROVE ThreadInv'
  OBVIOUS
<1>1. CASE UNCHANGED vars
  BY <1>1, ApartKeeps DEF vars, body_vars
<1>2. CASE \E w \in Workers : Spawn(w) \/ Join(w) \/ JoinRefused(w) \/ WorkerStep(w)
  BY <1>2, SpawnKeeps, JoinKeeps, JoinRefusedKeeps, EnterKeeps, StoreResultKeeps, SetDoneKeeps,
     ThreadEndsKeeps, WorkerAllocKeeps, WorkerLockKeeps, WorkerLoadKeeps, WorkerStoreKeeps,
     WorkerUnlockKeeps, WorkerTicketKeeps, WorkerExpectKeeps, WorkerCasKeeps DEF WorkerStep
<1>3. CASE MainCall
  BY <1>3, ApartKeeps DEF MainCall
<1>4. CASE \E t \in Threads : Heap(t)
  BY <1>4, ApartKeeps DEF Heap, body_vars
<1> QED
  BY <1>1, <1>2, <1>3, <1>4 DEF Next

LEMMA ThreadInvariant == Spec => []ThreadInv
BY ThreadInitOK, ThreadStepOK, PTL DEF Spec

\* A thread's struct outlives every use that the thread makes of it, and join
\* returns what the function returned (meth_thread_entry, __meth_thread_join).
THEOREM JoinIsSafeAlways == Spec => []JoinIsSafe
<1>1. ThreadInv => JoinIsSafe
  BY WorkerFacts DEF ThreadInv, ThreadTypeOK, LifeOK, JoinIsSafe, Untaken, Taken
<1> QED
  BY <1>1, ThreadInvariant, PTL

\* No update is lost under the mutex, by fetch_add, or by the loop around the
\* compare-and-swap.
THEOREM NoUpdateIsLost == Spec => []NoLostUpdate
<1>1. ASSUME ThreadInv PROVE NoLostUpdate
  <2>1. mutex /\ owner = None => \A w \in Workers : body[w] \notin {"load", "store", "unlock"}
    BY <1>1, WorkerFacts DEF ThreadInv, CountOK
  <2>2. mutex /\ owner = None =>
          Stored = {w \in Workers : body[w] \in {"ticket", "expect", "cas", "returned"}}
    BY <2>1 DEF Stored, Taken
  <2> QED
    BY <1>1, <2>2 DEF ThreadInv, CountOK, NoLostUpdate, Returned
<1> QED
  BY <1>1, ThreadInvariant, PTL

\* The program uses the heap only through its calls, so that what is proved of
\* the heap holds in it: every step is a step of the heap or leaves it alone.
THEOREM ProgramUsesHeap == Spec => HeapSpec
<1>1. Init => HeapInit
  BY DEF Init
<1>2. [Next]_vars => [HeapNext]_heap_vars
  <2> SUFFICES ASSUME [Next]_vars PROVE HeapNext \/ UNCHANGED heap_vars
    OBVIOUS
  <2>1. CASE UNCHANGED vars
    BY <2>1 DEF vars
  <2>2. ASSUME NEW w \in Workers, Spawn(w) \/ Join(w) \/ JoinRefused(w)
        PROVE  UNCHANGED heap_vars
    BY <2>2 DEF Spawn, Join, JoinRefused
  <2>3. ASSUME NEW w \in Workers, WorkerStep(w)
        PROVE  HeapNext \/ UNCHANGED heap_vars
    <3>1. CASE WorkerAlloc(w)
      <4>1. \E s \in Sizes : Alloc(w, s)
        BY <3>1 DEF WorkerAlloc
      <4> QED
        BY <4>1 DEF HeapNext, Workers
    <3>2. CASE ~WorkerAlloc(w)
      BY <2>3, <3>2 DEF WorkerStep, Enter, StoreResult, SetDone, ThreadEnds, WorkerLock,
         WorkerLoad, WorkerStore, WorkerUnlock, WorkerTicket, WorkerExpect, WorkerCas
    <3> QED
      BY <3>1, <3>2
  <2>4. CASE MainCall
    <3>1. Main \in Threads /\ \E o \in HeapCalls : Call(Main, o)
      BY <2>4, ThreadAssumption DEF MainCall
    <3> QED
      BY <3>1 DEF HeapNext
  <2>5. ASSUME NEW t \in Threads, Heap(t)
        PROVE  HeapNext
    BY <2>5 DEF Heap, HeapNext
  <2> QED
    BY <2>1, <2>2, <2>3, <2>4, <2>5 DEF Next
<1> QED
  BY <1>1, <1>2, PTL DEF Spec, HeapSpec

\* In the program the heap's list is exact and no block is lost, whatever its
\* threads do.
THEOREM ProgramBlocksExact == Spec => []BlocksExact
BY ProgramUsesHeap, HeapBlocksExact, PTL

\* In the program the byte total is the sum of the sizes on the list and never
\* wraps, whatever its threads allocate while it shuts down.
THEOREM ProgramBytesExact == Spec => []BytesExact
BY ProgramUsesHeap, HeapBytesExact, PTL
=============================================================================
