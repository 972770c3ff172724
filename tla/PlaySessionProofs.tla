-------------------------- MODULE PlaySessionProofs --------------------------
(***************************************************************************)
(* Theorems about a playtest session, for any entities, any size of the    *)
(* connection and any number of moves, presses and cut lines, with recv    *)
(* calls that end anywhere and either process killed at any moment.        *)
(*                                                                         *)
(* None of the properties is inductive: each is about what one side knows, *)
(* and rests on what is on the way to it.  SnapInv says how far the client *)
(* has read into the snapshot and what of it is still to come; FreshInv    *)
(* says that what is on the way is whole lines with positions that the     *)
(* server has had; PressInv counts the presses that are on the way.        *)
(***************************************************************************)
EXTENDS PlaySession, FiniteSetTheorems, SequenceTheorems, TLAPS

-----------------------------------------------------------------------------
(* Lines and halves *)

Kinds == {"ENTITY", "XFORM", "INPUT", "WELCOME", "SCENE_BEGIN", "SCENE_END", "STOP"}

LEMMA LineFacts ==
  ASSUME NEW l \in Lines
  PROVE  /\ l.kind \in Kinds
         /\ l.kind \in {"ENTITY", "XFORM"} => l.id \in Ids /\ l.at \in Pos
         /\ l.kind = "INPUT" => l.input \in Input
         /\ l # NoLine
<1>1. CASE \E e \in Ids, v \in Pos : l = Entity(e, v) \/ l = Xform(e, v)
  BY <1>1 DEF Entity, Xform, Kinds, NoLine
<1>2. CASE \E i \in Input : l = InputOf(i)
  BY <1>2 DEF InputOf, Kinds, NoLine
<1>3. CASE \E k \in {"WELCOME", "SCENE_BEGIN", "SCENE_END", "STOP"} : l = Plain(k)
  BY <1>3 DEF Plain, Kinds, NoLine
<1> QED BY <1>1, <1>2, <1>3 DEF Lines

LEMMA MadeLines ==
  /\ \A e \in Ids, v \in Pos : Entity(e, v) \in Lines /\ Xform(e, v) \in Lines
  /\ \A i \in Input : InputOf(i) \in Lines
  /\ \A k \in {"WELCOME", "SCENE_BEGIN", "SCENE_END", "STOP"} : Plain(k) \in Lines
BY DEF Lines

LEMMA WrittenFacts ==
  ASSUME NEW l \in Lines
  PROVE  /\ Written(l) \in Seq(Halves) /\ Len(Written(l)) = 2
         /\ Written(l)[1] = [line |-> l, part |-> "head"]
         /\ Written(l)[2] = [line |-> l, part |-> "tail"]
BY DEF Written, Halves

\* The line that a half completes is its own, or one that says nothing.
LEMMA CompletedFacts ==
  ASSUME NEW buf, NEW h \in Halves
  PROVE  LET l == Completed(buf, h)
         IN  \/ h.part = "tail" /\ l = h.line /\ l \in Lines
             \/ l.kind \in {"none", "unknown", "mixed"}
<1>1. h.part \in {"head", "tail"} /\ h.line \in Lines
  BY DEF Halves
<1>2. NoLine.kind = "none" /\ Unknown.kind = "unknown" /\ Mixed(buf.kind).kind = "mixed"
  BY DEF NoLine, Unknown, Mixed
<1> QED BY <1>1, <1>2 DEF Completed

\* A direction with one more line on it
LEMMA PutFacts ==
  ASSUME NEW ch \in Seq(Halves), NEW l \in Lines
  PROVE  /\ ch \o Written(l) \in Seq(Halves) /\ Len(ch \o Written(l)) = Len(ch) + 2
         /\ \A i \in 1..Len(ch) : (ch \o Written(l))[i] = ch[i]
         /\ (ch \o Written(l))[Len(ch) + 1] = [line |-> l, part |-> "head"]
         /\ (ch \o Written(l))[Len(ch) + 2] = [line |-> l, part |-> "tail"]
<1> DEFINE w == Written(l)
<1>1. w \in Seq(Halves) /\ Len(w) = 2 /\ w[1] = [line |-> l, part |-> "head"]
        /\ w[2] = [line |-> l, part |-> "tail"]
  BY WrittenFacts
<1> HIDE DEF w
<1>2. /\ ch \o w \in Seq(Halves) /\ Len(ch \o w) = Len(ch) + 2
      /\ \A i \in 1..Len(ch) : (ch \o w)[i] = ch[i]
      /\ (ch \o w)[Len(ch) + 1] = w[1] /\ (ch \o w)[Len(ch) + 2] = w[2]
  <2>1. /\ ch \o w \in Seq(Halves) /\ Len(ch \o w) = Len(ch) + Len(w)
        /\ \A i \in 1..(Len(ch) + Len(w)) :
             (ch \o w)[i] = IF i <= Len(ch) THEN ch[i] ELSE w[i - Len(ch)]
    BY <1>1, ConcatProperties
  <2>2. Len(ch) \in Nat
    OBVIOUS
  <2> HIDE DEF w
  <2> DEFINE m == Len(ch)
             r == ch \o w
  <2>3. /\ m \in Nat /\ \A i \in 1..(m + 2) : r[i] = IF i <= m THEN ch[i] ELSE w[i - m]
    BY <1>1, <2>1, <2>2
  <2> HIDE DEF m, r
  <2>4. (m + 1) - m = 1 /\ (m + 2) - m = 2 /\ m + 1 \in 1..(m + 2) /\ m + 2 \in 1..(m + 2)
    BY <2>3
  <2>5. r[m + 1] = w[1] /\ r[m + 2] = w[2] /\ \A i \in 1..m : r[i] = ch[i]
    <3>1. ~ (m + 1 <= m) /\ ~ (m + 2 <= m)
      BY <2>3
    <3>2. r[m + 1] = w[(m + 1) - m] /\ r[m + 2] = w[(m + 2) - m]
      BY <2>3, <2>4, <3>1
    <3>3. \A i \in 1..m : i \in 1..(m + 2) /\ i <= m
      BY <2>3
    <3>4. \A i \in 1..m : r[i] = ch[i]
      BY <2>3, <3>3
    <3> QED BY <2>4, <3>2, <3>4
  <2> QED BY <1>1, <2>1, <2>5 DEF m, r
<1> QED BY <1>1, <1>2 DEF w

\* What a sender may have put on a direction of the connection
LEMMA SendsFacts ==
  ASSUME NEW ch \in Seq(Halves), NEW chNew, NEW l \in Lines, Sends(ch, chNew, l)
  PROVE  /\ chNew \in Seq(Halves)
         /\ \/ /\ chNew = ch \o Written(l) /\ UNCHANGED cuts /\ HasRoom(ch)
               /\ Len(chNew) = Len(ch) + 2
               /\ \A i \in 1..Len(ch) : chNew[i] = ch[i]
               /\ chNew[Len(ch) + 1] = [line |-> l, part |-> "head"]
               /\ chNew[Len(ch) + 2] = [line |-> l, part |-> "tail"]
            \/ chNew = ch /\ UNCHANGED cuts
            \/ /\ cuts < MaxCuts /\ cuts' = cuts + 1 /\ ~ HasRoom(ch)
               /\ chNew = Append(ch, [line |-> l, part |-> "head"])
<1>1. [line |-> l, part |-> "head"] \in Halves
  BY DEF Halves
<1>2. CASE HasRoom(ch) /\ chNew = ch \o Written(l) /\ UNCHANGED cuts
  BY <1>2, PutFacts
<1>3. CASE ~HasRoom(ch) /\ chNew = ch /\ UNCHANGED cuts
  BY <1>3
<1>4. CASE /\ ~HasRoom(ch) /\ cuts < MaxCuts /\ cuts' = cuts + 1
           /\ chNew = Append(ch, [line |-> l, part |-> "head"])
  BY <1>1, <1>4
<1> QED BY <1>2, <1>3, <1>4 DEF Sends

\* SomeOrder goes through every entity.
LEMMA OrderFacts ==
  /\ Cardinality(Ids) \in Nat
  /\ SomeOrder \in [1..Cardinality(Ids) -> Ids]
  /\ \A e \in Ids : \E i \in 1..Cardinality(Ids) : SomeOrder[i] = e
<1> DEFINE n == Cardinality(Ids)
           P(s) == \A i, j \in DOMAIN s : s[i] = s[j] => i = j
<1>1. n \in Nat /\ ExistsBijection(1..n, Ids)
  BY PlayAssumption, FS_CardinalityType
<1>2. PICK f \in Bijection(1..n, Ids) : TRUE
  BY <1>1 DEF ExistsBijection
<1>3. f \in [1..n -> Ids] /\ P(f)
  BY <1>2 DEF Bijection, Injection, Surjection, IsInjective
<1>4. SomeOrder \in [1..n -> Ids] /\ P(SomeOrder)
  <2>1. \E s \in [1..n -> Ids] : P(s)
    BY <1>3
  <2>2. SomeOrder = CHOOSE s \in [1..n -> Ids] : P(s)
    BY DEF SomeOrder
  <2> HIDE DEF P, n
  <2> QED BY <2>1, <2>2
<1>5. SomeOrder \in Injection(1..n, Ids)
  BY <1>4 DEF Injection, IsInjective
<1>6. IsFiniteSet(1..n) /\ Cardinality(1..n) = n
  <2> HIDE DEF n
  <2> QED BY <1>1, FS_Interval
<1>7. SomeOrder \in Surjection(1..n, Ids)
  BY <1>5, <1>6, PlayAssumption, FS_Injection
<1> QED BY <1>1, <1>4, <1>7 DEF Surjection

-----------------------------------------------------------------------------
(* Types *)

\* The connection is never longer than its room and the halves cut into it.
Bounded(ch, n) == ch \in Seq(Halves) /\ Len(ch) <= 2 * Room + n

ControlType ==
  /\ spc \in {"load", "listen", "snapshot", "clear", "drain", "tick", "send",
              "close", "exited"}
  /\ cpc \in {"connect", "never", "snapshot", "frame", "drain", "exited", "overrun"}
  /\ srun \in BOOLEAN /\ crun \in BOOLEAN /\ cutInput \in BOOLEAN
  /\ s2cEnd \in {"open", "fin", "rst"} /\ c2sEnd \in {"open", "fin", "rst"}

SceneType ==
  /\ pos \in [Ids -> Pos] /\ cpos \in [Ids -> Pos \cup {Absent, Garbage, Scripted}]
  /\ outbox \in Seq(Lines) /\ moves \in 0..MaxMoves

InputType ==
  /\ sin \in Input /\ cin \in Input
  /\ presses \in 0..MaxPresses /\ seen \in Nat

NetType ==
  Bounded(s2c, cuts) /\ Bounded(c2s, cuts) /\ cuts \in 0..MaxCuts

PlayType == ControlType /\ SceneType /\ InputType /\ NetType

LEMMA SendsType ==
  ASSUME cuts \in 0..MaxCuts, NEW ch, Bounded(ch, cuts), NEW chNew, NEW l \in Lines,
         Sends(ch, chNew, l)
  PROVE  Bounded(chNew, cuts') /\ cuts' \in 0..MaxCuts /\ cuts <= cuts'
<1>1. ch \in Seq(Halves) /\ Len(ch) \in Nat /\ Room \in Nat /\ MaxCuts \in Nat /\ cuts \in Nat
  BY PlayAssumption DEF Bounded
<1>2. CASE /\ HasRoom(ch) /\ UNCHANGED cuts
           /\ chNew \in Seq(Halves) /\ Len(chNew) = Len(ch) + 2
  BY <1>1, <1>2 DEF Bounded, HasRoom
<1>3. CASE chNew = ch /\ UNCHANGED cuts
  BY <1>1, <1>3 DEF Bounded
<1>4. CASE /\ cuts < MaxCuts /\ cuts' = cuts + 1
           /\ chNew \in Seq(Halves) /\ chNew = Append(ch, [line |-> l, part |-> "head"])
  <2>1. [line |-> l, part |-> "head"] \in Halves
    BY DEF Halves
  <2>2. Len(chNew) = Len(ch) + 1
    BY <1>1, <1>4, <2>1
  <2> QED BY <1>1, <1>4, <2>2 DEF Bounded
<1> QED BY <1>1, <1>2, <1>3, <1>4, SendsFacts

LEMMA ShorterType ==
  ASSUME NEW n \in Nat, NEW ch, Bounded(ch, n)
  PROVE  /\ Bounded(<<>>, n)
         /\ ch # <<>> => Bounded(Tail(ch), n) /\ Head(ch) \in Halves
         /\ \A k \in 1..(Len(ch) + 1) : Bounded(SubSeq(ch, k, Len(ch)), n)
<1>1. ch \in Seq(Halves) /\ Len(ch) \in Nat /\ Room \in Nat /\ Len(ch) <= 2 * Room + n
  BY PlayAssumption DEF Bounded
<1>2. Bounded(<<>>, n)
  BY <1>1 DEF Bounded
<1>3. ch # <<>> => Bounded(Tail(ch), n) /\ Head(ch) \in Halves
  BY <1>1 DEF Bounded
<1>4. ASSUME NEW k \in 1..(Len(ch) + 1) PROVE Bounded(SubSeq(ch, k, Len(ch)), n)
  <2>1. /\ SubSeq(ch, k, Len(ch)) \in Seq(Halves)
        /\ Len(SubSeq(ch, k, Len(ch))) = IF k <= Len(ch) THEN Len(ch) - k + 1 ELSE 0
    BY <1>1, SubSeqProperties
  <2> QED BY <1>1, <2>1 DEF Bounded
<1> QED BY <1>2, <1>3, <1>4

LEMMA ClosesFacts ==
  /\ ServerCloses => s2cEnd' \in {"fin", "rst"} /\ s2c' \in {s2c, <<>>}
  /\ ClientCloses => c2sEnd' \in {"fin", "rst"} /\ c2s' \in {c2s, <<>>}
BY DEF ServerCloses, ClientCloses, Ending

LEMMA OutboxFacts ==
  ASSUME NEW p \in [Ids -> Pos]
  PROVE  /\ Xforms(p) \in Seq(Lines) /\ Len(Xforms(p)) = Cardinality(Ids)
         /\ \A i \in 1..Cardinality(Ids) : Xforms(p)[i] = Xform(SomeOrder[i], p[SomeOrder[i]])
<1>1. \A i \in 1..Cardinality(Ids) : SomeOrder[i] \in Ids
  BY OrderFacts
<1>2. \A i \in 1..Cardinality(Ids) : Xform(SomeOrder[i], p[SomeOrder[i]]) \in Lines
  BY <1>1, MadeLines
<1> QED BY <1>2, OrderFacts DEF Xforms

\* The lines of a snapshot, of which the server has all at once
SnapLength == Cardinality(Ids) + 3
SnapLine(p, k) ==
  CASE k = 1 -> Plain("WELCOME")
    [] k = 2 -> Plain("SCENE_BEGIN")
    [] k \in 3..(SnapLength - 1) -> Entity(SomeOrder[k - 2], p[SomeOrder[k - 2]])
    [] OTHER -> Plain("SCENE_END")

LEMMA SnapLines ==
  ASSUME NEW p \in [Ids -> Pos], NEW k \in 1..SnapLength
  PROVE  /\ SnapLength \in Nat
         /\ SnapLine(p, k) \in Lines
         /\ SnapLine(p, k).kind = CASE k = 1 -> "WELCOME"
                                    [] k = 2 -> "SCENE_BEGIN"
                                    [] k \in 3..(SnapLength - 1) -> "ENTITY"
                                    [] OTHER -> "SCENE_END"
         /\ k \in 3..(SnapLength - 1) => /\ k - 2 \in 1..Cardinality(Ids)
                                         /\ SnapLine(p, k).id = SomeOrder[k - 2]
                                         /\ SnapLine(p, k).at = p[SomeOrder[k - 2]]
<1>1. Cardinality(Ids) \in Nat /\ \A i \in 1..Cardinality(Ids) : SomeOrder[i] \in Ids
  BY OrderFacts
<1>2. SnapLength \in Nat /\ (k \in 3..(SnapLength - 1) => k - 2 \in 1..Cardinality(Ids))
  BY <1>1 DEF SnapLength
<1>3. CASE k \in {1, 2}
  BY <1>2, <1>3, MadeLines DEF SnapLine, Plain
<1>4. CASE k \in 3..(SnapLength - 1)
  <2>1. SnapLine(p, k) = Entity(SomeOrder[k - 2], p[SomeOrder[k - 2]])
    BY <1>4 DEF SnapLine
  <2>2. SomeOrder[k - 2] \in Ids /\ p[SomeOrder[k - 2]] \in Pos
    BY <1>1, <1>2, <1>4
  <2> QED BY <1>2, <1>4, <2>1, <2>2, MadeLines DEF Entity
<1>5. CASE k \notin {1, 2} /\ k \notin 3..(SnapLength - 1)
  BY <1>2, <1>5, MadeLines DEF SnapLine, Plain
<1> QED BY <1>3, <1>4, <1>5

LEMMA SnapshotFacts ==
  ASSUME pos \in [Ids -> Pos]
  PROVE  /\ Snapshot \in Seq(Lines) /\ Len(Snapshot) = SnapLength
         /\ \A k \in 1..SnapLength : Snapshot[k] = SnapLine(pos, k)
<1> DEFINE n == Cardinality(Ids)
           a == <<Plain("WELCOME"), Plain("SCENE_BEGIN")>>
           b == [i \in 1..n |-> Entity(SomeOrder[i], pos[SomeOrder[i]])]
           c == <<Plain("SCENE_END")>>
           ab == a \o b
<1>1. n \in Nat /\ \A i \in 1..n : SomeOrder[i] \in Ids
  BY OrderFacts
<1>2. \A i \in 1..n : Entity(SomeOrder[i], pos[SomeOrder[i]]) \in Lines
  BY <1>1, MadeLines
<1>3. /\ a \in Seq(Lines) /\ Len(a) = 2 /\ b \in Seq(Lines) /\ Len(b) = n
      /\ c \in Seq(Lines) /\ Len(c) = 1
      /\ a[1] = Plain("WELCOME") /\ a[2] = Plain("SCENE_BEGIN") /\ c[1] = Plain("SCENE_END")
      /\ \A i \in 1..n : b[i] = Entity(SomeOrder[i], pos[SomeOrder[i]])
  BY <1>1, <1>2, MadeLines
<1>4. Snapshot = ab \o c /\ SnapLength = n + 3
  BY DEF Snapshot, SnapLength
<1> HIDE DEF n, a, b, c
<1>5. /\ ab \in Seq(Lines) /\ Len(ab) = 2 + n
      /\ \A i \in 1..(2 + n) : ab[i] = IF i <= 2 THEN a[i] ELSE b[i - 2]
  <2>1. a \in Seq(Lines) /\ Len(a) = 2 /\ b \in Seq(Lines) /\ Len(b) = n
    BY <1>3
  <2>2. /\ a \o b \in Seq(Lines) /\ Len(a \o b) = Len(a) + Len(b)
        /\ \A i \in 1..(Len(a) + Len(b)) :
             (a \o b)[i] = IF i <= Len(a) THEN a[i] ELSE b[i - Len(a)]
    BY <2>1, ConcatProperties
  <2> QED BY <2>1, <2>2
<1> HIDE DEF ab
<1>6. /\ Snapshot \in Seq(Lines) /\ Len(Snapshot) = (2 + n) + 1
      /\ \A i \in 1..((2 + n) + 1) : Snapshot[i] = IF i <= 2 + n THEN ab[i] ELSE c[i - (2 + n)]
  <2>1. ab \in Seq(Lines) /\ Len(ab) = 2 + n /\ c \in Seq(Lines) /\ Len(c) = 1
    BY <1>3, <1>5
  <2>2. /\ ab \o c \in Seq(Lines) /\ Len(ab \o c) = Len(ab) + Len(c)
        /\ \A i \in 1..(Len(ab) + Len(c)) :
             (ab \o c)[i] = IF i <= Len(ab) THEN ab[i] ELSE c[i - Len(ab)]
    BY <2>1, ConcatProperties
  <2> QED BY <1>4, <2>1, <2>2
<1>7. ASSUME NEW k \in 1..SnapLength PROVE Snapshot[k] = SnapLine(pos, k)
  <2>1. CASE k \in {1, 2}
    <3>1. Snapshot[k] = ab[k] /\ ab[k] = a[k]
      BY <1>1, <1>4, <1>5, <1>6, <2>1
    <3> QED BY <1>3, <2>1, <3>1 DEF SnapLine
  <2>2. CASE k \in 3..(SnapLength - 1)
    <3>1. Snapshot[k] = ab[k] /\ ab[k] = b[k - 2] /\ k - 2 \in 1..n
      BY <1>1, <1>4, <1>5, <1>6, <2>2
    <3>2. k \notin {1, 2}
      BY <2>2
    <3>3. b[k - 2] = Entity(SomeOrder[k - 2], pos[SomeOrder[k - 2]])
      BY <1>3, <3>1
    <3>4. Snapshot[k] = Entity(SomeOrder[k - 2], pos[SomeOrder[k - 2]])
      BY <3>1, <3>3
    <3>5. SnapLine(pos, k) = Entity(SomeOrder[k - 2], pos[SomeOrder[k - 2]])
      BY <2>2, <3>2 DEF SnapLine
    <3> QED BY <3>4, <3>5
  <2>3. CASE k = SnapLength
    <3>1. k - (2 + n) = 1 /\ ~ (k <= 2 + n) /\ k \in 1..((2 + n) + 1)
      BY <1>1, <1>4, <2>3
    <3>2. Snapshot[k] = c[1]
      BY <1>6, <3>1
    <3>3. k \notin {1, 2} /\ k \notin 3..(SnapLength - 1)
      BY <1>1, <1>4, <2>3
    <3> QED BY <1>3, <3>2, <3>3 DEF SnapLine
  <2>4. k \in {1, 2} \/ k \in 3..(SnapLength - 1) \/ k = SnapLength
    <3>1. SnapLength = n + 3 /\ n \in Nat
      BY <1>1, <1>4
    <3> QED BY <3>1
  <2> QED BY <2>1, <2>2, <2>3, <2>4
<1> QED BY <1>1, <1>4, <1>6, <1>7

LEMMA PlayTypes == PlayType => TypeOK
<1> SUFFICES ASSUME PlayType PROVE TypeOK
  OBVIOUS
<1>1. Bounded(s2c, MaxCuts) /\ Bounded(c2s, MaxCuts)
  BY PlayAssumption DEF PlayType, NetType, Bounded
<1> QED BY <1>1 DEF PlayType, ControlType, SceneType, InputType, NetType, Bounded, TypeOK

LEMMA InitType == Init => PlayType
<1> SUFFICES ASSUME Init PROVE PlayType
  OBVIOUS
<1>1. /\ MaxMoves \in Nat /\ MaxPresses \in Nat /\ MaxCuts \in Nat /\ Room \in Nat
      /\ Neutral \in Input /\ 0 \in Pos
  BY PlayAssumption DEF Neutral, Input, Pos
<1>2. NetType
  <2>1. s2c = <<>> /\ c2s = <<>> /\ cuts = 0 /\ <<>> \in Seq(Halves) /\ Len(<<>>) = 0
    BY DEF Init
  <2> QED BY <1>1, <2>1 DEF NetType, Bounded
<1>3. SceneType
  BY <1>1 DEF Init, SceneType
<1>4. InputType
  BY <1>1 DEF Init, InputType
<1>5. ControlType
  BY DEF Init, ControlType
<1> QED BY <1>2, <1>3, <1>4, <1>5 DEF PlayType

\* What the server sends on its direction
LEMMA SnapshotSendType ==
  ASSUME PlayType, SendSnapshot
  PROVE  /\ Head(outbox) \in Lines /\ outbox' \in Seq(Lines) /\ Bounded(s2c', cuts)
         /\ c2sEnd = "open" => Sends(s2c, s2c', Head(outbox))
<1>1. outbox \in Seq(Lines) /\ outbox # <<>> /\ Bounded(s2c, cuts) /\ cuts \in 0..MaxCuts
  BY DEF PlayType, SceneType, NetType, SendSnapshot
<1>2. Head(outbox) \in Lines /\ outbox' \in Seq(Lines)
  BY <1>1 DEF SendSnapshot
<1>3. CASE c2sEnd = "open"
  <2>1. Sends(s2c, s2c', Head(outbox)) /\ cuts' = cuts
    BY <1>3 DEF SendSnapshot, Sends
  <2> QED BY <1>1, <1>2, <2>1, SendsType
<1>4. CASE c2sEnd # "open"
  BY <1>1, <1>2, <1>4 DEF SendSnapshot
<1> QED BY <1>3, <1>4

LEMMA XformSendType ==
  ASSUME PlayType, SendXform
  PROVE  /\ Head(outbox) \in Lines /\ outbox' \in Seq(Lines)
         /\ NetType' /\ cuts <= cuts' /\ c2sEnd' \in {c2sEnd, "rst"}
<1>1. /\ outbox \in Seq(Lines) /\ outbox # <<>> /\ cuts \in 0..MaxCuts /\ cuts \in Nat
      /\ Bounded(s2c, cuts) /\ Bounded(c2s, cuts)
  BY PlayAssumption DEF PlayType, SceneType, NetType, SendXform
<1>2. Head(outbox) \in Lines /\ outbox' \in Seq(Lines)
  BY <1>1 DEF SendXform
<1>3. CASE Sends(s2c, s2c', Head(outbox)) /\ UNCHANGED <<c2s, c2sEnd>>
  <2>1. Bounded(s2c', cuts') /\ cuts' \in 0..MaxCuts /\ cuts <= cuts'
    BY <1>1, <1>2, <1>3, SendsType
  <2>2. Bounded(c2s', cuts')
    BY <1>1, <1>3, <2>1, PlayAssumption DEF Bounded
  <2> QED BY <1>2, <1>3, <2>1, <2>2 DEF NetType
<1>4. CASE UNCHANGED <<s2c, cuts>> /\ c2s' \in {c2s, <<>>} /\ c2sEnd' \in {c2sEnd, "rst"}
  <2>1. Bounded(c2s', cuts)
    BY <1>1, <1>4, ShorterType
  <2>2. s2c' = s2c /\ cuts' = cuts /\ cuts <= cuts
    BY <1>1, <1>4
  <2> QED BY <1>1, <1>2, <1>4, <2>1, <2>2 DEF NetType
<1> QED BY <1>3, <1>4 DEF SendXform

LEMMA ServerTypes ==
  ASSUME PlayType, ServerStep \/ ServerKilled PROVE PlayType'
<1> USE DEF clientVars, netVars
<1>0. /\ Bounded(s2c, cuts) /\ Bounded(c2s, cuts) /\ cuts \in 0..MaxCuts /\ cuts \in Nat
      /\ Room \in Nat /\ MaxMoves \in Nat
      /\ ControlType /\ SceneType /\ InputType /\ NetType
  BY PlayAssumption DEF PlayType, NetType
<1> DEFINE Scene == /\ UNCHANGED <<cpos, pos, moves>> /\ outbox' \in Seq(Lines)
           Inputs == UNCHANGED <<sin, cin, presses, seen>>
           Net == UNCHANGED <<s2c, c2s, cuts>>
<1>a. Scene => SceneType'
  BY <1>0 DEF SceneType
<1>b. Inputs => InputType'
  BY <1>0 DEF InputType
<1>c. Net => NetType'
  BY <1>0 DEF NetType
<1>d. UNCHANGED outbox => outbox' \in Seq(Lines)
  BY <1>0 DEF SceneType
<1>1. CASE ServerListen
  <2>1. ControlType'
    BY <1>0, <1>1 DEF ServerListen, ControlType
  <2> QED BY <1>1, <1>a, <1>b, <1>c, <1>d, <2>1 DEF ServerListen, PlayType
<1>2. CASE Accept
  <2>1. outbox' \in Seq(Lines)
    BY <1>0, <1>2, SnapshotFacts DEF Accept, SceneType
  <2>2. ControlType'
    BY <1>0, <1>2 DEF Accept, ControlType
  <2> QED BY <1>2, <1>a, <1>b, <1>c, <2>1, <2>2 DEF Accept, PlayType
<1>3. CASE SendSnapshot
  <2>1. outbox' \in Seq(Lines) /\ Bounded(s2c', cuts)
    BY <1>3, SnapshotSendType
  <2>2. ControlType'
    BY <1>0, <1>3 DEF SendSnapshot, ControlType
  <2>3. NetType'
    BY <1>0, <1>3, <2>1 DEF SendSnapshot, NetType
  <2> QED BY <1>3, <1>a, <1>b, <2>1, <2>2, <2>3 DEF SendSnapshot, PlayType
<1>4. CASE SnapshotSent
  <2>1. ControlType'
    BY <1>0, <1>4 DEF SnapshotSent, ControlType
  <2> QED BY <1>4, <1>a, <1>b, <1>c, <1>d, <2>1 DEF SnapshotSent, PlayType
<1>5. CASE ClearEdges
  <2>1. InputType'
    BY <1>0, <1>5 DEF ClearEdges, WithoutEdges, Input, InputType
  <2>2. ControlType'
    BY <1>0, <1>5 DEF ClearEdges, ControlType
  <2> QED BY <1>5, <1>a, <1>c, <1>d, <2>1, <2>2 DEF ClearEdges, PlayType
<1>6. CASE ServerRecv
  <2> DEFINE h == Head(c2s)
             l == Completed(sline, h)
  <2>1. Bounded(c2s', cuts) /\ h \in Halves
    BY <1>0, <1>6, ShorterType DEF ServerRecv
  <2>2. l \in Lines \/ l.kind # "INPUT"
    BY <2>1, CompletedFacts
  <2>3. ApplyInput(l)
    BY <1>6 DEF ServerRecv
  <2> HIDE DEF l
  <2>4. l.kind = "INPUT" => l.input \in Input
    BY <2>2, LineFacts
  <2>5. sin' \in Input /\ cutInput' \in BOOLEAN
    BY <1>0, <2>3, <2>4 DEF ApplyInput, ControlType, InputType
  <2>6. InputType'
    BY <1>0, <1>6, <2>5 DEF ServerRecv, InputType
  <2>7. ControlType'
    BY <1>0, <1>6, <2>5 DEF ServerRecv, ControlType
  <2>8. NetType'
    BY <1>0, <1>6, <2>1 DEF ServerRecv, NetType
  <2> QED BY <1>6, <1>a, <1>d, <2>6, <2>7, <2>8 DEF ServerRecv, PlayType
<1>7. CASE ServerDrained
  <2>1. ControlType'
    BY <1>0, <1>7 DEF ServerDrained, ControlType
  <2> QED BY <1>7, <1>a, <1>b, <1>c, <1>d, <2>1 DEF ServerDrained, PlayType
<1>8. CASE Tick
  <2>1. pos' \in [Ids -> Pos] /\ moves' \in 0..MaxMoves
    BY <1>0, <1>8 DEF Tick, Pos, SceneType
  <2>2. outbox' \in Seq(Lines)
    BY <1>8, <2>1, OutboxFacts DEF Tick
  <2>3. SceneType'
    BY <1>0, <1>8, <2>1, <2>2 DEF Tick, SceneType
  <2>4. InputType'
    BY <1>0, <1>8 DEF Tick, InputType
  <2>5. ControlType'
    BY <1>0, <1>8 DEF Tick, ControlType
  <2> QED BY <1>8, <1>c, <2>3, <2>4, <2>5 DEF Tick, PlayType
<1>9. CASE SendXform
  <2>1. outbox' \in Seq(Lines) /\ NetType' /\ c2sEnd' \in {c2sEnd, "rst"}
    BY <1>9, XformSendType
  <2>2. ControlType'
    BY <1>0, <1>9, <2>1 DEF SendXform, ControlType
  <2> QED BY <1>9, <1>a, <1>b, <2>1, <2>2 DEF SendXform, PlayType
<1>10. CASE EndTick
  <2>1. ControlType'
    BY <1>0, <1>10 DEF EndTick, ControlType
  <2> QED BY <1>10, <1>a, <1>b, <1>c, <1>d, <2>1 DEF EndTick, PlayType
<1>11. CASE SendStop
  <2>1. Plain("STOP") \in Lines
    BY MadeLines
  <2>2. Bounded(s2c', cuts') /\ cuts' \in 0..MaxCuts /\ cuts <= cuts'
    <3>1. CASE Sends(s2c, s2c', Plain("STOP"))
      BY <1>0, <2>1, <3>1, SendsType
    <3>2. CASE UNCHANGED <<s2c, cuts>>
      BY <1>0, <3>2
    <3> QED BY <1>11, <3>1, <3>2 DEF SendStop
  <2>3. Bounded(c2s', cuts')
    BY <1>0, <1>11, <2>2 DEF Bounded, SendStop
  <2>4. ControlType'
    BY <1>0, <1>11 DEF SendStop, ControlType
  <2>5. NetType'
    BY <2>2, <2>3 DEF NetType
  <2> QED BY <1>11, <1>a, <1>b, <1>d, <2>4, <2>5 DEF SendStop, PlayType
<1>12. CASE ServerExit \/ ServerKilled
  <2>1. s2c' \in {s2c, <<>>} /\ s2cEnd' \in {s2cEnd, "fin", "rst"}
    BY <1>12, ClosesFacts DEF ServerExit, ServerKilled
  <2>2. Bounded(s2c', cuts)
    BY <1>0, <2>1, ShorterType
  <2>3. /\ UNCHANGED <<crun, cutInput, c2sEnd, cpc, c2s, cuts>>
        /\ srun' = FALSE /\ spc' = "exited"
        /\ UNCHANGED <<cpos, pos, moves>> /\ outbox' = <<>>
        /\ UNCHANGED <<cin, presses, seen>> /\ sin' = Neutral
    BY <1>12, <1>d DEF ServerExit, ServerKilled, ServerForgets
  <2>4. ControlType'
    BY <1>0, <2>1, <2>3 DEF ControlType
  <2>5. NetType'
    BY <1>0, <2>2, <2>3 DEF NetType
  <2>6. SceneType'
    BY <1>0, <2>3 DEF SceneType
  <2>7. InputType'
    BY <1>0, <2>3 DEF InputType, Neutral, Input
  <2> QED BY <2>4, <2>5, <2>6, <2>7 DEF PlayType
<1> QED BY <1>1, <1>2, <1>3, <1>4, <1>5, <1>6, <1>7, <1>8, <1>9, <1>10, <1>11, <1>12
      DEF ServerStep

\* What a completed line does to the client's scene
LEMMA AppliedType ==
  ASSUME SceneType, NEW h \in Halves, NEW buf,
         ApplyRuntime(Completed(buf, h)) \/ cpos' = Applied(Completed(buf, h))
  PROVE  cpos' \in [Ids -> Pos \cup {Absent, Garbage, Scripted}]
<1> DEFINE l == Completed(buf, h)
<1>1. cpos \in [Ids -> Pos \cup {Absent, Garbage, Scripted}]
  BY DEF SceneType
<1>2. l.kind \in {"ENTITY", "XFORM"} => l.id \in Ids /\ l.at \in Pos
  BY CompletedFacts, LineFacts
<1> HIDE DEF l
<1>3. Applied(l) \in [Ids -> Pos \cup {Absent, Garbage, Scripted}]
  <2>1. CASE l.kind = "SCENE_BEGIN"
    BY <2>1 DEF Applied
  <2>2. CASE l.kind = "ENTITY"
    BY <1>1, <1>2, <2>2 DEF Applied
  <2>3. CASE l.kind = "XFORM"
    BY <1>1, <1>2, <2>3 DEF Applied
  <2>4. CASE l.kind \notin {"SCENE_BEGIN", "ENTITY", "XFORM"}
    BY <1>1, <2>4 DEF Applied
  <2> QED BY <2>1, <2>2, <2>3, <2>4
<1>4. CASE cpos' = Applied(l)
  BY <1>3, <1>4
<1>5. CASE ApplyRuntime(l)
  BY <1>1, <1>3, <1>5 DEF ApplyRuntime
<1> QED BY <1>4, <1>5 DEF l

\* The scripts of the client leave an entity alone, or place one that is known.
LEMMA PlacedFacts ==
  ASSUME NEW S, cpos \in [Ids -> Pos \cup {Absent, Garbage, Scripted}],
         cpos' = PlacedByScripts(S)
  PROVE  /\ cpos' \in [Ids -> Pos \cup {Absent, Garbage, Scripted}]
         /\ \A e \in Ids : cpos'[e] = cpos[e] \/ cpos'[e] = Scripted
BY DEF PlacedByScripts

LEMMA ClientTypes ==
  ASSUME PlayType, ClientStep \/ ClientKilled PROVE PlayType'
<1> USE DEF serverVars, netVars
<1>0. /\ Bounded(s2c, cuts) /\ Bounded(c2s, cuts) /\ cuts \in 0..MaxCuts /\ cuts \in Nat
      /\ Room \in Nat /\ MaxMoves \in Nat
      /\ ControlType /\ SceneType /\ InputType /\ NetType
  BY PlayAssumption DEF PlayType, NetType
<1> DEFINE Scene == UNCHANGED <<cpos, pos, moves, outbox>>
           Inputs == UNCHANGED <<sin, cin, presses, seen>>
           Net == UNCHANGED <<s2c, c2s, cuts>>
<1>a. Scene => SceneType'
  BY <1>0 DEF SceneType
<1>b. Inputs => InputType'
  BY <1>0 DEF InputType
<1>c. Net => NetType'
  BY <1>0 DEF NetType
<1>1. CASE ClientConnect \/ ClientRefused
  <2>1. ControlType' /\ Scene /\ Inputs /\ Net
    BY <1>0, <1>1 DEF ClientConnect, ClientRefused, ControlType
  <2> QED BY <1>a, <1>b, <1>c, <2>1 DEF PlayType
<1>2. CASE LoadScene
  <2> DEFINE h == Head(s2c)
  <2>1. h \in Halves /\ Bounded(Tail(s2c), cuts)
    BY <1>0, <1>2, ShorterType DEF LoadScene
  <2>2. Bounded(s2c', cuts)
    <3>1. CASE s2c' = Tail(s2c)
      BY <2>1, <3>1
    <3>2. ASSUME NEW n \in 2..(Len(s2c) + 1), s2c' = SubSeq(s2c, n, Len(s2c))
          PROVE  Bounded(s2c', cuts)
      <4>1. n \in 1..(Len(s2c) + 1)
        OBVIOUS
      <4> QED BY <1>0, <3>2, <4>1, ShorterType
    <3> QED BY <1>2, <3>1, <3>2 DEF LoadScene
  <2>3. cpos' = Applied(Completed(cline, h))
    BY <1>2 DEF LoadScene
  <2>4. cpos' \in [Ids -> Pos \cup {Absent, Garbage, Scripted}]
    BY <1>0, <2>1, <2>3, AppliedType
  <2>5. SceneType'
    BY <1>0, <1>2, <2>4 DEF LoadScene, SceneType
  <2>6. NetType'
    BY <1>0, <1>2, <2>2 DEF LoadScene, NetType
  <2>7. ControlType'
    BY <1>0, <1>2 DEF LoadScene, ControlType
  <2> QED BY <1>2, <1>b, <2>5, <2>6, <2>7 DEF LoadScene, PlayType
<1>3. CASE SnapshotCut \/ SnapshotReset \/ ClientExit \/ ClientKilled
  <2>1. c2s' \in {c2s, <<>>} /\ c2sEnd' \in {c2sEnd, "fin", "rst"}
    BY <1>3, ClosesFacts DEF SnapshotCut, SnapshotReset, ClientExit, ClientKilled
  <2>2. Bounded(c2s', cuts)
    BY <1>0, <2>1, ShorterType
  <2>3. /\ UNCHANGED <<srun, cutInput, s2cEnd, spc, s2c, cuts>>
        /\ crun' = FALSE /\ cpc' \in {"exited", "overrun", "never"} /\ Scene
        /\ UNCHANGED <<sin, presses, seen>> /\ cin' = Neutral
    BY <1>3 DEF SnapshotCut, SnapshotReset, ClientExit, ClientKilled, ClientForgets
  <2>4. ControlType'
    BY <1>0, <2>1, <2>3 DEF ControlType
  <2>5. NetType'
    BY <1>0, <2>2, <2>3 DEF NetType
  <2>6. InputType'
    BY <1>0, <2>3 DEF InputType, Neutral, Input
  <2> QED BY <1>a, <2>3, <2>4, <2>5, <2>6 DEF PlayType
<1>4. CASE Frame
  <2>1. cin' \in Input /\ presses' \in 0..MaxPresses
    <3>1. /\ cin.held \in BOOLEAN /\ presses \in 0..MaxPresses /\ MaxPresses \in Nat
          /\ \A now \in BOOLEAN : Sampled(now) \in Input
      BY <1>0, PlayAssumption DEF Sampled, Input, InputType
    <3>2. cin' \in Input
      <4>1. Neutral \in Input
        BY DEF Neutral, Input
      <4>2. cin' \in {Sampled(TRUE), Sampled(FALSE), Neutral}
        BY <1>4 DEF Frame
      <4> QED BY <3>1, <4>1, <4>2
    <3>3. presses' \in 0..MaxPresses
      BY <1>4, <3>1 DEF Frame
    <3> QED BY <3>2, <3>3
  <2>2. Bounded(s2c', cuts') /\ Bounded(c2s', cuts') /\ cuts' \in 0..MaxCuts
    <3>1. CASE Sends(c2s, c2s', InputOf(cin')) /\ UNCHANGED <<s2c, s2cEnd>>
      <4>1. InputOf(cin') \in Lines
        BY <2>1, MadeLines
      <4>2. Bounded(c2s', cuts') /\ cuts' \in 0..MaxCuts /\ cuts <= cuts'
        BY <1>0, <3>1, <4>1, SendsType
      <4>3. Bounded(s2c', cuts')
        BY <1>0, <3>1, <4>2 DEF Bounded
      <4> QED BY <4>2, <4>3
    <3>2. CASE UNCHANGED <<c2s, cuts>> /\ s2c' \in {s2c, <<>>}
      BY <1>0, <3>2, ShorterType
    <3> QED BY <1>4, <3>1, <3>2 DEF Frame
  <2>3. s2cEnd' \in {s2cEnd, "rst"}
    BY <1>4 DEF Frame
  <2>4. InputType'
    BY <1>0, <1>4, <2>1 DEF Frame, InputType
  <2>5. ControlType'
    BY <1>0, <1>4, <2>3 DEF Frame, ControlType
  <2>6. NetType'
    BY <2>2 DEF NetType
  <2> QED BY <1>4, <1>a, <2>4, <2>5, <2>6 DEF Frame, PlayType
<1>5. CASE ClientRecv
  <2> DEFINE h == Head(s2c)
  <2>1. h \in Halves /\ Bounded(s2c', cuts)
    BY <1>0, <1>5, ShorterType DEF ClientRecv
  <2>2. ApplyRuntime(Completed(cline, h))
    BY <1>5 DEF ClientRecv
  <2>3. cpos' \in [Ids -> Pos \cup {Absent, Garbage, Scripted}]
    BY <1>0, <2>1, <2>2, AppliedType
  <2>4. SceneType'
    BY <1>0, <1>5, <2>3 DEF ClientRecv, SceneType
  <2>5. NetType'
    BY <1>0, <1>5, <2>1 DEF ClientRecv, NetType
  <2>6. crun' \in BOOLEAN
    BY <1>5 DEF ClientRecv
  <2>7. ControlType'
    BY <1>0, <1>5, <2>6 DEF ClientRecv, ControlType
  <2> QED BY <1>5, <1>b, <2>4, <2>5, <2>7 DEF ClientRecv, PlayType
<1>6. CASE ClientDrained
  <2>1. crun' \in BOOLEAN
    BY <1>6 DEF ClientDrained
  <2>2. ControlType' /\ UNCHANGED <<pos, moves, outbox>> /\ Inputs /\ Net
    BY <1>0, <1>6, <2>1 DEF ClientDrained, ControlType
  <2>3. cpos' \in [Ids -> Pos \cup {Absent, Garbage, Scripted}]
    BY <1>0, <1>6, PlacedFacts DEF ClientDrained, SceneType
  <2>4. SceneType'
    BY <1>0, <2>2, <2>3 DEF SceneType
  <2> QED BY <1>b, <1>c, <2>2, <2>4 DEF PlayType
<1> QED BY <1>1, <1>2, <1>3, <1>4, <1>5, <1>6 DEF ClientStep

LEMMA PlayTypeStep == PlayType /\ [Next]_vars => PlayType'
<1>1. CASE UNCHANGED vars
  BY <1>1 DEF vars, PlayType, ControlType, SceneType, InputType, NetType
<1> QED BY <1>1, ServerTypes, ClientTypes DEF Next

(* The processes and the connection keep their types: a direction of the       *)
(* connection holds no more lines than fit, and a half for every cut.          *)
THEOREM PlayTypeOK == Spec => []TypeOK
BY InitType, PlayTypeStep, PlayTypes, PTL DEF Spec

-----------------------------------------------------------------------------
(* Presses *)

\* An INPUT packet is taken when its second half arrives.
Weight(h) ==
  IF h.part = "tail" /\ h.line.kind = "INPUT" /\ h.line.input.pressed = TRUE THEN 1 ELSE 0

\* There are at most n pressed edges in q: left[i] counts from position i on.
Owed(q, n) ==
  \E left \in [1..(Len(q) + 1) -> Nat] :
    /\ left[1] <= n
    /\ \A i \in 1..Len(q) : left[i + 1] + Weight(q[i]) <= left[i]

LEMMA OwedEmpty ==
  ASSUME NEW n \in Nat PROVE Owed(<<>>, n)
<1> DEFINE left == [i \in 1..(Len(<<>>) + 1) |-> 0]
<1>1. Len(<<>>) = 0 /\ 1 \in 1..(Len(<<>>) + 1)
  OBVIOUS
<1>2. left \in [1..(Len(<<>>) + 1) -> Nat] /\ left[1] <= n
  BY <1>1
<1> HIDE DEF left
<1> QED BY <1>1, <1>2 DEF Owed

LEMMA OwedTail ==
  ASSUME NEW q \in Seq(Halves), q # <<>>, NEW n \in Nat, Owed(q, n)
  PROVE  n - Weight(Head(q)) \in Nat /\ Owed(Tail(q), n - Weight(Head(q)))
<1>1. PICK left \in [1..(Len(q) + 1) -> Nat] :
        /\ left[1] <= n
        /\ \A i \in 1..Len(q) : left[i + 1] + Weight(q[i]) <= left[i]
  BY DEF Owed
<1> DEFINE k == Len(q)
           r == Tail(q)
           w == Weight(Head(q))
           more == [i \in 1..(Len(r) + 1) |-> left[i + 1]]
<1>2. /\ k \in Nat /\ k >= 1 /\ Len(r) = k - 1 /\ Head(q) = q[1]
      /\ \A i \in 1..(k - 1) : r[i] = q[i + 1]
  OBVIOUS
<1>3. w \in Nat
  BY DEF Weight
<1> HIDE DEF k, r, w
<1>4. left[2] + w <= left[1] /\ left[1] \in Nat /\ left[2] \in Nat
  <2>1. 1 \in 1..k /\ 1 + 1 = 2 /\ 1 \in 1..(k + 1) /\ 2 \in 1..(k + 1)
    BY <1>2
  <2> QED BY <1>1, <1>2, <2>1 DEF k, w
<1>5. n - w \in Nat /\ left[2] <= n - w
  BY <1>1, <1>3, <1>4
<1>6. \A i \in 1..(Len(r) + 1) : i + 1 \in 1..(k + 1) /\ more[i] = left[i + 1]
  BY <1>2
<1>7. more \in [1..(Len(r) + 1) -> Nat] /\ more[1] <= n - w
  BY <1>1, <1>2, <1>5, <1>6 DEF k
<1>8. ASSUME NEW i \in 1..Len(r) PROVE more[i + 1] + Weight(r[i]) <= more[i]
  <2>1. i \in 1..(Len(r) + 1) /\ i + 1 \in 1..(Len(r) + 1) /\ i + 1 \in 1..k
    BY <1>2
  <2>2. r[i] = q[i + 1]
    BY <1>2
  <2>3. left[(i + 1) + 1] + Weight(q[i + 1]) <= left[i + 1]
    BY <1>1, <2>1 DEF k
  <2> QED BY <1>6, <2>1, <2>2, <2>3
<1> HIDE DEF more
<1> QED BY <1>5, <1>7, <1>8 DEF Owed, r, w

LEMMA OwedAppend ==
  ASSUME NEW q \in Seq(Halves), NEW h \in Halves, NEW n \in Nat, Owed(q, n)
  PROVE  Owed(Append(q, h), n + Weight(h))
<1>1. PICK left \in [1..(Len(q) + 1) -> Nat] :
        /\ left[1] <= n
        /\ \A i \in 1..Len(q) : left[i + 1] + Weight(q[i]) <= left[i]
  BY DEF Owed
<1> DEFINE k == Len(q)
           r == Append(q, h)
           w == Weight(h)
           more == [i \in 1..(Len(r) + 1) |-> IF i = k + 2 THEN 0 ELSE left[i] + w]
<1>2. /\ k \in Nat /\ Len(r) = k + 1 /\ r[k + 1] = h
      /\ \A i \in 1..k : r[i] = q[i]
  OBVIOUS
<1>3. w \in Nat
  BY DEF Weight
<1> HIDE DEF k, r, w
<1>4. \A i \in 1..(k + 1) : left[i] \in Nat
  BY <1>1 DEF k
<1>5. /\ \A i \in 1..(k + 1) : i \in 1..(Len(r) + 1) /\ more[i] = left[i] + w
      /\ more[k + 2] = 0
  BY <1>2
<1>6. more \in [1..(Len(r) + 1) -> Nat] /\ more[1] <= n + w
  <2>1. \A i \in 1..(Len(r) + 1) : i # k + 2 => i \in 1..(k + 1)
    BY <1>2
  <2>2. \A i \in 1..(k + 1) : left[i] + w \in Nat
    BY <1>3, <1>4
  <2>3. more \in [1..(Len(r) + 1) -> Nat]
    BY <2>1, <2>2
  <2>4. 1 \in 1..(k + 1)
    BY <1>2
  <2> QED BY <1>1, <1>3, <1>4, <1>5, <2>3, <2>4
<1>7. ASSUME NEW i \in 1..Len(r) PROVE more[i + 1] + Weight(r[i]) <= more[i]
  <2>1. CASE i = k + 1
    <3>1. i \in 1..(k + 1) /\ i + 1 = k + 2 /\ r[i] = h
      BY <1>2, <2>1
    <3> QED BY <1>3, <1>4, <1>5, <3>1 DEF w
  <2>2. CASE i # k + 1
    <3>1. i \in 1..k /\ i \in 1..(k + 1) /\ i + 1 \in 1..(k + 1) /\ r[i] = q[i]
      BY <1>2, <2>2
    <3>2. left[i + 1] + Weight(q[i]) <= left[i] /\ Weight(q[i]) \in Nat
      BY <1>1, <3>1 DEF k, Weight
    <3>3. more[i + 1] = left[i + 1] + w /\ more[i] = left[i] + w
      BY <1>5, <3>1
    <3> QED BY <1>3, <1>4, <3>1, <3>2, <3>3, SMTT(30)
  <2> QED BY <2>1, <2>2
<1> HIDE DEF more
<1> QED BY <1>6, <1>7 DEF Owed, r, w

LEMMA OwedMore ==
  ASSUME NEW q \in Seq(Halves), NEW n \in Nat, NEW m \in Nat, Owed(q, n), n <= m
  PROVE  Owed(q, m)
<1>1. PICK left \in [1..(Len(q) + 1) -> Nat] :
        /\ left[1] <= n
        /\ \A i \in 1..Len(q) : left[i + 1] + Weight(q[i]) <= left[i]
  BY DEF Owed
<1>2. left[1] \in Nat
  BY <1>1
<1> QED BY <1>1, <1>2 DEF Owed

\* A line that is sent brings its weight, one that is lost or cut nothing.
LEMMA OwedSent ==
  ASSUME NEW q \in Seq(Halves), NEW r, NEW l \in Lines, NEW n \in Nat, Owed(q, n),
         Sends(q, r, l)
  PROVE  Owed(r, n + Weight([line |-> l, part |-> "tail"]))
<1> DEFINE h == [line |-> l, part |-> "head"]
           t == [line |-> l, part |-> "tail"]
<1>1. h \in Halves /\ t \in Halves
  BY DEF Halves
<1>2. Weight(h) = 0 /\ Weight(t) \in Nat
  BY DEF Weight
<1> HIDE DEF h, t
<1>3. n + Weight(t) \in Nat /\ n <= n + Weight(t)
  BY <1>2
<1>4. Owed(q, n + Weight(t))
  BY <1>3, OwedMore
<1>5. CASE r = q \o Written(l)
  <2>1. q \o Written(l) = Append(Append(q, h), t)
    BY <1>1 DEF Written, h, t
  <2>2. Append(q, h) \in Seq(Halves) /\ Owed(Append(q, h), n)
    <3>1. Owed(Append(q, h), n + Weight(h))
      BY <1>1, OwedAppend
    <3> QED BY <1>1, <1>2, <3>1
  <2> QED BY <1>1, <1>5, <2>1, <2>2, OwedAppend DEF t
<1>6. CASE r = q
  BY <1>4, <1>6 DEF t
<1>7. CASE r = Append(q, h)
  <2>1. Owed(Append(q, h), (n + Weight(t)) + Weight(h))
    BY <1>1, <1>3, <1>4, OwedAppend
  <2>2. (n + Weight(t)) + Weight(h) = n + Weight(t)
    BY <1>2, <1>3
  <2> QED BY <1>7, <2>1, <2>2 DEF t
<1> QED BY <1>5, <1>6, <1>7 DEF Sends, h

\* A press in the input map that no tick has counted yet
Unticked == IF sin.pressed = TRUE /\ spc \in {"drain", "tick"} THEN 1 ELSE 0

PressInv ==
  cutInput = TRUE \/ \E n \in Nat : Owed(c2s, n) /\ seen + Unticked + n <= presses

\* Nothing but the client's own frames adds a press, so a step that keeps the
\* rest keeps the account.
LEMMA PressKept ==
  ASSUME PlayType, PlayType', PressInv, cutInput' = cutInput, seen' = seen,
         presses <= presses', Unticked' <= Unticked, c2s' \in {c2s, <<>>}
  PROVE  PressInv'
<1>1. /\ seen \in Nat /\ presses \in Nat /\ presses' \in Nat
      /\ Unticked \in Nat /\ Unticked' \in Nat
  BY PlayAssumption DEF PlayType, InputType, Unticked
<1>2. CASE cutInput = TRUE
  BY <1>2 DEF PressInv
<1>3. CASE cutInput # TRUE
  <2>1. PICK n \in Nat : Owed(c2s, n) /\ seen + Unticked + n <= presses
    BY <1>3 DEF PressInv
  <2>2. Owed(c2s', n)
    BY <2>1, OwedEmpty
  <2>3. seen + Unticked' + n <= presses'
    <3>1. \A s, u, v, p, r \in Nat : v <= u /\ s + u + n <= p /\ p <= r => s + v + n <= r
      OBVIOUS
    <3> QED BY <1>1, <2>1, <3>1
  <2> QED BY <2>2, <2>3 DEF PressInv
<1> QED BY <1>2, <1>3

\* A completed INPUT line hands its press from the connection to the input map.
LEMMA PressTaken ==
  ASSUME PlayType, PlayType', PressInv, ServerRecv PROVE PressInv'
<1> DEFINE h == Head(c2s)
           l == Completed(sline, h)
           w == Weight(h)
<1>1. /\ seen \in Nat /\ presses \in Nat /\ seen' = seen /\ presses' = presses
      /\ Unticked \in Nat /\ Unticked' \in Nat /\ spc = "drain" /\ spc' = "drain"
      /\ c2s \in Seq(Halves) /\ c2s # <<>> /\ c2s' = Tail(c2s)
      /\ w \in Nat
  BY PlayAssumption
     DEF PlayType, InputType, NetType, Bounded, Unticked, ServerRecv, clientVars, Weight
<1>2. h \in Halves
  BY <1>1
<1>3. ApplyInput(l)
  BY DEF ServerRecv
<1>4. \/ h.part = "tail" /\ l = h.line /\ l \in Lines
      \/ l.kind \in {"none", "unknown", "mixed"}
  BY <1>2, CompletedFacts
<1>5. CASE cutInput' = TRUE
  BY <1>5 DEF PressInv
<1>6. CASE cutInput' # TRUE /\ cutInput # TRUE
  <2>1. PICK n \in Nat : Owed(c2s, n) /\ seen + Unticked + n <= presses
    BY <1>6 DEF PressInv
  <2>2. n - w \in Nat /\ Owed(c2s', n - w)
    BY <1>1, <2>1, OwedTail
  <2>3. Unticked' <= w \/ Unticked' = Unticked
    <3>1. CASE l.kind = "INPUT"
      <4>1. h.part = "tail" /\ l = h.line /\ sin' = h.line.input
        BY <1>3, <1>4, <3>1 DEF ApplyInput
      <4>2. CASE sin'.pressed = TRUE
        <5>1. w = 1
          BY <3>1, <4>1, <4>2 DEF Weight
        <5>2. Unticked' = 1
          BY <1>1, <4>2 DEF Unticked
        <5> QED BY <5>1, <5>2
      <4>3. CASE sin'.pressed # TRUE
        <5>1. Unticked' = 0
          BY <4>3 DEF Unticked
        <5> HIDE DEF w
        <5> QED BY <1>1, <5>1
      <4> QED BY <4>2, <4>3
    <3>2. CASE l.kind # "INPUT"
      <4>1. sin' = sin
        BY <1>3, <1>6, <3>2 DEF ApplyInput
      <4> QED BY <1>1, <4>1 DEF Unticked
    <3> QED BY <3>1, <3>2
  <2> HIDE DEF w
  <2>4. seen' + Unticked' + (n - w) <= presses'
    <3>1. \A s, u, v, p \in Nat : (v <= w \/ v = u) /\ s + u + n <= p => s + v + (n - w) <= p
      BY <1>1, <2>2
    <3> QED BY <1>1, <2>1, <2>3, <3>1
  <2> QED BY <2>2, <2>4 DEF PressInv
<1>7. CASE cutInput' # TRUE /\ cutInput = TRUE
  <2>1. cutInput' = cutInput
    BY <1>3, <1>7 DEF ApplyInput
  <2> QED BY <1>7, <2>1
<1> QED BY <1>5, <1>6, <1>7

\* A pressed edge is counted when it is sampled, and goes on the way.
LEMMA PressSampled ==
  ASSUME PlayType, PlayType', PressInv, Frame PROVE PressInv'
<1>1. /\ seen \in Nat /\ presses \in Nat /\ presses' \in Nat
      /\ seen' = seen /\ cutInput' = cutInput /\ Unticked' = Unticked /\ Unticked \in Nat
      /\ c2s \in Seq(Halves) /\ cin' \in Input
  BY PlayAssumption
     DEF PlayType, InputType, NetType, Bounded, Unticked, Frame, serverVars
<1>2. presses <= presses'
  BY <1>1 DEF Frame
<1>3. CASE UNCHANGED c2s
  BY <1>1, <1>2, <1>3, PressKept
<1>4. CASE cutInput = TRUE
  BY <1>1, <1>4 DEF PressInv
<1>5. CASE Sends(c2s, c2s', InputOf(cin')) /\ cutInput # TRUE
  <2> DEFINE t == [line |-> InputOf(cin'), part |-> "tail"]
  <2>1. PICK n \in Nat : Owed(c2s, n) /\ seen + Unticked + n <= presses
    BY <1>5 DEF PressInv
  <2>2. InputOf(cin') \in Lines
    BY <1>1, MadeLines
  <2>3. Owed(c2s', n + Weight(t))
    BY <1>1, <1>5, <2>1, <2>2, OwedSent
  <2>4. Weight(t) \in Nat /\ presses + Weight(t) <= presses'
    <3>1. CASE cin'.pressed = TRUE
      <4>1. presses' = presses + 1
        BY <3>1 DEF Frame
      <4> QED BY <1>1, <4>1 DEF Weight
    <3>2. CASE cin'.pressed # TRUE
      <4>1. Weight(t) = 0
        BY <3>2 DEF Weight, InputOf
      <4> QED BY <1>1, <1>2, <4>1
    <3> QED BY <3>1, <3>2
  <2> HIDE DEF t
  <2>5. n + Weight(t) \in Nat /\ seen' + Unticked' + (n + Weight(t)) <= presses'
    BY <1>1, <2>1, <2>4
  <2> QED BY <2>3, <2>5 DEF PressInv
<1> QED BY <1>3, <1>4, <1>5 DEF Frame

\* A tick counts the press that the input map holds, and the next tick clears it.
LEMMA PressTicked ==
  ASSUME PlayType, PlayType', PressInv, Tick PROVE PressInv'
<1>1. /\ seen \in Nat /\ presses \in Nat /\ presses' = presses
      /\ cutInput' = cutInput /\ c2s' = c2s
      /\ spc = "tick" /\ spc' = "send"
      /\ seen' = IF sin.pressed /\ seen <= MaxPresses THEN seen + 1 ELSE seen
  BY PlayAssumption DEF PlayType, InputType, Tick, clientVars, netVars
<1>2. CASE cutInput = TRUE
  BY <1>1, <1>2 DEF PressInv
<1>3. CASE cutInput # TRUE
  <2>1. PICK n \in Nat : Owed(c2s, n) /\ seen + Unticked + n <= presses
    BY <1>3 DEF PressInv
  <2>2. Unticked' = 0 /\ Unticked \in Nat
    BY <1>1 DEF Unticked
  <2>3. sin.pressed => Unticked = 1
    <3>1. sin.pressed \in BOOLEAN
      BY DEF PlayType, InputType, Input
    <3>2. sin.pressed = TRUE => Unticked = 1
      BY <1>1 DEF Unticked
    <3> QED BY <3>1, <3>2
  <2>4. seen' <= seen + Unticked /\ seen' \in Nat
    BY <1>1, <2>2, <2>3
  <2>5. seen' + Unticked' + n <= presses'
    BY <1>1, <2>1, <2>2, <2>4
  <2> QED BY <1>1, <2>1, <2>5 DEF PressInv
<1> QED BY <1>2, <1>3

LEMMA PressStep == PlayType /\ PlayType' /\ PressInv /\ [Next]_vars => PressInv'
<1> SUFFICES ASSUME PlayType, PlayType', PressInv, [Next]_vars PROVE PressInv'
  OBVIOUS
<1>0. Unticked \in Nat /\ presses \in Nat
  BY PlayAssumption DEF Unticked, PlayType, InputType
<1> DEFINE Rest == cutInput' = cutInput /\ seen' = seen /\ presses' = presses
<1>1. CASE UNCHANGED vars
  <2>1. Rest /\ Unticked' = Unticked /\ c2s' = c2s
    BY <1>1 DEF vars, Unticked
  <2> QED BY <1>0, <2>1, PressKept
<1>2. CASE \/ ServerListen \/ Accept \/ SendSnapshot \/ SnapshotSent
           \/ ServerDrained \/ EndTick \/ SendStop \/ ServerExit \/ ServerKilled
  <2>1. Rest /\ c2s' = c2s /\ sin' \in {sin, Neutral}
    BY <1>2 DEF ServerListen, Accept, SendSnapshot, SnapshotSent, ServerDrained, EndTick,
                SendStop, ServerExit, ServerKilled, ServerForgets, clientVars, netVars
  <2>2. spc' \in {"drain", "tick"} => spc \in {"drain", "tick"}
    BY <1>2 DEF ServerListen, Accept, SendSnapshot, SnapshotSent, ServerDrained, EndTick,
                SendStop, ServerExit, ServerKilled
  <2>3. Unticked' <= Unticked
    <3>1. CASE sin' = sin
      BY <2>2, <3>1 DEF Unticked
    <3>2. CASE sin' = Neutral
      <4>1. sin'.pressed = FALSE
        BY <3>2 DEF Neutral
      <4> QED BY <1>0, <4>1 DEF Unticked
    <3> QED BY <2>1, <3>1, <3>2
  <2> QED BY <1>0, <2>1, <2>3, PressKept
<1>3. CASE ClearEdges
  <2>1. Rest /\ c2s' = c2s
    BY <1>3 DEF ClearEdges, clientVars, netVars
  <2>2. sin'.pressed = FALSE
    BY <1>3 DEF ClearEdges, WithoutEdges, PlayType, InputType, Input
  <2>3. Unticked' = 0
    BY <2>2 DEF Unticked
  <2> QED BY <1>0, <2>1, <2>3, PressKept
<1>4. CASE SendXform
  <2>1. Rest /\ c2s' \in {c2s, <<>>} /\ sin' = sin /\ spc' = spc
    BY <1>4 DEF SendXform, clientVars
  <2>2. Unticked' = Unticked
    BY <2>1 DEF Unticked
  <2> QED BY <1>0, <2>1, <2>2, PressKept
<1>5. CASE \/ ClientConnect \/ ClientRefused \/ LoadScene \/ SnapshotCut \/ SnapshotReset
           \/ ClientRecv \/ ClientDrained \/ ClientExit \/ ClientKilled
  <2>1. Rest /\ sin' = sin /\ spc' = spc
    BY <1>5 DEF ClientConnect, ClientRefused, LoadScene, SnapshotCut, SnapshotReset,
                ClientRecv, ClientDrained, ClientExit, ClientKilled, serverVars
  <2>2. c2s' \in {c2s, <<>>}
    BY <1>5, ClosesFacts
       DEF ClientConnect, ClientRefused, LoadScene, SnapshotCut, SnapshotReset,
           ClientRecv, ClientDrained, ClientExit, ClientKilled, netVars
  <2>3. Unticked' = Unticked
    BY <2>1 DEF Unticked
  <2> QED BY <1>0, <2>1, <2>2, <2>3, PressKept
<1> QED BY <1>1, <1>2, <1>3, <1>4, <1>5, PressTaken, PressSampled, PressTicked
      DEF Next, ServerStep, ClientStep

LEMMA PressInit == Init => PressInv
<1> SUFFICES ASSUME Init PROVE PressInv
  OBVIOUS
<1>1. c2s = <<>> /\ seen = 0 /\ presses = 0 /\ Unticked = 0
  BY DEF Init, Unticked
<1>2. Owed(c2s, 0)
  BY <1>1, OwedEmpty
<1> QED BY <1>1, <1>2 DEF PressInv

(* Unless an INPUT line was cut, the scripts see a press in no more ticks than *)
(* the player pressed the key: however recv cuts the lines and however late    *)
(* they come, a tick clears an edge before the next drain can bring another.   *)
THEOREM PressesSeenOnce == Spec => []PressSeenOnce
<1>1. PlayType /\ PressInv => PressSeenOnce
  <2> SUFFICES ASSUME PlayType, cutInput # TRUE, PressInv PROVE seen <= presses
    BY DEF PressSeenOnce, PlayType, ControlType
  <2>1. PICK n \in Nat : seen + Unticked + n <= presses
    BY DEF PressInv
  <2>2. seen \in Nat /\ presses \in Nat /\ Unticked \in Nat
    BY PlayAssumption DEF PlayType, InputType, Unticked
  <2> QED BY <2>1, <2>2
<1> QED BY <1>1, InitType, PressInit, PlayTypeStep, PressStep, PTL DEF Spec

-----------------------------------------------------------------------------
(* Positions *)

\* A line that tells of no position that is newer than p
Fresh(l, p) == l.kind \in {"ENTITY", "XFORM"} => l.at <= p[l.id]

TailOf(l) == [line |-> l, part |-> "tail"]

\* What is on the way is fresh, and no line of it is cut.
Orderly(q, p) ==
  \A i \in 1..Len(q) :
    /\ Fresh(q[i].line, p)
    /\ q[i].part = "head" => i < Len(q) /\ q[i + 1] = TailOf(q[i].line)

\* The rest of the line that the buffer holds comes next.
Follows(q, buf, p) ==
  \/ buf = NoLine
  \/ buf \in Lines /\ Fresh(buf, p) /\ (q # <<>> => q[1] = TailOf(buf))

LEMMA FreshLater ==
  ASSUME NEW p \in [Ids -> Pos], NEW r \in [Ids -> Pos], \A e \in Ids : p[e] <= r[e],
         NEW l \in Lines, Fresh(l, p)
  PROVE  Fresh(l, r)
<1>1. CASE l.kind \in {"ENTITY", "XFORM"}
  <2>1. l.id \in Ids /\ l.at \in Pos /\ l.at <= p[l.id]
    BY <1>1, LineFacts DEF Fresh
  <2>2. p[l.id] \in Int /\ r[l.id] \in Int /\ l.at \in Int /\ p[l.id] <= r[l.id]
    BY <2>1 DEF Pos
  <2>3. l.at <= r[l.id]
    BY <2>1, <2>2
  <2> QED BY <2>3 DEF Fresh
<1> QED BY <1>1 DEF Fresh

LEMMA OrderlyLater ==
  ASSUME NEW p \in [Ids -> Pos], NEW r \in [Ids -> Pos], \A e \in Ids : p[e] <= r[e],
         NEW q \in Seq(Halves), Orderly(q, p)
  PROVE  Orderly(q, r)
<1>1. ASSUME NEW i \in 1..Len(q) PROVE Fresh(q[i].line, r)
  <2>1. q[i] \in Halves
    OBVIOUS
  <2>2. q[i].line \in Lines /\ Fresh(q[i].line, p)
    BY <2>1 DEF Orderly, Halves
  <2> QED BY <2>2, FreshLater
<1> QED BY <1>1 DEF Orderly

LEMMA OrderlySent ==
  ASSUME NEW p, NEW q \in Seq(Halves), NEW r, NEW l \in Lines, Orderly(q, p), Fresh(l, p),
         Sends(q, r, l), cuts \in Nat, cuts' = 0
  PROVE  /\ Orderly(r, p)
         /\ q # <<>> => r # <<>> /\ r[1] = q[1]
<1>1. Len(q) \in Nat /\ (q # <<>> => Len(q) >= 1)
  OBVIOUS
<1>2. CASE r = q
  BY <1>2
<1>3. CASE /\ r \in Seq(Halves) /\ Len(r) = Len(q) + 2
           /\ \A i \in 1..Len(q) : r[i] = q[i]
           /\ r[Len(q) + 1] = [line |-> l, part |-> "head"]
           /\ r[Len(q) + 2] = [line |-> l, part |-> "tail"]
  <2> DEFINE m == Len(q)
  <2>1. ASSUME NEW i \in 1..Len(r)
        PROVE  /\ Fresh(r[i].line, p)
               /\ r[i].part = "head" => i < Len(r) /\ r[i + 1] = TailOf(r[i].line)
    <3>1. CASE i \in 1..m
      <4>1. r[i] = q[i] /\ i < Len(r)
        BY <1>1, <1>3, <3>1
      <4>2. /\ Fresh(q[i].line, p)
            /\ q[i].part = "head" => i < m /\ q[i + 1] = TailOf(q[i].line)
        BY <3>1 DEF Orderly
      <4>3. i < m => r[i + 1] = q[i + 1]
        BY <1>1, <1>3, <3>1
      <4> QED BY <4>1, <4>2, <4>3
    <3>2. CASE i = m + 1
      <4>1. r[i] = [line |-> l, part |-> "head"] /\ i < Len(r) /\ i + 1 = m + 2
        BY <1>1, <1>3, <3>2
      <4>2. r[i + 1] = TailOf(l)
        BY <1>3, <4>1 DEF TailOf
      <4> QED BY <4>1, <4>2
    <3>3. CASE i = m + 2
      BY <1>3, <3>3
    <3> QED BY <1>1, <1>3, <3>1, <3>2, <3>3
  <2>2. q # <<>> => r # <<>> /\ r[1] = q[1]
    BY <1>1, <1>3
  <2> QED BY <2>1, <2>2 DEF Orderly
<1>4. CASE cuts' = cuts + 1
  BY <1>4
<1> QED BY <1>2, <1>3, <1>4, SendsFacts

LEMMA OrderlyRest ==
  ASSUME NEW p, NEW q \in Seq(Halves), Orderly(q, p), NEW n \in 1..(Len(q) + 1)
  PROVE  Orderly(SubSeq(q, n, Len(q)), p)
<1> DEFINE r == SubSeq(q, n, Len(q))
           k == Len(q)
<1>1. /\ k \in Nat /\ n \in 1..(k + 1)
      /\ Len(r) = IF n <= k THEN k - n + 1 ELSE 0
      /\ \A i \in 1..(k - n + 1) : r[i] = q[n + i - 1]
  BY SubSeqProperties
<1> HIDE DEF r
<1>2. ASSUME NEW i \in 1..Len(r)
      PROVE  /\ Fresh(r[i].line, p)
             /\ r[i].part = "head" => i < Len(r) /\ r[i + 1] = TailOf(r[i].line)
  <2> HIDE DEF k
  <2>1. /\ n <= k /\ Len(r) = k - n + 1 /\ n + i - 1 \in 1..k /\ i \in 1..(k - n + 1)
        /\ n + i - 1 < k => /\ i < Len(r) /\ i + 1 \in 1..(k - n + 1)
                            /\ n + (i + 1) - 1 = (n + i - 1) + 1
    BY <1>1
  <2>2. r[i] = q[n + i - 1] /\ (n + i - 1 < k => r[i + 1] = q[(n + i - 1) + 1])
    BY <1>1, <2>1, SMTT(30)
  <2>3. /\ Fresh(q[n + i - 1].line, p)
        /\ q[n + i - 1].part = "head"
             => n + i - 1 < k /\ q[(n + i - 1) + 1] = TailOf(q[n + i - 1].line)
    BY <2>1 DEF Orderly, k
  <2> QED BY <2>1, <2>2, <2>3
<1> QED BY <1>2 DEF Orderly, r

LEMMA TailIsRest ==
  ASSUME NEW q \in Seq(Halves), q # <<>>
  PROVE  /\ Tail(q) = SubSeq(q, 2, Len(q)) /\ 2 \in 1..(Len(q) + 1)
         /\ Tail(q) # <<>> => Len(q) >= 2 /\ Tail(q)[1] = q[2]
         /\ Tail(q) = <<>> => Len(q) = 1
<1>1. Len(q) \in Nat /\ Len(q) >= 1
  OBVIOUS
<1>2. Tail(q) = SubSeq(q, 2, Len(q))
  BY TailIsSubSeq
<1>3. Len(Tail(q)) = Len(q) - 1 /\ \A i \in 1..Len(Tail(q)) : Tail(q)[i] = q[i + 1]
  BY HeadTailProperties
<1>4. Tail(q) # <<>> => Len(Tail(q)) >= 1
  OBVIOUS
<1>5. Tail(q) # <<>> => Len(q) >= 2 /\ Tail(q)[1] = q[2]
  BY <1>1, <1>3, <1>4
<1>6. Tail(q) = <<>> => Len(q) = 1
  BY <1>1, <1>3
<1> QED BY <1>1, <1>2, <1>5, <1>6

\* A receiver completes a line that was sent, or the end of one whose
\* beginning it has thrown away.
LEMMA Taken ==
  ASSUME NEW p, NEW q \in Seq(Halves), q # <<>>, NEW buf, Orderly(q, p), Follows(q, buf, p)
  PROVE  /\ Orderly(Tail(q), p)
         /\ Follows(Tail(q), Pending(buf, Head(q)), p)
         /\ Pending(buf, Head(q)) # NoLine => Tail(q) # <<>>
         /\ LET l == Completed(buf, Head(q))
            IN  (l \in Lines /\ Fresh(l, p)) \/ l.kind \in {"none", "unknown"}
<1> DEFINE h == Head(q)
<1>1. h = q[1] /\ h \in Halves /\ 1 \in 1..Len(q)
  OBVIOUS
<1>2. h.line \in Lines /\ h.part \in {"head", "tail"} /\ h.line # NoLine
  <2>1. h.line \in Lines /\ h.part \in {"head", "tail"}
    BY <1>1 DEF Halves
  <2> QED BY <2>1, LineFacts
<1>3. Fresh(h.line, p) /\ (h.part = "head" => 1 < Len(q) /\ q[2] = TailOf(h.line))
  BY <1>1 DEF Orderly
<1>4. Orderly(Tail(q), p)
  BY TailIsRest, OrderlyRest
<1>5. buf # NoLine => h.part = "tail" /\ h.line = buf
  BY <1>1 DEF Follows, TailOf
<1> HIDE DEF h
<1>6. CASE h.part = "head"
  <2>1. buf = NoLine /\ Pending(buf, h) = h.line /\ Completed(buf, h) = NoLine
    BY <1>5, <1>6 DEF Pending, Completed
  <2>2. Tail(q) # <<>> /\ Tail(q)[1] = TailOf(h.line)
    BY <1>3, <1>6, TailIsRest
  <2>3. Follows(Tail(q), h.line, p)
    BY <1>2, <1>3, <2>2 DEF Follows
  <2>4. NoLine.kind = "none"
    BY DEF NoLine
  <2> QED BY <1>4, <2>1, <2>2, <2>3, <2>4 DEF h
<1>7. CASE h.part = "tail"
  <2>1. Pending(buf, h) = NoLine
    BY <1>7 DEF Pending
  <2>2. Completed(buf, h) = h.line \/ Completed(buf, h) = Unknown
    <3>1. CASE buf = NoLine
      BY <1>2, <1>7, <3>1 DEF Completed, NoLine
    <3>2. CASE buf # NoLine
      BY <1>5, <1>7, <3>2 DEF Completed
    <3> QED BY <3>1, <3>2
  <2>3. Unknown.kind = "unknown"
    BY DEF Unknown
  <2> QED BY <1>2, <1>3, <1>4, <2>1, <2>2, <2>3 DEF h, Follows
<1> QED BY <1>2, <1>6, <1>7

\* The client's scene c shows nothing that is newer than p, but what its own
\* scripts have placed.
Shown(c, p) == \A e \in Ids : c[e] \in 0..p[e] \cup {Absent, Scripted}

Moved == \A e \in Ids : pos[e] <= moves
Ended == s2cEnd # "open" => spc = "exited"
SendsFresh == \A i \in 1..Len(outbox) : Fresh(outbox[i], pos)
WayFresh ==
  cuts = 0 => /\ Orderly(s2c, pos) /\ Follows(s2c, cline, pos)
              /\ cline # NoLine /\ s2c = <<>> => spc = "exited"
              /\ Shown(cpos, pos)

FreshInv == Moved /\ Ended /\ SendsFresh /\ WayFresh

\* A step that sends and reads nothing, or loses all that is on the way
LEMMA WaySame ==
  ASSUME WayFresh, UNCHANGED <<pos, cpos, cline, cuts>>, spc = "exited" => spc' = "exited",
         s2c' = s2c \/ (s2c' = <<>> /\ spc' = "exited")
  PROVE  WayFresh'
<1> SUFFICES ASSUME cuts' = 0
             PROVE  /\ Orderly(s2c', pos) /\ Follows(s2c', cline, pos)
                    /\ cline # NoLine /\ s2c' = <<>> => spc' = "exited"
                    /\ Shown(cpos, pos)
  BY DEF WayFresh
<1>1. /\ Orderly(s2c, pos) /\ Follows(s2c, cline, pos)
      /\ cline # NoLine /\ s2c = <<>> => spc = "exited"
      /\ Shown(cpos, pos)
  BY DEF WayFresh
<1>2. CASE s2c' = s2c
  BY <1>1, <1>2
<1>3. CASE s2c' = <<>> /\ spc' = "exited"
  <2>1. Orderly(<<>>, pos) /\ Follows(<<>>, cline, pos)
    BY <1>1 DEF Orderly, Follows
  <2> QED BY <1>1, <1>3, <2>1
<1> QED BY <1>2, <1>3

\* A step of the server that sends line l
LEMMA WaySent ==
  ASSUME PlayType, WayFresh, NEW l \in Lines, Fresh(l, pos), Sends(s2c, s2c', l),
         UNCHANGED <<pos, cpos, cline>>, spc # "exited"
  PROVE  WayFresh'
<1>1. s2c \in Seq(Halves) /\ cuts \in Nat
  BY PlayAssumption DEF PlayType, NetType, Bounded
<1>2. CASE cuts' # 0
  BY <1>2 DEF WayFresh
<1>3. CASE cuts' = 0
  <2>1. cuts = 0
    BY <1>1, <1>3 DEF Sends
  <2>2. /\ Orderly(s2c, pos) /\ Follows(s2c, cline, pos) /\ Shown(cpos, pos)
        /\ cline = NoLine \/ s2c # <<>>
    BY <2>1 DEF WayFresh
  <2>3. Orderly(s2c', pos) /\ (s2c # <<>> => s2c' # <<>> /\ s2c'[1] = s2c[1])
    BY <1>1, <1>3, <2>2, OrderlySent
  <2>4. Follows(s2c', cline, pos) /\ (cline = NoLine \/ s2c' # <<>>)
    BY <2>2, <2>3 DEF Follows
  <2> QED BY <2>2, <2>3, <2>4 DEF WayFresh
<1> QED BY <1>2, <1>3

\* What the client does with a fresh line
LEMMA AppliedShown ==
  ASSUME PlayType, Shown(cpos, pos), NEW l,
         (l \in Lines /\ Fresh(l, pos)) \/ l.kind \in {"none", "unknown"},
         ApplyRuntime(l) \/ cpos' = Applied(l)
  PROVE  Shown(cpos', pos)
<1>1. /\ pos \in [Ids -> Pos] /\ cpos \in [Ids -> Pos \cup {Absent, Garbage, Scripted}]
  BY DEF PlayType, SceneType
<1>2. l.kind \in Kinds \cup {"none", "unknown"}
  BY LineFacts
<1>3. l.kind \in {"ENTITY", "XFORM"}
        => l.id \in Ids /\ l.at \in 0..pos[l.id]
  <2>1. l.kind \in {"ENTITY", "XFORM"}
          => l.id \in Ids /\ l.at \in Pos /\ l.at <= pos[l.id]
    BY LineFacts DEF Fresh
  <2> QED BY <1>1, <2>1, PlayAssumption DEF Pos
<1>4. cpos' = Applied(l)
  BY <1>2 DEF ApplyRuntime, Kinds
<1>5. CASE l.kind = "SCENE_BEGIN"
  BY <1>1, <1>4, <1>5 DEF Applied, Shown
<1>6. CASE l.kind = "ENTITY"
  <2>1. cpos' = [cpos EXCEPT ![l.id] = l.at]
    BY <1>4, <1>6 DEF Applied
  <2>2. ASSUME NEW e \in Ids PROVE cpos'[e] \in 0..pos[e] \cup {Absent, Scripted}
    BY <1>1, <1>3, <1>6, <2>1 DEF Shown
  <2> QED BY <2>2 DEF Shown
<1>7. CASE l.kind = "XFORM"
  <2>1. cpos' = cpos \/ cpos' = [cpos EXCEPT ![l.id] = IF @ = Absent THEN @ ELSE l.at]
    BY <1>4, <1>7 DEF Applied
  <2>2. ASSUME NEW e \in Ids PROVE cpos'[e] \in 0..pos[e] \cup {Absent, Scripted}
    BY <1>1, <1>3, <1>7, <2>1 DEF Shown
  <2> QED BY <2>2 DEF Shown
<1>8. CASE l.kind \notin {"SCENE_BEGIN", "ENTITY", "XFORM"}
  BY <1>4, <1>8 DEF Applied
<1> QED BY <1>5, <1>6, <1>7, <1>8

\* A half that the client reads
LEMMA WayRead ==
  ASSUME PlayType, WayFresh, LoadScene \/ ClientRecv PROVE WayFresh'
<1> USE DEF serverVars
<1> DEFINE h == Head(s2c)
           l == Completed(cline, h)
<1>1. s2c \in Seq(Halves) /\ s2c # <<>> /\ UNCHANGED <<pos, cuts>>
  BY DEF PlayType, NetType, Bounded, LoadScene, ClientRecv
<1>2. CASE cuts' # 0
  BY <1>2 DEF WayFresh
<1>3. CASE cuts' = 0
  <2>1. Orderly(s2c, pos) /\ Follows(s2c, cline, pos) /\ Shown(cpos, pos)
    BY <1>1, <1>3 DEF WayFresh
  <2>2. /\ Orderly(Tail(s2c), pos)
        /\ Follows(Tail(s2c), Pending(cline, h), pos)
        /\ Pending(cline, h) # NoLine => Tail(s2c) # <<>>
        /\ (l \in Lines /\ Fresh(l, pos)) \/ l.kind \in {"none", "unknown"}
    BY <1>1, <2>1, Taken
  <2>3. ApplyRuntime(l) \/ cpos' = Applied(l)
    BY DEF LoadScene, ClientRecv
  <2> HIDE DEF l
  <2>4. Shown(cpos', pos)
    BY <2>1, <2>2, <2>3, AppliedShown
  <2>5. CASE s2c' = Tail(s2c) /\ cline' = Pending(cline, h)
    BY <1>1, <2>2, <2>4, <2>5 DEF WayFresh
  <2>6. ASSUME NEW n \in 2..(Len(s2c) + 1), s2c' = SubSeq(s2c, n, Len(s2c)), cline' = NoLine
        PROVE  WayFresh'
    <3>1. n \in 1..(Len(s2c) + 1)
      OBVIOUS
    <3>2. Orderly(s2c', pos)
      BY <1>1, <2>1, <2>6, <3>1, OrderlyRest
    <3>3. Follows(s2c', cline', pos)
      BY <2>6 DEF Follows
    <3> QED BY <1>1, <2>4, <2>6, <3>2, <3>3 DEF WayFresh
  <2> QED BY <2>5, <2>6 DEF LoadScene, ClientRecv
<1> QED BY <1>2, <1>3

\* A tick moves an entity only on, so that what was fresh stays so.
LEMMA FreshTick ==
  ASSUME PlayType, PlayType', FreshInv, Tick PROVE FreshInv'
<1> USE DEF clientVars, netVars
<1>0. /\ Moved /\ Ended /\ SendsFresh /\ WayFresh
      /\ pos \in [Ids -> Pos] /\ pos' \in [Ids -> Pos] /\ moves \in Nat
      /\ cpos \in [Ids -> Pos \cup {Absent, Garbage, Scripted}] /\ s2c \in Seq(Halves)
  BY PlayAssumption DEF FreshInv, PlayType, SceneType, NetType, Bounded
<1>1. /\ UNCHANGED <<s2c, s2cEnd, cline, cpos, cuts>> /\ spc = "tick" /\ spc' = "send"
      /\ outbox' = Xforms(pos')
      /\ \/ UNCHANGED <<pos, moves>>
         \/ moves' = moves + 1 /\ \E e \in Ids : pos' = [pos EXCEPT ![e] = moves + 1]
  BY DEF Tick
<1>2. \A e \in Ids : pos[e] <= pos'[e] /\ pos'[e] <= moves' /\ pos[e] \in Nat /\ pos'[e] \in Nat
  <2>1. \A e \in Ids : pos[e] \in Nat /\ pos'[e] \in Nat /\ pos[e] <= moves
    BY <1>0 DEF Moved, Pos
  <2>2. CASE UNCHANGED <<pos, moves>>
    BY <2>1, <2>2
  <2>3. ASSUME moves' = moves + 1, NEW d \in Ids, pos' = [pos EXCEPT ![d] = moves + 1],
               NEW e \in Ids
        PROVE  pos[e] <= pos'[e] /\ pos'[e] <= moves'
    BY <1>0, <2>1, <2>3
  <2> QED BY <1>1, <2>1, <2>2, <2>3
<1>3. Moved'
  BY <1>2 DEF Moved
<1>4. Ended'
  BY <1>0, <1>1 DEF Ended
<1>5. SendsFresh'
  <2>1. ASSUME NEW i \in 1..Len(outbox') PROVE Fresh(outbox'[i], pos')
    <3>1. i \in 1..Cardinality(Ids) /\ outbox'[i] = Xform(SomeOrder[i], pos'[SomeOrder[i]])
      BY <1>0, <1>1, OutboxFacts
    <3>2. SomeOrder[i] \in Ids
      BY <3>1, OrderFacts
    <3>3. pos'[SomeOrder[i]] <= pos'[SomeOrder[i]]
      BY <1>2, <3>2
    <3> QED BY <3>1, <3>3 DEF Fresh, Xform
  <2> QED BY <2>1 DEF SendsFresh
<1>6. WayFresh'
  <2> SUFFICES ASSUME cuts = 0 PROVE WayFresh'
    BY <1>1 DEF WayFresh
  <2>1. /\ Orderly(s2c, pos) /\ Follows(s2c, cline, pos)
        /\ cline # NoLine /\ s2c = <<>> => spc = "exited"
        /\ Shown(cpos, pos)
    BY <1>0 DEF WayFresh
  <2>2. Orderly(s2c, pos')
    BY <1>0, <1>2, <2>1, OrderlyLater
  <2>3. Follows(s2c, cline, pos')
    BY <1>0, <1>2, <2>1, FreshLater DEF Follows
  <2>4. Shown(cpos, pos')
    <3>1. ASSUME NEW e \in Ids PROVE cpos[e] \in 0..pos'[e] \cup {Absent, Scripted}
      <4>1. cpos[e] \in 0..pos[e] \cup {Absent, Scripted} /\ pos[e] <= pos'[e]
        BY <1>2, <2>1 DEF Shown
      <4>2. pos[e] \in Int /\ pos'[e] \in Int
        BY <1>2
      <4> QED BY <4>1, <4>2
    <3> QED BY <3>1 DEF Shown
  <2> QED BY <1>1, <2>1, <2>2, <2>3, <2>4 DEF WayFresh
<1> QED BY <1>3, <1>4, <1>5, <1>6 DEF FreshInv

\* What the server sends is the head of its outbox.
LEMMA FreshSends ==
  ASSUME PlayType, FreshInv, SendSnapshot \/ SendXform PROVE FreshInv'
<1> USE DEF clientVars
<1>0. /\ Moved /\ Ended /\ SendsFresh /\ WayFresh
      /\ outbox \in Seq(Lines) /\ outbox # <<>> /\ outbox' = Tail(outbox)
      /\ UNCHANGED <<spc, pos, moves, s2cEnd, cline, cpos>> /\ spc \in {"snapshot", "send"}
  BY DEF FreshInv, PlayType, SceneType, SendSnapshot, SendXform
<1>1. /\ Head(outbox) = outbox[1] /\ 1 \in 1..Len(outbox) /\ Head(outbox) \in Lines
      /\ \A i \in 1..Len(Tail(outbox)) : Tail(outbox)[i] = outbox[i + 1]
                                         /\ i + 1 \in 1..Len(outbox)
  BY <1>0
<1>2. Fresh(Head(outbox), pos)
  BY <1>0, <1>1 DEF SendsFresh
<1>3. SendsFresh'
  BY <1>0, <1>1 DEF SendsFresh
<1>4. Moved' /\ Ended'
  BY <1>0 DEF Moved, Ended
<1>5. CASE UNCHANGED <<s2c, cuts>>
  <2>1. WayFresh'
    BY <1>0, <1>5, WaySame
  <2> QED BY <1>3, <1>4, <2>1 DEF FreshInv
<1>6. CASE Sends(s2c, s2c', Head(outbox))
  <2>1. WayFresh'
    BY <1>0, <1>1, <1>2, <1>6, WaySent
  <2> QED BY <1>3, <1>4, <2>1 DEF FreshInv
<1>7. UNCHANGED <<s2c, cuts>> \/ Sends(s2c, s2c', Head(outbox))
  BY SnapshotSendType DEF SendSnapshot, SendXform
<1> QED BY <1>5, <1>6, <1>7

LEMMA FreshServer ==
  ASSUME PlayType, PlayType', FreshInv, ServerStep \/ ServerKilled PROVE FreshInv'
<1> USE DEF clientVars, netVars
<1>0. Moved /\ Ended /\ SendsFresh /\ WayFresh
  BY DEF FreshInv
<1>1. CASE ServerListen \/ SnapshotSent \/ ClearEdges \/ ServerRecv \/ ServerDrained \/ EndTick
  <2>1. /\ UNCHANGED <<pos, cpos, cline, cuts, s2c, s2cEnd, moves, outbox>>
        /\ spc # "exited" /\ spc' # "exited"
    BY <1>1 DEF ServerListen, SnapshotSent, ClearEdges, ServerRecv, ServerDrained, EndTick
  <2>2. WayFresh'
    BY <1>0, <2>1, WaySame
  <2> QED BY <1>0, <2>1, <2>2 DEF FreshInv, Moved, Ended, SendsFresh
<1>2. CASE Accept
  <2>1. /\ UNCHANGED <<pos, cpos, cline, cuts, s2c, s2cEnd, moves>>
        /\ spc # "exited" /\ spc' # "exited" /\ outbox' = Snapshot
        /\ pos \in [Ids -> Pos]
    BY <1>2 DEF Accept, PlayType, SceneType
  <2>2. WayFresh'
    BY <1>0, <2>1, WaySame
  <2>3. ASSUME NEW i \in 1..Len(outbox') PROVE Fresh(outbox'[i], pos)
    <3>1. i \in 1..SnapLength /\ outbox'[i] = SnapLine(pos, i)
      BY <2>1, SnapshotFacts
    <3> DEFINE l == SnapLine(pos, i)
    <3>2. l.kind = CASE i = 1 -> "WELCOME"
                     [] i = 2 -> "SCENE_BEGIN"
                     [] i \in 3..(SnapLength - 1) -> "ENTITY"
                     [] OTHER -> "SCENE_END"
      BY <2>1, <3>1, SnapLines
    <3>3. i \in 3..(SnapLength - 1) => /\ i - 2 \in 1..Cardinality(Ids)
                                       /\ l.id = SomeOrder[i - 2]
                                       /\ l.at = pos[SomeOrder[i - 2]]
      BY <2>1, <3>1, SnapLines
    <3> HIDE DEF l
    <3>4. CASE i \in 3..(SnapLength - 1)
      <4>1. SomeOrder[i - 2] \in Ids
        BY <3>3, <3>4, OrderFacts
      <4>2. pos[SomeOrder[i - 2]] \in Int
        BY <2>1, <4>1 DEF Pos
      <4>3. l.at <= pos[l.id]
        BY <3>3, <3>4, <4>2
      <4> QED BY <3>1, <4>3 DEF Fresh, l
    <3>5. CASE i \notin 3..(SnapLength - 1)
      <4>1. l.kind \notin {"ENTITY", "XFORM"}
        BY <3>2, <3>5
      <4> QED BY <3>1, <4>1 DEF Fresh, l
    <3> QED BY <3>4, <3>5
  <2>4. SendsFresh'
    BY <2>1, <2>3 DEF SendsFresh
  <2> QED BY <1>0, <2>1, <2>2, <2>4 DEF FreshInv, Moved, Ended
<1>3. CASE SendStop
  <2>1. /\ UNCHANGED <<pos, cpos, cline, s2cEnd, moves, outbox>>
        /\ spc = "clear" /\ spc' = "close"
        /\ UNCHANGED <<s2c, cuts>> \/ Sends(s2c, s2c', Plain("STOP"))
    BY <1>3 DEF SendStop
  <2>2. Plain("STOP") \in Lines /\ Fresh(Plain("STOP"), pos)
    BY MadeLines DEF Fresh, Plain
  <2>3. WayFresh'
    <3>1. CASE UNCHANGED <<s2c, cuts>>
      BY <1>0, <2>1, <3>1, WaySame
    <3>2. CASE Sends(s2c, s2c', Plain("STOP"))
      BY <1>0, <2>1, <2>2, <3>2, WaySent
    <3> QED BY <2>1, <3>1, <3>2
  <2> QED BY <1>0, <2>1, <2>3 DEF FreshInv, Moved, Ended, SendsFresh
<1>4. CASE ServerExit \/ ServerKilled
  <2>1. /\ UNCHANGED <<pos, cpos, cline, cuts, moves>> /\ spc' = "exited"
        /\ s2c' \in {s2c, <<>>} /\ outbox' = <<>>
    BY <1>4, ClosesFacts DEF ServerExit, ServerKilled, ServerForgets
  <2>2. WayFresh'
    BY <1>0, <2>1, WaySame
  <2> QED BY <1>0, <2>1, <2>2 DEF FreshInv, Moved, Ended, SendsFresh
<1> QED BY <1>1, <1>2, <1>3, <1>4, FreshTick, FreshSends DEF ServerStep

LEMMA FreshClient ==
  ASSUME PlayType, PlayType', FreshInv, ClientStep \/ ClientKilled PROVE FreshInv'
<1> USE DEF serverVars, netVars
<1>0. Moved /\ Ended /\ SendsFresh /\ WayFresh
  BY DEF FreshInv
<1>1. CASE \/ ClientConnect \/ ClientRefused \/ SnapshotCut \/ SnapshotReset
           \/ ClientExit \/ ClientKilled
  <2>1. UNCHANGED <<pos, cpos, cline, cuts, moves, outbox, spc, s2c, s2cEnd>>
    BY <1>1 DEF ClientConnect, ClientRefused, SnapshotCut, SnapshotReset,
                ClientExit, ClientKilled
  <2>2. WayFresh'
    BY <1>0, <2>1, WaySame
  <2> QED BY <1>0, <2>1, <2>2 DEF FreshInv, Moved, Ended, SendsFresh
<1>4. CASE ClientDrained
  <2>1. UNCHANGED <<pos, cline, cuts, moves, outbox, spc, s2c, s2cEnd>>
    BY <1>4 DEF ClientDrained
  <2>2. \A e \in Ids : cpos'[e] = cpos[e] \/ cpos'[e] = Scripted
    BY <1>4, PlacedFacts DEF ClientDrained, PlayType, SceneType
  <2>3. Shown(cpos, pos) => Shown(cpos', pos)
    BY <2>2 DEF Shown
  <2>4. WayFresh'
    BY <1>0, <2>1, <2>3 DEF WayFresh
  <2> QED BY <1>0, <2>1, <2>4 DEF FreshInv, Moved, Ended, SendsFresh
<1>2. CASE Frame
  <2>1. UNCHANGED <<pos, cpos, cline, moves, outbox, spc>>
    BY <1>2 DEF Frame
  <2>2. CASE /\ s2cEnd = "open" /\ Sends(c2s, c2s', InputOf(cin')) /\ UNCHANGED <<s2c, s2cEnd>>
    <3>1. WayFresh'
      <4>1. CASE cuts' = cuts
        BY <1>0, <2>1, <2>2, <4>1, WaySame
      <4>2. CASE cuts' = cuts + 1
        <5>1. cuts \in Nat
          BY PlayAssumption DEF PlayType, NetType
        <5>2. cuts' # 0
          BY <4>2, <5>1
        <5> QED BY <5>2 DEF WayFresh
      <4> QED BY <2>2, <4>1, <4>2 DEF Sends
    <3> QED BY <1>0, <2>1, <2>2, <3>1 DEF FreshInv, Moved, Ended, SendsFresh
  <2>3. CASE s2cEnd # "open" /\ s2c' \in {s2c, <<>>} /\ UNCHANGED cuts
    <3>1. spc = "exited"
      BY <1>0, <2>3 DEF Ended
    <3>2. WayFresh'
      BY <1>0, <2>1, <2>3, <3>1, WaySame
    <3> QED BY <1>0, <2>1, <3>1, <3>2 DEF FreshInv, Moved, Ended, SendsFresh
  <2> QED BY <1>2, <2>2, <2>3 DEF Frame
<1>3. CASE LoadScene \/ ClientRecv
  <2>1. UNCHANGED <<pos, moves, outbox, spc, s2cEnd>>
    BY <1>3 DEF LoadScene, ClientRecv
  <2>2. WayFresh'
    BY <1>0, <1>3, WayRead
  <2> QED BY <1>0, <2>1, <2>2 DEF FreshInv, Moved, Ended, SendsFresh
<1> QED BY <1>1, <1>2, <1>3, <1>4 DEF ClientStep

LEMMA FreshStep == PlayType /\ PlayType' /\ FreshInv /\ [Next]_vars => FreshInv'
<1>1. CASE UNCHANGED vars
  BY <1>1 DEF vars, FreshInv, Moved, Ended, SendsFresh, WayFresh
<1> QED BY <1>1, FreshServer, FreshClient DEF Next

LEMMA FreshInit == Init => FreshInv
<1> SUFFICES ASSUME Init PROVE FreshInv
  OBVIOUS
<1>1. /\ s2c = <<>> /\ outbox = <<>> /\ cline = NoLine /\ s2cEnd = "open" /\ moves = 0
      /\ \A e \in Ids : pos[e] = 0 /\ cpos[e] = Absent
  BY DEF Init
<1>2. Moved /\ Ended /\ SendsFresh
  BY <1>1 DEF Moved, Ended, SendsFresh
<1>3. Orderly(s2c, pos) /\ Follows(s2c, cline, pos)
  BY <1>1 DEF Orderly, Follows
<1>4. Shown(cpos, pos)
  BY <1>1 DEF Shown
<1> QED BY <1>1, <1>2, <1>3, <1>4 DEF FreshInv, WayFresh

(* Unless a line was cut, the client shows no position but one that the server *)
(* had by then or that a script of its own has set, wherever recv cuts the     *)
(* lines, whatever of the first tick LoadScene dropped with the chunk of       *)
(* SCENE_END, whatever was lost and however often the scripts interfere.       *)
THEOREM ShownWasSent == Spec => []NothingInvented
<1>1. FreshInv => NothingInvented
  BY DEF FreshInv, WayFresh, Shown, NothingInvented
<1> QED BY <1>1, InitType, FreshInit, PlayTypeStep, FreshStep, PTL DEF Spec

-----------------------------------------------------------------------------
(* The snapshot *)

\* Nothing moves before the first tick.
Still == [e \in Ids |-> 0]

\* The halves of the snapshot, of which the client has read c: those that are on
\* the way are the next ones, each at its place,
InPlace(q, c) ==
  \A k \in 1..SnapLength :
    /\ 2 * k - 1 > c /\ 2 * k - 1 - c <= Len(q)
         => q[2 * k - 1 - c] = [line |-> SnapLine(Still, k), part |-> "head"]
    /\ 2 * k > c /\ 2 * k - c <= Len(q)
         => q[2 * k - c] = [line |-> SnapLine(Still, k), part |-> "tail"]

\* what comes after them is of the ticks or the end,
OfTicks == {"XFORM", "STOP"}
Beyond(q, c) == \A i \in 1..Len(q) : i + c > 2 * SnapLength => q[i].line.kind \in OfTicks

\* the buffer holds the line of which c is the first half,
Buffered(buf, c) ==
  \/ \E k \in 1..SnapLength : c = 2 * k - 1 /\ buf = SnapLine(Still, k)
  \/ \E k \in 0..(SnapLength - 1) : c = 2 * k /\ buf = NoLine

\* and the client knows the entities whose lines it has read.
Known(cp, c) ==
  \A k \in 3..(SnapLength - 1) : 2 * k <= c => cp[SomeOrder[k - 2]] # Absent

\* The server has sent a whole number of lines, and has the others.
ToCome(c) ==
  /\ spc = "listen" => c = 0 /\ s2c = <<>>
  /\ spc = "snapshot" =>
       \E m \in 0..SnapLength :
         /\ c + Len(s2c) = 2 * m /\ Len(outbox) = SnapLength - m
         /\ \A i \in 1..(SnapLength - m) : outbox[i] = SnapLine(Still, m + i)
  /\ spc \in {"clear", "drain", "tick", "send", "close"} => c + Len(s2c) >= 2 * SnapLength

Reading(c) ==
  /\ InPlace(s2c, c) /\ Beyond(s2c, c) /\ Buffered(cline, c) /\ Known(cpos, c)
  /\ ToCome(c)

LEMMA SnapLengthNat == SnapLength \in Nat /\ SnapLength >= 3 /\ Still \in [Ids -> Pos]
BY OrderFacts, PlayAssumption DEF SnapLength, Still, Pos

\* After the snapshot the server adds only what Beyond allows.
LEMMA PlaceKept ==
  ASSUME NEW c \in Nat, NEW q \in Seq(Halves), NEW r, NEW l \in Lines, Sends(q, r, l),
         l.kind \in OfTicks, InPlace(q, c), Beyond(q, c), c + Len(q) >= 2 * SnapLength
  PROVE  InPlace(r, c) /\ Beyond(r, c) /\ c + Len(r) >= 2 * SnapLength
<1>1. Len(q) \in Nat /\ SnapLength \in Nat
  BY SnapLengthNat
<1>2. /\ r \in Seq(Halves) /\ Len(r) \in Nat /\ Len(q) <= Len(r)
      /\ \A i \in 1..Len(q) : r[i] = q[i]
      /\ \A i \in 1..Len(r) : i > Len(q) => r[i].line = l
  <2> DEFINE h == [line |-> l, part |-> "head"]
  <2>0. h \in Halves /\ h.line = l
    BY DEF Halves
  <2> HIDE DEF h
  <2>1. CASE r = q
    BY <1>1, <2>1
  <2>2. CASE r = Append(q, h)
    BY <1>1, <2>0, <2>2
  <2>3. CASE /\ r \in Seq(Halves) /\ Len(r) = Len(q) + 2
             /\ \A i \in 1..Len(q) : r[i] = q[i]
             /\ r[Len(q) + 1] = [line |-> l, part |-> "head"]
             /\ r[Len(q) + 2] = [line |-> l, part |-> "tail"]
    <3>1. ASSUME NEW i \in 1..Len(r), i > Len(q) PROVE r[i].line = l
      <4>1. i = Len(q) + 1 \/ i = Len(q) + 2
        BY <1>1, <2>3, <3>1
      <4> QED BY <2>3, <4>1
    <3> QED BY <1>1, <2>3, <3>1
  <2> QED BY <2>1, <2>2, <2>3, SendsFacts DEF h
<1>3. Beyond(r, c)
  <2>1. ASSUME NEW i \in 1..Len(r), i + c > 2 * SnapLength PROVE r[i].line.kind \in OfTicks
    <3>1. CASE i <= Len(q)
      <4>1. i \in 1..Len(q) /\ r[i] = q[i]
        BY <1>1, <1>2, <3>1
      <4> QED BY <2>1, <4>1 DEF Beyond
    <3>2. CASE i > Len(q)
      BY <1>2, <3>2
    <3> QED BY <1>1, <3>1, <3>2
  <2> QED BY <2>1 DEF Beyond
<1>4. InPlace(r, c)
  <2>1. ASSUME NEW k \in 1..SnapLength
        PROVE  /\ 2 * k - 1 > c /\ 2 * k - 1 - c <= Len(r)
                    => r[2 * k - 1 - c] = [line |-> SnapLine(Still, k), part |-> "head"]
               /\ 2 * k > c /\ 2 * k - c <= Len(r)
                    => r[2 * k - c] = [line |-> SnapLine(Still, k), part |-> "tail"]
    <3>1. 2 * k - 1 - c <= Len(q) /\ 2 * k - c <= Len(q)
      BY <1>1
    <3>2. 2 * k - 1 > c => 2 * k - 1 - c \in 1..Len(q) /\ r[2 * k - 1 - c] = q[2 * k - 1 - c]
      <4>1. 2 * k - 1 > c => 2 * k - 1 - c \in 1..Len(q)
        BY <1>1, <3>1
      <4> QED BY <1>2, <4>1
    <3>3. 2 * k > c => 2 * k - c \in 1..Len(q) /\ r[2 * k - c] = q[2 * k - c]
      <4>1. 2 * k > c => 2 * k - c \in 1..Len(q)
        BY <1>1, <3>1
      <4> QED BY <1>2, <4>1
    <3> QED BY <3>1, <3>2, <3>3 DEF InPlace
  <2> QED BY <2>1 DEF InPlace
<1>5. c + Len(r) >= 2 * SnapLength
  BY <1>1, <1>2
<1> QED BY <1>3, <1>4, <1>5

\* The next line of the snapshot takes its place.
LEMMA PlacePut ==
  ASSUME NEW c \in Nat, NEW q \in Seq(Halves), NEW m \in 0..(SnapLength - 1),
         c + Len(q) = 2 * m, InPlace(q, c)
  PROVE  LET r == q \o Written(SnapLine(Still, m + 1))
         IN  r \in Seq(Halves) /\ InPlace(r, c) /\ Beyond(r, c) /\ c + Len(r) = 2 * (m + 1)
<1> DEFINE l == SnapLine(Still, m + 1)
           r == q \o Written(l)
<1>1. Len(q) \in Nat /\ SnapLength \in Nat /\ m + 1 \in 1..SnapLength /\ m \in Nat
  BY SnapLengthNat
<1>2. l \in Lines
  BY <1>1, SnapLengthNat, SnapLines
<1> HIDE DEF l
<1>3. /\ r \in Seq(Halves) /\ Len(r) = Len(q) + 2
      /\ \A i \in 1..Len(q) : r[i] = q[i]
      /\ r[Len(q) + 1] = [line |-> l, part |-> "head"]
      /\ r[Len(q) + 2] = [line |-> l, part |-> "tail"]
  BY <1>2, PutFacts
<1> HIDE DEF r
<1>4. c + Len(r) = 2 * (m + 1)
  <2>1. Len(r) = Len(q) + 2
    BY <1>3
  <2>2. \A a \in Nat : c + a = 2 * m => c + (a + 2) = 2 * (m + 1)
    BY <1>1
  <2> QED BY <1>1, <2>1, <2>2
<1>5. Beyond(r, c)
  <2>1. ASSUME NEW i \in 1..Len(r) PROVE ~ (i + c > 2 * SnapLength)
    BY <1>1, <1>3, <1>4
  <2> QED BY <2>1 DEF Beyond
<1>6. ASSUME NEW k \in 1..SnapLength
      PROVE  /\ 2 * k - 1 > c /\ 2 * k - 1 - c <= Len(r)
                  => r[2 * k - 1 - c] = [line |-> SnapLine(Still, k), part |-> "head"]
             /\ 2 * k > c /\ 2 * k - c <= Len(r)
                  => r[2 * k - c] = [line |-> SnapLine(Still, k), part |-> "tail"]
  <2>1. CASE k <= m
    <3>1. 2 * k - 1 - c <= Len(q) /\ 2 * k - c <= Len(q)
      BY <1>1, <2>1
    <3>2. 2 * k - 1 > c => 2 * k - 1 - c \in 1..Len(q) /\ r[2 * k - 1 - c] = q[2 * k - 1 - c]
      <4>1. 2 * k - 1 > c => 2 * k - 1 - c \in 1..Len(q)
        BY <1>1, <3>1
      <4> QED BY <1>3, <4>1
    <3>3. 2 * k > c => 2 * k - c \in 1..Len(q) /\ r[2 * k - c] = q[2 * k - c]
      <4>1. 2 * k > c => 2 * k - c \in 1..Len(q)
        BY <1>1, <3>1
      <4> QED BY <1>3, <4>1
    <3> QED BY <3>1, <3>2, <3>3 DEF InPlace
  <2>2. CASE k = m + 1
    <3>1. 2 * k - 1 - c = Len(q) + 1 /\ 2 * k - c = Len(q) + 2
      BY <1>1, <2>2
    <3> QED BY <1>3, <2>2, <3>1 DEF l
  <2>3. CASE k > m + 1
    <3>1. ~ (2 * k - 1 - c <= Len(r)) /\ ~ (2 * k - c <= Len(r))
      BY <1>1, <1>3, <1>4, <2>3
    <3> QED BY <3>1
  <2> QED BY <1>1, <2>1, <2>2, <2>3
<1>7. InPlace(r, c)
  BY <1>6 DEF InPlace
<1> QED BY <1>3, <1>4, <1>5, <1>7 DEF r, l

LEMMA PlaceTail ==
  ASSUME NEW c \in Nat, NEW q \in Seq(Halves), q # <<>>, InPlace(q, c), Beyond(q, c)
  PROVE  InPlace(Tail(q), c + 1) /\ Beyond(Tail(q), c + 1)
<1> DEFINE r == Tail(q)
<1>1. /\ Len(q) \in Nat /\ Len(q) >= 1 /\ SnapLength \in Nat
      /\ Len(r) = Len(q) - 1 /\ \A i \in 1..Len(r) : r[i] = q[i + 1]
  BY SnapLengthNat
<1> HIDE DEF r
<1>2. ASSUME NEW k \in 1..SnapLength
      PROVE  /\ 2 * k - 1 > c + 1 /\ 2 * k - 1 - (c + 1) <= Len(r)
                  => r[2 * k - 1 - (c + 1)] = [line |-> SnapLine(Still, k), part |-> "head"]
             /\ 2 * k > c + 1 /\ 2 * k - (c + 1) <= Len(r)
                  => r[2 * k - (c + 1)] = [line |-> SnapLine(Still, k), part |-> "tail"]
  <2>1. ASSUME 2 * k - 1 > c + 1, 2 * k - 1 - (c + 1) <= Len(r)
        PROVE  r[2 * k - 1 - (c + 1)] = [line |-> SnapLine(Still, k), part |-> "head"]
    <3>1. /\ 2 * k - 1 - (c + 1) \in 1..Len(r) /\ 2 * k - 1 - (c + 1) + 1 = 2 * k - 1 - c
          /\ 2 * k - 1 > c /\ 2 * k - 1 - c <= Len(q)
      BY <1>1, <2>1
    <3> QED BY <1>1, <3>1 DEF InPlace
  <2>2. ASSUME 2 * k > c + 1, 2 * k - (c + 1) <= Len(r)
        PROVE  r[2 * k - (c + 1)] = [line |-> SnapLine(Still, k), part |-> "tail"]
    <3>1. /\ 2 * k - (c + 1) \in 1..Len(r) /\ 2 * k - (c + 1) + 1 = 2 * k - c
          /\ 2 * k > c /\ 2 * k - c <= Len(q)
      BY <1>1, <2>2
    <3> QED BY <1>1, <3>1 DEF InPlace
  <2> QED BY <2>1, <2>2
<1>3. ASSUME NEW i \in 1..Len(r), i + (c + 1) > 2 * SnapLength
      PROVE  r[i].line.kind \in OfTicks
  <2>1. i + 1 \in 1..Len(q) /\ (i + 1) + c > 2 * SnapLength /\ r[i] = q[i + 1]
    BY <1>1, <1>3
  <2> QED BY <2>1 DEF Beyond
<1> QED BY <1>2, <1>3 DEF InPlace, Beyond, r

\* The next half of the snapshot begins a line, or ends the one in the buffer.
LEMMA PlaceRead ==
  ASSUME NEW c \in 0..(2 * SnapLength - 1), NEW q \in Seq(Halves), q # <<>>, NEW buf,
         InPlace(q, c), Buffered(buf, c)
  PROVE  \E k \in 1..SnapLength :
           \/ /\ c + 1 = 2 * k - 1 /\ Pending(buf, Head(q)) = SnapLine(Still, k)
              /\ Completed(buf, Head(q)) = NoLine
           \/ /\ c + 1 = 2 * k /\ Pending(buf, Head(q)) = NoLine
              /\ Completed(buf, Head(q)) = SnapLine(Still, k)
<1>1. /\ SnapLength \in Nat /\ Len(q) \in Nat /\ Len(q) >= 1 /\ Head(q) = q[1]
      /\ Still \in [Ids -> Pos]
  BY SnapLengthNat
<1>2. CASE \E k \in 1..SnapLength : c = 2 * k - 1 /\ buf = SnapLine(Still, k)
  <2>1. PICK k \in 1..SnapLength : c = 2 * k - 1 /\ buf = SnapLine(Still, k)
    BY <1>2
  <2>2. 2 * k > c /\ 2 * k - c <= Len(q) /\ 2 * k - c = 1 /\ c + 1 = 2 * k
    BY <1>1, <2>1
  <2>3. Head(q) = [line |-> SnapLine(Still, k), part |-> "tail"]
    BY <1>1, <2>2 DEF InPlace
  <2>4. Pending(buf, Head(q)) = NoLine /\ Completed(buf, Head(q)) = SnapLine(Still, k)
    BY <2>1, <2>3 DEF Pending, Completed
  <2> QED BY <2>2, <2>4
<1>3. CASE \E k \in 0..(SnapLength - 1) : c = 2 * k /\ buf = NoLine
  <2>1. PICK j \in 0..(SnapLength - 1) : c = 2 * j /\ buf = NoLine
    BY <1>3
  <2> DEFINE k == j + 1
  <2>2. /\ k \in 1..SnapLength /\ 2 * k - 1 > c /\ 2 * k - 1 - c <= Len(q)
        /\ 2 * k - 1 - c = 1 /\ c + 1 = 2 * k - 1
    BY <1>1, <2>1
  <2> HIDE DEF k
  <2>3. Head(q) = [line |-> SnapLine(Still, k), part |-> "head"]
    BY <1>1, <2>2 DEF InPlace
  <2>4. Pending(buf, Head(q)) = SnapLine(Still, k) /\ Completed(buf, Head(q)) = NoLine
    BY <2>1, <2>3 DEF Pending, Completed
  <2> QED BY <2>2, <2>4
<1> QED BY <1>2, <1>3 DEF Buffered

AtRest == spc \in {"load", "listen", "snapshot"} => pos = Still
TickSends == spc = "send" => \A i \in 1..Len(outbox) : outbox[i].kind = "XFORM"
Alone == cpc = "connect" => /\ s2c = <<>> /\ cline = NoLine
                            /\ spc \in {"load", "listen", "exited"}
Heard == cpc \in {"connect", "snapshot"} => c2sEnd = "open"
Loading == cpc = "snapshot" =>
             spc # "load" /\ \E c \in 0..(2 * SnapLength - 1) : Reading(c)
Loaded ==
  cpc \in {"frame", "drain"} =>
    /\ \A e \in Ids : cpos[e] # Absent
    /\ Beyond(s2c, 2 * SnapLength)
    /\ spc \notin {"load", "listen"}
    /\ spc = "snapshot" => outbox = <<>>

SnapInv == AtRest /\ TickSends /\ Alone /\ Heard /\ Loading /\ Loaded

LEMMA PlaceEmpty ==
  ASSUME NEW c \in Nat PROVE InPlace(<<>>, c) /\ Beyond(<<>>, c)
<1>1. ASSUME NEW k \in 1..SnapLength
      PROVE  /\ ~ (2 * k - 1 > c /\ 2 * k - 1 - c <= Len(<<>>))
             /\ ~ (2 * k > c /\ 2 * k - c <= Len(<<>>))
  BY SnapLengthNat
<1> QED BY <1>1 DEF InPlace, Beyond

\* A step of the server that leaves the connection alone
LEMMA SnapIdle ==
  ASSUME SnapInv,
         \/ ServerListen \/ SnapshotSent \/ ClearEdges \/ ServerRecv \/ ServerDrained \/ EndTick
  PROVE  SnapInv'
<1>1. /\ UNCHANGED <<s2c, pos, outbox, c2sEnd, cpc, cline, cpos>>
      /\ \/ spc = "load" /\ spc' = "listen"
         \/ spc = "snapshot" /\ spc' = "clear" /\ outbox = <<>>
         \/ spc \in {"clear", "drain", "send"} /\ spc' \in {"clear", "drain", "tick"}
  BY DEF ServerListen, SnapshotSent, ClearEdges, ServerRecv, ServerDrained, EndTick,
         clientVars, netVars
<1>2. AtRest /\ TickSends /\ Alone /\ Heard /\ Loading /\ Loaded
  BY DEF SnapInv
<1>3. AtRest' /\ TickSends' /\ Alone' /\ Heard'
  BY <1>1, <1>2 DEF AtRest, TickSends, Alone, Heard
<1>4. Loaded'
  BY <1>1, <1>2 DEF Loaded
<1>5. Loading'
  <2> SUFFICES ASSUME cpc = "snapshot" PROVE Loading'
    BY <1>1 DEF Loading
  <2>1. PICK c \in 0..(2 * SnapLength - 1) : Reading(c)
    BY <1>2 DEF Loading
  <2>2. spc # "load"
    BY <1>2 DEF Loading
  <2>3. ToCome(c)'
    <3>1. CASE spc = "snapshot"
      <4>1. PICK m \in 0..SnapLength : c + Len(s2c) = 2 * m /\ Len(outbox) = SnapLength - m
        BY <2>1, <3>1 DEF Reading, ToCome
      <4>2. Len(outbox) = 0
        BY <1>1, <3>1
      <4>3. m = SnapLength
        BY <4>1, <4>2, SnapLengthNat
      <4>4. c + Len(s2c) >= 2 * SnapLength
        <5>1. 2 * SnapLength \in Int
          BY SnapLengthNat
        <5> QED BY <4>1, <4>3, <5>1
      <4> QED BY <1>1, <3>1, <4>4 DEF ToCome
    <3>2. CASE spc # "snapshot"
      <4>1. c + Len(s2c) >= 2 * SnapLength
        BY <1>1, <2>1, <2>2, <3>2 DEF Reading, ToCome
      <4> QED BY <1>1, <2>2, <3>2, <4>1 DEF ToCome
    <3> QED BY <3>1, <3>2
  <2>4. Reading(c)'
    BY <1>1, <2>1, <2>3 DEF Reading
  <2> QED BY <1>1, <2>2, <2>4 DEF Loading
<1> QED BY <1>3, <1>4, <1>5 DEF SnapInv

LEMMA SnapAccept ==
  ASSUME PlayType, SnapInv, Accept PROVE SnapInv'
<1>1. /\ UNCHANGED <<s2c, pos, c2sEnd, cpc, cline, cpos>>
      /\ spc = "listen" /\ spc' = "snapshot" /\ outbox' = Snapshot /\ cpc # "connect"
  BY DEF Accept, clientVars, netVars
<1>2. AtRest /\ Heard /\ Loading /\ Loaded /\ pos = Still
  BY <1>1 DEF SnapInv, AtRest
<1>3. AtRest' /\ TickSends' /\ Alone' /\ Heard' /\ Loaded'
  BY <1>1, <1>2 DEF AtRest, TickSends, Alone, Heard, Loaded
<1>4. Loading'
  <2> SUFFICES ASSUME cpc = "snapshot" PROVE Loading'
    BY <1>1 DEF Loading
  <2>1. PICK c \in 0..(2 * SnapLength - 1) : Reading(c)
    BY <1>2 DEF Loading
  <2>2. c = 0 /\ s2c = <<>>
    BY <1>1, <2>1 DEF Reading, ToCome
  <2>3. /\ SnapLength \in Nat /\ Len(outbox') = SnapLength
        /\ \A k \in 1..SnapLength : outbox'[k] = SnapLine(Still, k)
    BY <1>1, <1>2, SnapshotFacts, SnapLengthNat DEF PlayType, SceneType
  <2>4. ToCome(c)'
    <3>1. c + Len(s2c') = 2 * 0 /\ Len(outbox') = SnapLength - 0
      BY <1>1, <2>2, <2>3
    <3>2. \A i \in 1..(SnapLength - 0) : outbox'[i] = SnapLine(Still, 0 + i)
      <4>1. SnapLength - 0 = SnapLength /\ \A i \in 1..SnapLength : 0 + i = i
        BY <2>3
      <4> QED BY <2>3, <4>1
    <3>3. 0 \in 0..SnapLength
      BY <2>3
    <3> QED BY <1>1, <3>1, <3>2, <3>3 DEF ToCome
  <2>5. Reading(c)'
    BY <1>1, <2>1, <2>4 DEF Reading
  <2> QED BY <1>1, <2>5 DEF Loading
<1> QED BY <1>3, <1>4 DEF SnapInv

LEMMA SnapSend ==
  ASSUME PlayType, SnapInv, SendSnapshot PROVE SnapInv'
<1>1. /\ UNCHANGED <<spc, pos, c2sEnd, cpc, cline, cpos>>
      /\ spc = "snapshot" /\ outbox # <<>> /\ outbox' = Tail(outbox)
      /\ s2c' = IF c2sEnd = "open" THEN s2c \o Written(Head(outbox)) ELSE s2c
  BY DEF SendSnapshot, clientVars
<1>2. AtRest /\ Alone /\ Heard /\ Loading /\ Loaded
  BY DEF SnapInv
<1>3. AtRest' /\ TickSends' /\ Heard'
  BY <1>1, <1>2 DEF AtRest, TickSends, Heard
<1>4. Alone' /\ Loaded'
  BY <1>1, <1>2 DEF Alone, Loaded
<1>5. Loading'
  <2> SUFFICES ASSUME cpc = "snapshot" PROVE Loading'
    BY <1>1 DEF Loading
  <2>1. PICK c \in 0..(2 * SnapLength - 1) : Reading(c)
    BY <1>2 DEF Loading
  <2>2. PICK m \in 0..SnapLength :
          /\ c + Len(s2c) = 2 * m /\ Len(outbox) = SnapLength - m
          /\ \A i \in 1..(SnapLength - m) : outbox[i] = SnapLine(Still, m + i)
    BY <1>1, <2>1 DEF Reading, ToCome
  <2>3. /\ s2c \in Seq(Halves) /\ outbox \in Seq(Lines) /\ c2sEnd = "open"
        /\ SnapLength \in Nat /\ c \in Nat
    BY <1>2, SnapLengthNat DEF Heard, PlayType, NetType, SceneType, Bounded
  <2>4. /\ m \in 0..(SnapLength - 1) /\ Head(outbox) = SnapLine(Still, m + 1)
        /\ Len(outbox') = SnapLength - (m + 1)
    <3>1. Len(outbox) >= 1 /\ Head(outbox) = outbox[1] /\ Len(outbox') = Len(outbox) - 1
      BY <1>1, <2>3
    <3>2. m \in 0..(SnapLength - 1) /\ 1 \in 1..(SnapLength - m)
          /\ Len(outbox') = SnapLength - (m + 1)
      BY <2>2, <2>3, <3>1
    <3> QED BY <2>2, <3>1, <3>2
  <2> DEFINE r == s2c \o Written(SnapLine(Still, m + 1))
  <2>5. s2c' = r
    BY <1>1, <2>3, <2>4
  <2>6. InPlace(r, c) /\ Beyond(r, c) /\ c + Len(r) = 2 * (m + 1)
    <3>1. InPlace(s2c, c)
      BY <2>1 DEF Reading
    <3> QED BY <2>2, <2>3, <2>4, <3>1, PlacePut
  <2> HIDE DEF r
  <2>7. ASSUME NEW i \in 1..(SnapLength - (m + 1))
        PROVE  outbox'[i] = SnapLine(Still, (m + 1) + i)
    <3>1. i + 1 \in 1..(SnapLength - m) /\ i \in 1..Len(Tail(outbox)) /\ m + (i + 1) = (m + 1) + i
      BY <1>1, <2>3, <2>4
    <3>2. Tail(outbox)[i] = outbox[i + 1]
      BY <1>1, <2>3, <3>1
    <3> QED BY <1>1, <2>2, <3>1, <3>2
  <2>8. ToCome(c)'
    <3>1. m + 1 \in 0..SnapLength
      BY <2>3, <2>4
    <3> QED BY <1>1, <2>4, <2>5, <2>6, <2>7, <3>1 DEF ToCome
  <2>9. Reading(c)'
    BY <1>1, <2>1, <2>5, <2>6, <2>8 DEF Reading
  <2> QED BY <1>1, <2>9 DEF Loading
<1> QED BY <1>3, <1>4, <1>5 DEF SnapInv

LEMMA SnapTick ==
  ASSUME PlayType, PlayType', SnapInv, Tick PROVE SnapInv'
<1>1. /\ UNCHANGED <<s2c, c2sEnd, cpc, cline, cpos>>
      /\ spc = "tick" /\ spc' = "send" /\ outbox' = Xforms(pos')
  BY DEF Tick, clientVars, netVars
<1>2. Alone /\ Heard /\ Loading /\ Loaded
  BY DEF SnapInv
<1>3. AtRest' /\ Alone' /\ Heard' /\ Loaded'
  BY <1>1, <1>2 DEF AtRest, Alone, Heard, Loaded
<1>4. TickSends'
  <2>1. pos' \in [Ids -> Pos]
    BY DEF PlayType, SceneType
  <2>2. ASSUME NEW i \in 1..Len(outbox') PROVE outbox'[i].kind = "XFORM"
    <3>1. i \in 1..Cardinality(Ids)
      BY <1>1, <2>1, OutboxFacts
    <3>2. outbox'[i] = Xform(SomeOrder[i], pos'[SomeOrder[i]])
      BY <1>1, <2>1, <3>1, OutboxFacts
    <3> QED BY <3>2 DEF Xform
  <2> QED BY <2>2 DEF TickSends
<1>5. Loading'
  <2> SUFFICES ASSUME cpc = "snapshot" PROVE Loading'
    BY <1>1 DEF Loading
  <2>1. PICK c \in 0..(2 * SnapLength - 1) : Reading(c)
    BY <1>2 DEF Loading
  <2>2. ToCome(c)'
    BY <1>1, <2>1 DEF Reading, ToCome
  <2>3. Reading(c)'
    BY <1>1, <2>1, <2>2 DEF Reading
  <2> QED BY <1>1, <2>3 DEF Loading
<1> QED BY <1>3, <1>4, <1>5 DEF SnapInv

\* A line that is sent after the snapshot
LEMMA SnapLater ==
  ASSUME PlayType, Alone, Heard, Loading, Loaded, NEW l \in Lines, l.kind \in OfTicks,
         UNCHANGED <<cpc, cline, cpos>>, spc \in {"send", "clear"}, spc' \in {"send", "close"},
         (Sends(s2c, s2c', l) /\ UNCHANGED c2sEnd) \/ (c2sEnd # "open" /\ UNCHANGED s2c)
  PROVE  Alone' /\ Heard' /\ Loading' /\ Loaded'
<1>1. s2c \in Seq(Halves) /\ SnapLength \in Nat /\ 2 * SnapLength \in Nat
  BY SnapLengthNat DEF PlayType, NetType, Bounded
<1>2. Alone' /\ Heard'
  BY DEF Alone, Heard
<1>3. Loading'
  <2> SUFFICES ASSUME cpc = "snapshot" PROVE Loading'
    BY DEF Loading
  <2>1. PICK c \in 0..(2 * SnapLength - 1) : Reading(c)
    BY DEF Loading
  <2>2. Sends(s2c, s2c', l) /\ c \in Nat
    BY <1>1 DEF Heard
  <2>3. InPlace(s2c, c) /\ Beyond(s2c, c) /\ c + Len(s2c) >= 2 * SnapLength
    BY <2>1 DEF Reading, ToCome
  <2>4. InPlace(s2c', c) /\ Beyond(s2c', c) /\ c + Len(s2c') >= 2 * SnapLength
    BY <1>1, <2>2, <2>3, PlaceKept
  <2>5. ToCome(c)'
    BY <2>4 DEF ToCome
  <2>6. Reading(c)'
    BY <2>1, <2>4, <2>5 DEF Reading
  <2> QED BY <2>6 DEF Loading
<1>4. Loaded'
  <2> SUFFICES ASSUME cpc \in {"frame", "drain"} PROVE Beyond(s2c', 2 * SnapLength)
    BY DEF Loaded
  <2>1. Beyond(s2c, 2 * SnapLength)
    BY DEF Loaded
  <2>2. CASE Sends(s2c, s2c', l)
    <3> DEFINE c == 2 * SnapLength
    <3>1. c \in Nat /\ Beyond(s2c, c) /\ c + Len(s2c) >= 2 * SnapLength
      <4>1. Len(s2c) \in Nat
        BY <1>1
      <4> QED BY <1>1, <2>1, <4>1
    <3>2. InPlace(s2c, c)
      <4>1. \A k \in 1..SnapLength : ~ (2 * k - 1 > c) /\ ~ (2 * k > c)
        BY <1>1
      <4> QED BY <4>1 DEF InPlace
    <3> HIDE DEF c
    <3>3. Beyond(s2c', c)
      BY <1>1, <2>2, <3>1, <3>2, PlaceKept
    <3> QED BY <3>3 DEF c
  <2>3. CASE UNCHANGED s2c
    BY <2>1, <2>3
  <2> QED BY <2>2, <2>3
<1> QED BY <1>2, <1>3, <1>4

LEMMA SnapSends ==
  ASSUME PlayType, SnapInv, SendXform \/ SendStop PROVE SnapInv'
<1>1. UNCHANGED <<pos, cpc, cline, cpos>>
  BY DEF SendXform, SendStop, clientVars
<1>2. TickSends /\ Alone /\ Heard /\ Loading /\ Loaded
  BY DEF SnapInv
<1>3. CASE SendXform
  <2>1. /\ spc = "send" /\ spc' = "send" /\ outbox \in Seq(Lines) /\ outbox # <<>>
        /\ outbox' = Tail(outbox)
    BY <1>3 DEF SendXform, PlayType, SceneType
  <2>2. /\ Head(outbox) \in Lines /\ Head(outbox) = outbox[1] /\ 1 \in 1..Len(outbox)
        /\ \A i \in 1..Len(Tail(outbox)) : Tail(outbox)[i] = outbox[i + 1]
                                           /\ i + 1 \in 1..Len(outbox)
    BY <2>1
  <2>3. Head(outbox).kind \in OfTicks
    BY <1>2, <2>1, <2>2 DEF TickSends, OfTicks
  <2>4. AtRest' /\ TickSends'
    BY <1>2, <2>1, <2>2 DEF AtRest, TickSends
  <2>5. (Sends(s2c, s2c', Head(outbox)) /\ UNCHANGED c2sEnd) \/ (c2sEnd # "open" /\ UNCHANGED s2c)
    BY <1>3 DEF SendXform
  <2>6. Alone' /\ Heard' /\ Loading' /\ Loaded'
    <3> DEFINE l == Head(outbox)
    <3>1. l \in Lines /\ l.kind \in OfTicks
      BY <2>2, <2>3
    <3>2. (Sends(s2c, s2c', l) /\ UNCHANGED c2sEnd) \/ (c2sEnd # "open" /\ UNCHANGED s2c)
      BY <2>5
    <3> HIDE DEF l
    <3> QED BY <1>1, <1>2, <2>1, <3>1, <3>2, SnapLater
  <2> QED BY <2>4, <2>6 DEF SnapInv
<1>4. CASE SendStop
  <2>1. /\ spc = "clear" /\ spc' = "close" /\ UNCHANGED <<outbox, c2sEnd>>
        /\ Sends(s2c, s2c', Plain("STOP")) \/ (c2sEnd # "open" /\ UNCHANGED s2c)
    BY <1>4 DEF SendStop
  <2>2. Plain("STOP") \in Lines /\ Plain("STOP").kind \in OfTicks
    BY MadeLines DEF OfTicks, Plain
  <2>3. AtRest' /\ TickSends'
    BY <2>1 DEF AtRest, TickSends
  <2>4. Alone' /\ Heard' /\ Loading' /\ Loaded'
    BY <1>1, <1>2, <2>1, <2>2, SnapLater
  <2> QED BY <2>3, <2>4 DEF SnapInv
<1> QED BY <1>3, <1>4

LEMMA SnapEnd ==
  ASSUME SnapInv, ServerExit \/ ServerKilled PROVE SnapInv'
<1>1. /\ UNCHANGED <<pos, c2sEnd, cpc, cline, cpos>> /\ spc' = "exited"
      /\ s2c' \in {s2c, <<>>} /\ outbox' = <<>>
  BY ClosesFacts DEF ServerExit, ServerKilled, ServerForgets, clientVars
<1>2. Alone /\ Heard /\ Loading /\ Loaded
  BY DEF SnapInv
<1>3. AtRest' /\ TickSends' /\ Alone' /\ Heard'
  BY <1>1, <1>2 DEF AtRest, TickSends, Alone, Heard
<1>4. Loaded'
  <2>1. Beyond(<<>>, 2 * SnapLength)
    BY SnapLengthNat, PlaceEmpty
  <2> QED BY <1>1, <1>2, <2>1 DEF Loaded
<1>5. Loading'
  <2> SUFFICES ASSUME cpc = "snapshot" PROVE Loading'
    BY <1>1 DEF Loading
  <2>1. PICK c \in 0..(2 * SnapLength - 1) : Reading(c)
    BY <1>2 DEF Loading
  <2>2. InPlace(s2c', c) /\ Beyond(s2c', c)
    <3>1. InPlace(<<>>, c) /\ Beyond(<<>>, c)
      BY PlaceEmpty
    <3> QED BY <1>1, <2>1, <3>1 DEF Reading
  <2>3. ToCome(c)'
    BY <1>1 DEF ToCome
  <2>4. Reading(c)'
    BY <1>1, <2>1, <2>2, <2>3 DEF Reading
  <2> QED BY <1>1, <2>4 DEF Loading
<1> QED BY <1>3, <1>4, <1>5 DEF SnapInv

LEMMA SnapConnect ==
  ASSUME SnapInv, ClientConnect PROVE SnapInv'
<1>1. /\ UNCHANGED <<pos, outbox, s2c, c2sEnd, spc, cline, cpos>>
      /\ cpc = "connect" /\ cpc' = "snapshot" /\ spc = "listen"
  BY DEF ClientConnect, serverVars, netVars
<1>2. AtRest /\ TickSends /\ Heard /\ s2c = <<>> /\ cline = NoLine
  BY <1>1 DEF SnapInv, Alone
<1>3. AtRest' /\ TickSends' /\ Alone' /\ Heard' /\ Loaded'
  BY <1>1, <1>2 DEF AtRest, TickSends, Alone, Heard, Loaded
<1>4. Reading(0)'
  <2>1. InPlace(s2c', 0) /\ Beyond(s2c', 0)
    BY <1>1, <1>2, PlaceEmpty
  <2>2. Buffered(cline', 0)
    <3>1. 0 \in 0..(SnapLength - 1) /\ 0 = 2 * 0
      BY SnapLengthNat
    <3> QED BY <1>1, <1>2, <3>1 DEF Buffered
  <2>3. Known(cpos', 0)
    <3>1. \A k \in 3..(SnapLength - 1) : ~ (2 * k <= 0)
      BY SnapLengthNat
    <3> QED BY <3>1 DEF Known
  <2>4. ToCome(0)'
    BY <1>1, <1>2 DEF ToCome
  <2> QED BY <2>1, <2>2, <2>3, <2>4 DEF Reading
<1>5. Loading'
  <2>1. 0 \in 0..(2 * SnapLength - 1)
    BY SnapLengthNat
  <2> QED BY <1>1, <1>4, <2>1 DEF Loading
<1> QED BY <1>3, <1>5 DEF SnapInv

LEMMA SnapGone ==
  ASSUME SnapInv, \/ ClientRefused \/ SnapshotCut \/ SnapshotReset \/ ClientExit \/ ClientKilled
  PROVE  SnapInv'
<1>1. /\ UNCHANGED <<pos, outbox, spc>> /\ cpc' \in {"never", "exited", "overrun"}
  BY DEF ClientRefused, SnapshotCut, SnapshotReset, ClientExit, ClientKilled, serverVars
<1> QED BY <1>1 DEF SnapInv, AtRest, TickSends, Alone, Heard, Loading, Loaded

\* The client keeps every entity that it has.
LEMMA SnapRuntime ==
  ASSUME PlayType, SnapInv, Frame \/ ClientRecv \/ ClientDrained PROVE SnapInv'
<1>1. /\ UNCHANGED <<pos, outbox, spc>>
      /\ cpc \in {"frame", "drain"} /\ cpc' \in {"frame", "drain"}
  BY DEF Frame, ClientRecv, ClientDrained, serverVars
<1>2. AtRest' /\ TickSends' /\ Alone' /\ Heard' /\ Loading'
  BY <1>1 DEF SnapInv, AtRest, TickSends, Alone, Heard, Loading
<1>3. /\ \A e \in Ids : cpos[e] # Absent
      /\ Beyond(s2c, 2 * SnapLength)
      /\ spc \notin {"load", "listen"} /\ (spc = "snapshot" => outbox = <<>>)
  BY <1>1 DEF SnapInv, Loaded
<1>4. CASE Frame \/ ClientDrained
  <2>1. s2c' \in {s2c, <<>>}
    BY <1>4 DEF Frame, ClientDrained, netVars
  <2>2. Beyond(<<>>, 2 * SnapLength)
    BY SnapLengthNat, PlaceEmpty
  <2>3. \A e \in Ids : cpos'[e] = cpos[e] \/ cpos'[e] = Scripted
    BY <1>4, PlacedFacts DEF Frame, ClientDrained, PlayType, SceneType
  <2>4. Scripted # Absent
    BY DEF Scripted, Absent
  <2>5. Loaded'
    BY <1>1, <1>3, <2>1, <2>2, <2>3, <2>4 DEF Loaded
  <2> QED BY <1>2, <2>5 DEF SnapInv
<1>5. CASE ClientRecv
  <2> DEFINE h == Head(s2c)
             l == Completed(cline, h)
  <2>1. /\ s2c \in Seq(Halves) /\ s2c # <<>> /\ s2c' = Tail(s2c)
        /\ cpos \in [Ids -> Pos \cup {Absent, Garbage, Scripted}] /\ SnapLength \in Nat
        /\ ApplyRuntime(l)
    BY <1>5, SnapLengthNat DEF ClientRecv, PlayType, SceneType, NetType, Bounded
  <2>2. Len(s2c) \in Nat /\ h = s2c[1] /\ h \in Halves /\ 1 \in 1..Len(s2c)
    BY <2>1
  <2>3. \A i \in 1..Len(s2c) : s2c[i].line.kind \in OfTicks
    <3>1. \A i \in 1..Len(s2c) : i + 2 * SnapLength > 2 * SnapLength
      BY <2>1
    <3> QED BY <1>3, <3>1 DEF Beyond
  <2>4. l.kind \in {"XFORM", "STOP", "none", "unknown", "mixed"}
    BY <2>2, <2>3, CompletedFacts DEF OfTicks
  <2>5. l.kind = "XFORM" => l.at \in Pos
    BY <2>2, CompletedFacts, LineFacts
  <2>6. Beyond(s2c', 2 * SnapLength)
    <3>1. \A i \in 1..Len(Tail(s2c)) : Tail(s2c)[i] = s2c[i + 1] /\ i + 1 \in 1..Len(s2c)
      BY <2>1
    <3> QED BY <2>1, <2>3, <3>1 DEF Beyond
  <2> HIDE DEF l
  <2>7. Absent \notin Pos /\ Absent # Garbage
    BY PlayAssumption DEF Absent, Garbage, Pos
  <2>8. ASSUME NEW e \in Ids PROVE cpos'[e] # Absent
    <3>1. CASE cpos' = Applied(l)
      <4>1. CASE l.kind = "XFORM"
        <5>1. cpos' = cpos \/ cpos' = [cpos EXCEPT ![l.id] = IF @ = Absent THEN @ ELSE l.at]
          BY <3>1, <4>1 DEF Applied
        <5>2. cpos'[e] \in {cpos[e], l.at}
          BY <1>3, <2>1, <5>1
        <5> QED BY <1>3, <2>5, <2>7, <4>1, <5>2
      <4>2. CASE l.kind # "XFORM"
        BY <1>3, <2>4, <3>1, <4>2 DEF Applied
      <4> QED BY <4>1, <4>2
    <3>2. CASE cpos' = cpos
      BY <1>3, <3>2
    <3>3. ASSUME NEW d \in Ids, cpos' = [cpos EXCEPT ![d] = IF @ = Absent THEN @ ELSE Garbage]
          PROVE  cpos'[e] # Absent
      BY <1>3, <2>1, <2>7, <3>3
    <3> QED BY <2>1, <3>1, <3>2, <3>3 DEF ApplyRuntime
  <2>9. Loaded'
    BY <1>1, <1>3, <2>6, <2>8 DEF Loaded
  <2> QED BY <1>2, <2>9 DEF SnapInv
<1> QED BY <1>4, <1>5

\* The loop over the snapshot goes on.
LEMMA SnapReads ==
  ASSUME PlayType, SnapInv, LoadScene, NEW c \in 0..(2 * SnapLength - 2), Reading(c),
         s2c' = Tail(s2c), UNCHANGED cpc, Buffered(cline', c + 1), Known(cpos', c + 1)
  PROVE  SnapInv'
<1>1. /\ UNCHANGED <<pos, outbox, spc, c2sEnd>> /\ cpc = "snapshot" /\ s2c # <<>>
      /\ s2c \in Seq(Halves) /\ c \in Nat
  BY DEF LoadScene, serverVars, PlayType, NetType, Bounded
<1>2. AtRest' /\ TickSends' /\ Alone' /\ Heard' /\ Loaded'
  BY <1>1 DEF SnapInv, AtRest, TickSends, Alone, Heard, Loaded
<1>3. spc # "load" /\ spc # "listen"
  BY <1>1 DEF SnapInv, Loading, Reading, ToCome
<1>4. InPlace(s2c', c + 1) /\ Beyond(s2c', c + 1)
  BY <1>1, PlaceTail DEF Reading
<1>5. (c + 1) + Len(s2c') = c + Len(s2c)
  BY <1>1
<1>6. ToCome(c + 1)'
  BY <1>1, <1>3, <1>5 DEF ToCome, Reading
<1>7. Reading(c + 1)'
  BY <1>4, <1>6 DEF Reading
<1>8. c + 1 \in 0..(2 * SnapLength - 1)
  BY SnapLengthNat
<1> QED BY <1>1, <1>2, <1>3, <1>7, <1>8 DEF SnapInv, Loading

\* SCENE_END comes when every entity has come.
LEMMA SnapWhole ==
  ASSUME PlayType, SnapInv, LoadScene, NEW c \in Nat, c + 1 = 2 * SnapLength, Reading(c),
         cpc' = "frame", cpos' = cpos, NEW n \in 2..(Len(s2c) + 1),
         s2c' = SubSeq(s2c, n, Len(s2c))
  PROVE  SnapInv'
<1>1. /\ UNCHANGED <<pos, outbox, spc, c2sEnd>> /\ cpc = "snapshot" /\ s2c # <<>>
      /\ s2c \in Seq(Halves) /\ Len(s2c) \in Nat /\ Len(s2c) >= 1
      /\ SnapLength \in Nat /\ SnapLength >= 3 /\ outbox \in Seq(Lines)
  BY SnapLengthNat DEF LoadScene, serverVars, PlayType, NetType, SceneType, Bounded
<1>2. AtRest' /\ TickSends' /\ Alone' /\ Heard' /\ Loading'
  BY <1>1 DEF SnapInv, AtRest, TickSends, Alone, Heard, Loading
<1>3. spc # "load" /\ spc # "listen"
  BY <1>1 DEF SnapInv, Loading, Reading, ToCome
<1>4. ASSUME NEW e \in Ids PROVE cpos[e] # Absent
  <2>1. PICK i \in 1..Cardinality(Ids) : SomeOrder[i] = e
    BY OrderFacts
  <2>2. i + 2 \in 3..(SnapLength - 1) /\ 2 * (i + 2) <= c /\ (i + 2) - 2 = i
    <3>1. SnapLength = Cardinality(Ids) + 3 /\ Cardinality(Ids) \in Nat
      BY OrderFacts DEF SnapLength
    <3> QED BY <3>1
  <2>3. cpos[SomeOrder[(i + 2) - 2]] # Absent
    BY <2>2 DEF Reading, Known
  <2> QED BY <2>1, <2>2, <2>3
<1>5. Beyond(s2c', 2 * SnapLength)
  <2> DEFINE r == SubSeq(s2c, n, Len(s2c))
  <2>1. /\ Len(r) = IF n <= Len(s2c) THEN Len(s2c) - n + 1 ELSE 0
        /\ \A i \in 1..(Len(s2c) - n + 1) : r[i] = s2c[n + i - 1]
    <3>1. \A i \in n..Len(s2c) : s2c[i] \in Halves
      BY <1>1
    <3> QED BY <1>1, <3>1, SubSeqProperties
  <2> HIDE DEF r
  <2>2. ASSUME NEW i \in 1..Len(r) PROVE r[i].line.kind \in OfTicks
    <3>1. i \in 1..(Len(s2c) - n + 1) /\ n + i - 1 \in 1..Len(s2c)
          /\ (n + i - 1) + c > 2 * SnapLength
      BY <1>1, <2>1
    <3> QED BY <2>1, <3>1 DEF Reading, Beyond
  <2> QED BY <2>2 DEF Beyond, r
<1>6. spc = "snapshot" => outbox = <<>>
  <2> SUFFICES ASSUME spc = "snapshot" PROVE outbox = <<>>
    OBVIOUS
  <2>1. PICK m \in 0..SnapLength : c + Len(s2c) = 2 * m /\ Len(outbox) = SnapLength - m
    BY DEF Reading, ToCome
  <2>2. m = SnapLength
    BY <1>1, <2>1
  <2>3. Len(outbox) = 0
    BY <1>1, <2>1, <2>2
  <2> QED BY <1>1, <2>3
<1>7. Loaded'
  BY <1>1, <1>3, <1>4, <1>5, <1>6 DEF Loaded
<1> QED BY <1>2, <1>7 DEF SnapInv

LEMMA SnapLoads ==
  ASSUME PlayType, SnapInv, LoadScene PROVE SnapInv'
<1> DEFINE h == Head(s2c)
           l == Completed(cline, h)
<1>1. /\ cpc = "snapshot" /\ s2c # <<>> /\ s2c \in Seq(Halves)
      /\ cpos \in [Ids -> Pos \cup {Absent, Garbage, Scripted}]
      /\ cpos' = Applied(l)
      /\ IF l.kind = "SCENE_END"
         THEN /\ cpc' = "frame" /\ cline' = NoLine
              /\ \E n \in 2..(Len(s2c) + 1) : s2c' = SubSeq(s2c, n, Len(s2c))
         ELSE cline' = Pending(cline, h) /\ s2c' = Tail(s2c) /\ UNCHANGED cpc
  BY DEF LoadScene, PlayType, NetType, SceneType, Bounded
<1>2. PICK c \in 0..(2 * SnapLength - 1) : Reading(c)
  BY <1>1 DEF SnapInv, Loading
<1>3. c \in Nat /\ SnapLength \in Nat /\ SnapLength >= 3 /\ Still \in [Ids -> Pos]
  BY SnapLengthNat
<1>4. PICK k \in 1..SnapLength :
        \/ c + 1 = 2 * k - 1 /\ Pending(cline, h) = SnapLine(Still, k) /\ l = NoLine
        \/ c + 1 = 2 * k /\ Pending(cline, h) = NoLine /\ l = SnapLine(Still, k)
  <2>1. InPlace(s2c, c) /\ Buffered(cline, c)
    BY <1>2 DEF Reading
  <2> HIDE DEF Reading
  <2> QED BY <1>1, <2>1, PlaceRead
<1> HIDE DEF l
<1>5. Known(cpos, c)
  BY <1>2 DEF Reading
<1>6. CASE c + 1 = 2 * k - 1 /\ Pending(cline, h) = SnapLine(Still, k) /\ l = NoLine
  <2>1. l.kind = "none"
    BY <1>6 DEF NoLine
  <2>2. /\ cpos' = cpos /\ cline' = SnapLine(Still, k) /\ s2c' = Tail(s2c) /\ UNCHANGED cpc
    BY <1>1, <1>6, <2>1 DEF Applied
  <2>3. Known(cpos', c + 1)
    <3>1. \A j \in 3..(SnapLength - 1) : 2 * j <= c + 1 => 2 * j <= c
      BY <1>3, <1>6
    <3> QED BY <1>5, <2>2, <3>1 DEF Known
  <2>4. Buffered(cline', c + 1) /\ c \in 0..(2 * SnapLength - 2)
    BY <1>3, <1>6, <2>2 DEF Buffered
  <2> QED BY <1>2, <2>2, <2>3, <2>4, SnapReads
<1>7. CASE c + 1 = 2 * k /\ Pending(cline, h) = NoLine /\ l = SnapLine(Still, k)
  <2>1. l.kind = CASE k = 1 -> "WELCOME"
                   [] k = 2 -> "SCENE_BEGIN"
                   [] k \in 3..(SnapLength - 1) -> "ENTITY"
                   [] OTHER -> "SCENE_END"
    BY <1>3, <1>7, SnapLines
  <2>2. CASE k = SnapLength
    <3>1. l.kind = "SCENE_END"
      BY <1>3, <2>1, <2>2
    <3>2. cpos' = cpos /\ cpc' = "frame" /\ \E n \in 2..(Len(s2c) + 1) : s2c' = SubSeq(s2c, n, Len(s2c))
      BY <1>1, <3>1 DEF Applied
    <3>3. c + 1 = 2 * SnapLength
      BY <1>7, <2>2
    <3> QED BY <1>2, <1>3, <3>2, <3>3, SnapWhole
  <2>3. CASE k < SnapLength
    <3>1. k = 1 \/ k = 2 \/ k \in 3..(SnapLength - 1)
      BY <1>3, <2>3
    <3>2. l.kind # "SCENE_END"
      BY <2>1, <3>1
    <3>3. cline' = NoLine /\ s2c' = Tail(s2c) /\ UNCHANGED cpc
      BY <1>1, <1>7, <3>2
    <3>4. Buffered(cline', c + 1) /\ c \in 0..(2 * SnapLength - 2)
      <4>1. k \in 0..(SnapLength - 1) /\ c \in 0..(2 * SnapLength - 2)
        BY <1>3, <1>7, <2>3
      <4> QED BY <1>7, <3>3, <4>1 DEF Buffered
    <3>5. Known(cpos', c + 1)
      <4>1. CASE k \in {1, 2}
        <5>1. \A j \in 3..(SnapLength - 1) : ~ (2 * j <= c + 1)
          BY <1>3, <1>7, <4>1
        <5> QED BY <5>1 DEF Known
      <4>2. CASE k \in 3..(SnapLength - 1)
        <5>1. /\ k - 2 \in 1..Cardinality(Ids) /\ l.id = SomeOrder[k - 2]
              /\ l.at = Still[SomeOrder[k - 2]]
          BY <1>3, <1>7, <4>2, SnapLines
        <5>2. SomeOrder[k - 2] \in Ids /\ l.at # Absent
          BY <5>1, OrderFacts DEF Still, Absent
        <5>3. l.kind = "ENTITY"
          BY <2>1, <4>2
        <5>4. cpos' = [cpos EXCEPT ![SomeOrder[k - 2]] = l.at]
          BY <1>1, <5>1, <5>3 DEF Applied
        <5>5. ASSUME NEW j \in 3..(SnapLength - 1), 2 * j <= c + 1
              PROVE  cpos'[SomeOrder[j - 2]] # Absent
          <6>1. j = k \/ 2 * j <= c
            BY <1>3, <1>7, <5>5
          <6>2. CASE j = k
            BY <1>1, <5>2, <5>4, <6>2
          <6>3. CASE 2 * j <= c
            <7>1. cpos[SomeOrder[j - 2]] # Absent
              BY <1>5, <6>3 DEF Known
            <7>2. SomeOrder[j - 2] \in Ids
              <8>1. j - 2 \in 1..Cardinality(Ids)
                <9>1. SnapLength = Cardinality(Ids) + 3 /\ Cardinality(Ids) \in Nat
                  BY OrderFacts DEF SnapLength
                <9> QED BY <9>1
              <8> QED BY <8>1, OrderFacts
            <7> QED BY <1>1, <5>2, <5>4, <7>1, <7>2
          <6> QED BY <6>1, <6>2, <6>3
        <5> QED BY <5>5 DEF Known
      <4> QED BY <3>1, <4>1, <4>2
    <3> QED BY <1>2, <3>3, <3>4, <3>5, SnapReads
  <2> QED BY <1>3, <2>2, <2>3
<1> QED BY <1>4, <1>6, <1>7

LEMMA SnapStep == PlayType /\ PlayType' /\ SnapInv /\ [Next]_vars => SnapInv'
<1>1. CASE UNCHANGED vars
  BY <1>1 DEF vars, SnapInv, AtRest, TickSends, Alone, Heard, Loading, Loaded, Reading, ToCome
<1> QED BY <1>1, SnapIdle, SnapAccept, SnapSend, SnapTick, SnapSends, SnapEnd, SnapConnect,
           SnapGone, SnapRuntime, SnapLoads DEF Next, ServerStep, ClientStep

LEMMA SnapInit == Init => SnapInv
BY DEF Init, SnapInv, AtRest, TickSends, Alone, Heard, Loading, Loaded, Still

(* When the client leaves the snapshot it has every entity of the scene,       *)
(* however many there are, wherever its recv calls cut the lines and whatever  *)
(* of the first ticks came in the chunk of SCENE_END; it never loses one.      *)
THEOREM SceneArrivesWhole == Spec => []SceneIsWhole
<1>1. SnapInv => SceneIsWhole
  BY DEF SnapInv, Loaded, SceneIsWhole
<1> QED BY <1>1, InitType, SnapInit, PlayTypeStep, SnapStep, PTL DEF Spec
=============================================================================
