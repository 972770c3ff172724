--------------------- MODULE PlaytestSupervisorProofs ---------------------
(***************************************************************************)
(* Proofs about the playtest supervisor, for every output of the children, *)
(* every size of the pipe, every number of playtests, and children that    *)
(* write and end at any moment.                                            *)
(*                                                                         *)
(* What the editor knows of its children between two calls depends on the  *)
(* calls that the frame has still to make.  Plan says for every such list  *)
(* of calls what is true of both slots, and SupInv is inductive.  With     *)
(* LogInv added, which follows the bytes of a child through the reads and  *)
(* line_buf into the ring of the log, so is the order of the log's lines.  *)
(***************************************************************************)
EXTENDS PlaytestSupervisor, SequenceTheorems, FiniteSetTheorems,
        WellFoundedInduction, TLAPS

-----------------------------------------------------------------------------
(* Lists of calls *)

Calls == {"drain", "flush", "close", "terminate", "check", "stop", "stopped",
          "spawn", "poll", "settle"}
         \X (Children \cup {None}) \X (Nat \cup {"exited", "stopped", "failed"})

Cons(x, rest) == <<x>> \o rest

LEMMA ConsFacts ==
  ASSUME NEW x \in Calls, NEW rest \in Seq(Calls)
  PROVE  /\ Cons(x, rest) \in Seq(Calls)
         /\ Cons(x, rest) # <<>>
         /\ Head(Cons(x, rest)) = x /\ Tail(Cons(x, rest)) = rest
         /\ Len(Cons(x, rest)) = Len(rest) + 1
         /\ Cons(x, rest)[1] = x
         /\ \A i \in 1..Len(rest) : Cons(x, rest)[i + 1] = rest[i]
BY DEF Cons

\* Two calls, one after the other.
LEMMA ConcatPair ==
  ASSUME NEW a \in Calls, NEW b \in Calls
  PROVE  <<a>> \o <<b>> = <<a, b>>
<1> DEFINE s == <<a>> \o <<b>>
           t == <<a, b>>
<1>1. <<a>> \in Seq(Calls) /\ <<b>> \in Seq(Calls)
  OBVIOUS
<1>2. s \in Seq(Calls) /\ Len(s) = 2 /\ s[1] = a /\ s[2] = b
  BY <1>1
<1>3. t \in Seq(Calls) /\ Len(t) = 2 /\ t[1] = a /\ t[2] = b
  OBVIOUS
<1> HIDE DEF s, t
<1>4. \A i \in 1..Len(s) : s[i] = t[i]
  BY <1>2, <1>3
<1>5. s = t
  BY <1>2, <1>3, <1>4, SeqEqual
<1> QED BY <1>5 DEF s, t

\* A tuple in front of a list, one call after the other.
LEMMA ConsTwo ==
  ASSUME NEW a \in Calls, NEW b \in Calls, NEW rest \in Seq(Calls)
  PROVE  <<a, b>> \o rest = Cons(a, Cons(b, rest))
<1>1. <<a>> \in Seq(Calls) /\ <<b>> \in Seq(Calls) /\ <<a, b>> \in Seq(Calls)
  OBVIOUS
<1>2. <<a, b>> = <<a>> \o <<b>>
  BY ConcatPair
<1> QED BY <1>1, <1>2, ConcatAssociative DEF Cons

LEMMA ConsThree ==
  ASSUME NEW a \in Calls, NEW b \in Calls, NEW c \in Calls, NEW rest \in Seq(Calls)
  PROVE  <<a, b, c>> \o rest = Cons(a, Cons(b, Cons(c, rest)))
<1>1. <<a, b, c>> = <<a>> \o <<b, c>>
  OBVIOUS
<1>2. <<a>> \in Seq(Calls) /\ <<b, c>> \in Seq(Calls)
  OBVIOUS
<1>3. <<b, c>> \o rest = Cons(b, Cons(c, rest))
  BY ConsTwo
<1>4. <<a, b, c>> \o rest = <<a>> \o (<<b, c>> \o rest)
  BY <1>1, <1>2, ConcatAssociative
<1> QED BY <1>3, <1>4 DEF Cons

LEMMA ConsFour ==
  ASSUME NEW a \in Calls, NEW b \in Calls, NEW c \in Calls, NEW d \in Calls,
         NEW rest \in Seq(Calls)
  PROVE  <<a, b, c, d>> \o rest = Cons(a, Cons(b, Cons(c, Cons(d, rest))))
<1>1. <<a, b, c, d>> = <<a>> \o <<b, c, d>>
  OBVIOUS
<1>2. <<a>> \in Seq(Calls) /\ <<b, c, d>> \in Seq(Calls)
  OBVIOUS
<1>3. <<b, c, d>> \o rest = Cons(b, Cons(c, Cons(d, rest)))
  BY ConsThree
<1>4. <<a, b, c, d>> \o rest = <<a>> \o (<<b, c, d>> \o rest)
  BY <1>1, <1>2, ConcatAssociative
<1> QED BY <1>3, <1>4 DEF Cons

LEMMA ConsFive ==
  ASSUME NEW a \in Calls, NEW b \in Calls, NEW c \in Calls, NEW d \in Calls,
         NEW e \in Calls, NEW rest \in Seq(Calls)
  PROVE  <<a, b, c, d, e>> \o rest
           = Cons(a, Cons(b, Cons(c, Cons(d, Cons(e, rest)))))
<1>1. <<a, b, c, d, e>> = <<a>> \o <<b, c, d, e>>
  OBVIOUS
<1>2. <<a>> \in Seq(Calls) /\ <<b, c, d, e>> \in Seq(Calls)
  OBVIOUS
<1>3. <<b, c, d, e>> \o rest = Cons(b, Cons(c, Cons(d, Cons(e, rest))))
  BY ConsFour
<1>4. <<a, b, c, d, e>> \o rest = <<a>> \o (<<b, c, d, e>> \o rest)
  BY <1>1, <1>2, ConcatAssociative
<1> QED BY <1>3, <1>4 DEF Cons

LEMMA ConsOne ==
  ASSUME NEW a \in Calls, NEW rest \in Seq(Calls)
  PROVE  <<a>> \o rest = Cons(a, rest) /\ <<>> \o rest = rest
BY DEF Cons

-----------------------------------------------------------------------------
(* The inductive invariant *)

Other(c) == IF c = Server THEN Client ELSE Server
Mine(c) == {c} \X (1..MaxSessions)
Of(c) == os[slot[c].process]

\* Types, but for the text of the lines
SlotType ==
  \E lines : slot \in [Children -> [process : Processes \cup {None}, running : BOOLEAN,
                                    stdout : BOOLEAN, line : lines]]
OsType ==
  os \in [Processes -> [state : {"none", "live", "dying", "dead"}, handles : BOOLEAN,
                        wrote : Nat, taken : Nat]]
RestType ==
  /\ active \in BOOLEAN /\ session \in 0..MaxSessions
  /\ editor \in {"open", "leaving", "left"}
  /\ todo \in Seq(Calls)

\* What is unread fits in the pipe.
Pipes == \A p \in Processes : os[p].taken <= os[p].wrote /\ Unread(p) <= PipeSize

\* A process that is alive or has open handles is in its slot, and a slot that
\* runs has its process.
OwnedBy(c) ==
  /\ slot[c].process \in Mine(c) \cup {None}
  /\ \A p \in Mine(c) :
        /\ os[p].state = "live" => slot[c].process = p /\ slot[c].running
        /\ os[p].handles => slot[c].process = p
  /\ slot[c].running => slot[c].process \in Mine(c) /\ Of(c).handles
Owned == \A c \in Children : OwnedBy(c)

Base == SlotType /\ OsType /\ RestType /\ Pipes /\ Owned

\* A child in the care of the supervisor, and none at all
Runs(c) == slot[c].running /\ slot[c].stdout
Gone(c) == ~slot[c].running /\ ~slot[c].stdout /\ \A p \in Mine(c) : ~os[p].handles
Calm(c) == Runs(c) \/ Gone(c)

\* Between frames, and before playtest_poll
PollList == Cons(<<"poll", None, 0>>, <<>>)

FramePlan ==
  /\ \/ todo = <<>>
     \/ editor = "open" /\ todo = PollList
  /\ Calm(Server) /\ Calm(Client)
  /\ ~active => Gone(Server) /\ Gone(Client)
  /\ editor # "open" => ~active

\* In playtest_poll
SettleList == Cons(<<"settle", None, 0>>, <<>>)
CheckClientList == Cons(<<"check", Client, 0>>, SettleList)
CheckList == Cons(<<"check", Server, 0>>, CheckClientList)
DrainClientList(n) == Cons(<<"drain", Client, n>>, CheckList)
DrainList(n) == Cons(<<"drain", Server, n>>, DrainClientList(0))

Polling == editor = "open" /\ active /\ Calm(Server) /\ Calm(Client)

PollPlan ==
  /\ Polling
  /\ \/ \E n \in 0..DrainGuard : todo \in {DrainList(n), DrainClientList(n)}
     \/ todo \in {CheckList, CheckClientList, SettleList}

\* What n reads of a child that has ended have left in its pipe
LeftAfter(c, n) == Unread(slot[c].process) = 0
                   \/ Unread(slot[c].process) + Chunk * n <= PipeSize

\* A child has ended: what playtest_poll still does about it
AfterExit(c) == IF c = Server THEN CheckClientList ELSE SettleList
CloseExitedList(c) == Cons(<<"close", c, "exited">>, AfterExit(c))
FlushExitedList(c) == Cons(<<"flush", c, 0>>, CloseExitedList(c))
DrainExitedList(c, n) == Cons(<<"drain", c, n>>, FlushExitedList(c))

Exiting(c) ==
  /\ editor = "open" /\ active /\ Calm(Other(c))
  /\ ~slot[c].running /\ slot[c].process \in Mine(c)
  /\ Of(c).handles /\ Of(c).state = "dead"

ExitPlan(c) ==
  /\ Exiting(c)
  /\ \/ \E n \in 0..DrainGuard :
          todo = DrainExitedList(c, n) /\ slot[c].stdout /\ LeftAfter(c, n)
     \/ todo = FlushExitedList(c) /\ slot[c].stdout /\ LeftAfter(c, DrainGuard)
     \/ todo = CloseExitedList(c) /\ ~slot[c].stdout

\* In playtest_stop, called by a frame with F5 or when the editor is left
Rest(rest) ==
  \/ editor = "open" /\ rest = PollList
  \/ editor = "leaving" /\ rest = <<>>

StoppedList(rest) == Cons(<<"stopped", None, 0>>, rest)
AfterStop(c, rest) == IF c = Server THEN Cons(<<"stop", Client, 0>>, StoppedList(rest))
                      ELSE StoppedList(rest)
CloseStoppedList(c, rest) == Cons(<<"close", c, "stopped">>, AfterStop(c, rest))
FlushStoppedList(c, rest) == Cons(<<"flush", c, 0>>, CloseStoppedList(c, rest))
TerminateList(c, rest) == Cons(<<"terminate", c, 0>>, FlushStoppedList(c, rest))
DrainStopList(c, n, rest) == Cons(<<"drain", c, n>>, TerminateList(c, rest))
StopList(c, rest) == Cons(<<"stop", c, 0>>, AfterStop(c, rest))

Stopping(c, rest) ==
  /\ active /\ Rest(rest)
  /\ IF c = Server THEN Calm(Client) ELSE Gone(Server)

StopPlan(c, rest) ==
  /\ Stopping(c, rest)
  /\ \/ todo = StopList(c, rest) /\ Calm(c)
     \/ Runs(c) /\ \E n \in 0..DrainGuard : todo = DrainStopList(c, n, rest)
     \/ Runs(c) /\ todo = TerminateList(c, rest)
     \/ Runs(c) /\ todo = FlushStoppedList(c, rest) /\ Of(c).state # "live"
     \/ /\ todo = CloseStoppedList(c, rest) /\ Of(c).state # "live"
        /\ slot[c].running /\ ~slot[c].stdout

StoppedPlan(rest) ==
  active /\ Rest(rest) /\ todo = StoppedList(rest) /\ Gone(Server) /\ Gone(Client)

\* In playtest_start
FlushFailedList == Cons(<<"flush", Server, 0>>, PollList)
CloseFailedList == Cons(<<"close", Server, "failed">>, FlushFailedList)
UndoList == Cons(<<"terminate", Server, 0>>, CloseFailedList)

Starting == editor = "open" /\ ~active /\ Gone(Client)

StartPlan ==
  /\ Starting
  /\ \/ /\ todo = Cons(<<"spawn", Server, 0>>, PollList)
        /\ Gone(Server) /\ session > 0
     \/ /\ todo = Cons(<<"spawn", Client, 0>>, PollList)
        /\ Runs(Server) /\ session > 0
     \/ todo = UndoList /\ Runs(Server)
     \/ todo = CloseFailedList /\ Runs(Server) /\ Of(Server).state # "live"
     \/ /\ todo = FlushFailedList
        /\ ~slot[Server].running /\ \A p \in Mine(Server) : ~os[p].handles

Plan ==
  \/ FramePlan \/ PollPlan \/ StartPlan
  \/ \E c \in Children : ExitPlan(c)
  \/ \E rest \in {<<>>, PollList} :
        StoppedPlan(rest) \/ \E c \in Children : StopPlan(c, rest)

SupInv == Base /\ Plan

-----------------------------------------------------------------------------
(* Which plan a call belongs to *)

\* The list has the call h in front of the list t.
Starts(list, h, t) ==
  list \in Seq(Calls) /\ list # <<>> /\ Head(list) = h /\ Tail(list) = t

LEMMA ChildFacts ==
  /\ Server # Client /\ Children = {Server, Client}
  /\ \A c \in Children : Other(c) \in Children /\ Other(c) # c
  /\ \A c \in Children : \A p \in Mine(c) : p \in Processes /\ p[1] = c
  /\ \A c, d \in Children : c # d => Mine(c) \cap Mine(d) = {}
  /\ \A p \in Processes : p[1] \in Children /\ p \in Mine(p[1])
  /\ None \notin Processes /\ DrainGuard \in Nat /\ Chunk \in Nat /\ PipeSize \in Nat
  /\ MaxSessions \in Nat /\ Chunk > 0 /\ Chunk * DrainGuard <= PipeSize
BY SupervisorAssumption DEF Children, Other, Mine, Processes

LEMMA CallsKnown ==
  /\ \A c \in Children : \A n \in Nat : <<"drain", c, n>> \in Calls
  /\ \A c \in Children : \A f \in {"flush", "terminate", "check", "stop", "spawn"} :
        <<f, c, 0>> \in Calls
  /\ \A c \in Children : \A what \in {"exited", "stopped", "failed"} :
        <<"close", c, what>> \in Calls
  /\ \A f \in {"poll", "settle", "stopped"} : <<f, None, 0>> \in Calls
  /\ <<>> \in Seq(Calls)
BY DEF Calls

LEMMA StartsCons ==
  ASSUME NEW x \in Calls, NEW rest \in Seq(Calls)
  PROVE  Starts(Cons(x, rest), x, rest)
BY ConsFacts DEF Starts

LEMMA PollLists ==
  /\ Starts(PollList, <<"poll", None, 0>>, <<>>)
  /\ Starts(SettleList, <<"settle", None, 0>>, <<>>)
  /\ Starts(CheckClientList, <<"check", Client, 0>>, SettleList)
  /\ Starts(CheckList, <<"check", Server, 0>>, CheckClientList)
  /\ \A n \in Nat : Starts(DrainClientList(n), <<"drain", Client, n>>, CheckList)
  /\ \A n \in Nat : Starts(DrainList(n), <<"drain", Server, n>>, DrainClientList(0))
<1>1. Starts(PollList, <<"poll", None, 0>>, <<>>)
  BY CallsKnown, StartsCons DEF PollList
<1>2. Starts(SettleList, <<"settle", None, 0>>, <<>>)
  BY CallsKnown, StartsCons DEF SettleList
<1>3. Starts(CheckClientList, <<"check", Client, 0>>, SettleList)
  BY <1>2, CallsKnown, ChildFacts, StartsCons DEF CheckClientList, Starts
<1>4. Starts(CheckList, <<"check", Server, 0>>, CheckClientList)
  BY <1>3, CallsKnown, ChildFacts, StartsCons DEF CheckList, Starts
<1>5. \A n \in Nat : Starts(DrainClientList(n), <<"drain", Client, n>>, CheckList)
  BY <1>4, CallsKnown, ChildFacts, StartsCons DEF DrainClientList, Starts
<1>6. \A n \in Nat : Starts(DrainList(n), <<"drain", Server, n>>, DrainClientList(0))
  BY <1>5, CallsKnown, ChildFacts, StartsCons DEF DrainList, Starts
<1> QED BY <1>1, <1>2, <1>3, <1>4, <1>5, <1>6

LEMMA ExitLists ==
  ASSUME NEW c \in Children
  PROVE  /\ AfterExit(c) \in Seq(Calls)
         /\ Starts(CloseExitedList(c), <<"close", c, "exited">>, AfterExit(c))
         /\ Starts(FlushExitedList(c), <<"flush", c, 0>>, CloseExitedList(c))
         /\ \A n \in Nat : Starts(DrainExitedList(c, n), <<"drain", c, n>>, FlushExitedList(c))
<1>1. AfterExit(c) \in Seq(Calls)
  BY PollLists DEF AfterExit, Starts
<1>2. Starts(CloseExitedList(c), <<"close", c, "exited">>, AfterExit(c))
  BY <1>1, CallsKnown, StartsCons DEF CloseExitedList
<1>3. Starts(FlushExitedList(c), <<"flush", c, 0>>, CloseExitedList(c))
  BY <1>2, CallsKnown, StartsCons DEF FlushExitedList, Starts
<1>4. \A n \in Nat : Starts(DrainExitedList(c, n), <<"drain", c, n>>, FlushExitedList(c))
  BY <1>3, CallsKnown, StartsCons DEF DrainExitedList, Starts
<1> QED BY <1>1, <1>2, <1>3, <1>4

LEMMA StopLists ==
  ASSUME NEW c \in Children, NEW rest \in {<<>>, PollList}
  PROVE  /\ rest \in Seq(Calls) /\ AfterStop(c, rest) \in Seq(Calls)
         /\ Starts(StoppedList(rest), <<"stopped", None, 0>>, rest)
         /\ Starts(StopList(c, rest), <<"stop", c, 0>>, AfterStop(c, rest))
         /\ Starts(CloseStoppedList(c, rest), <<"close", c, "stopped">>, AfterStop(c, rest))
         /\ Starts(FlushStoppedList(c, rest), <<"flush", c, 0>>, CloseStoppedList(c, rest))
         /\ Starts(TerminateList(c, rest), <<"terminate", c, 0>>, FlushStoppedList(c, rest))
         /\ \A n \in Nat : Starts(DrainStopList(c, n, rest), <<"drain", c, n>>,
                                  TerminateList(c, rest))
<1>1. rest \in Seq(Calls)
  BY PollLists, CallsKnown DEF Starts
<1>2. Starts(StoppedList(rest), <<"stopped", None, 0>>, rest)
  BY <1>1, CallsKnown, StartsCons DEF StoppedList
<1>3. AfterStop(c, rest) \in Seq(Calls)
  BY <1>2, CallsKnown, ChildFacts, ConsFacts DEF AfterStop, Starts
<1>4. Starts(CloseStoppedList(c, rest), <<"close", c, "stopped">>, AfterStop(c, rest))
  BY <1>3, CallsKnown, StartsCons DEF CloseStoppedList
<1>5. Starts(FlushStoppedList(c, rest), <<"flush", c, 0>>, CloseStoppedList(c, rest))
  BY <1>4, CallsKnown, StartsCons DEF FlushStoppedList, Starts
<1>6. Starts(TerminateList(c, rest), <<"terminate", c, 0>>, FlushStoppedList(c, rest))
  BY <1>5, CallsKnown, StartsCons DEF TerminateList, Starts
<1>7. \A n \in Nat : Starts(DrainStopList(c, n, rest), <<"drain", c, n>>,
                            TerminateList(c, rest))
  BY <1>6, CallsKnown, StartsCons DEF DrainStopList, Starts
<1>8. Starts(StopList(c, rest), <<"stop", c, 0>>, AfterStop(c, rest))
  BY <1>3, CallsKnown, StartsCons DEF StopList
<1> QED BY <1>1, <1>2, <1>3, <1>4, <1>5, <1>6, <1>7, <1>8

LEMMA StartLists ==
  /\ \A c \in Children : Starts(Cons(<<"spawn", c, 0>>, PollList), <<"spawn", c, 0>>, PollList)
  /\ Starts(FlushFailedList, <<"flush", Server, 0>>, PollList)
  /\ Starts(CloseFailedList, <<"close", Server, "failed">>, FlushFailedList)
  /\ Starts(UndoList, <<"terminate", Server, 0>>, CloseFailedList)
<1>1. \A c \in Children : Starts(Cons(<<"spawn", c, 0>>, PollList), <<"spawn", c, 0>>, PollList)
  BY PollLists, CallsKnown, StartsCons DEF Starts
<1>2. Starts(FlushFailedList, <<"flush", Server, 0>>, PollList)
  BY PollLists, CallsKnown, ChildFacts, StartsCons DEF FlushFailedList, Starts
<1>3. Starts(CloseFailedList, <<"close", Server, "failed">>, FlushFailedList)
  BY <1>2, CallsKnown, ChildFacts, StartsCons DEF CloseFailedList, Starts
<1>4. Starts(UndoList, <<"terminate", Server, 0>>, CloseFailedList)
  BY <1>3, CallsKnown, ChildFacts, StartsCons DEF UndoList, Starts
<1> QED BY <1>1, <1>2, <1>3, <1>4

-----------------------------------------------------------------------------
(* What a call tells of the plan it belongs to *)

Rests == {<<>>, PollList}

LEMMA FirstIs ==
  ASSUME NEW f, NEW c, NEW x, Call(f, c, x),
         NEW g, NEW d, NEW y, NEW t, Starts(todo, <<g, d, y>>, t)
  PROVE  f = g /\ c = d /\ x = y /\ Tail(todo) = t
BY DEF Call, Starts

LEMMA NotFirst ==
  ASSUME NEW f, NEW c, NEW x, Call(f, c, x),
         NEW list, NEW g, NEW d, NEW y, NEW t, Starts(list, <<g, d, y>>, t), g # f
  PROVE  todo # list
BY FirstIs

LEMMA NoOtherStart ==
  ASSUME NEW f, NEW c, NEW x, Call(f, c, x), NEW g, g # f
  PROVE  \A d, y, t : ~Starts(todo, <<g, d, y>>, t)
BY FirstIs

\* The first call of every list that a plan has
LEMMA FirstCall ==
  ASSUME SupInv, NEW f, NEW c, NEW x, Call(f, c, x)
  PROVE  \/ FramePlan /\ todo = PollList /\ <<f, c, x>> = <<"poll", None, 0>>
         \/ PollPlan /\ f \in {"drain", "check", "settle"}
         \/ StartPlan /\ f \in {"spawn", "terminate", "close", "flush"}
         \/ \E d \in Children : ExitPlan(d) /\ f \in {"drain", "flush", "close"}
         \/ \E rest \in Rests : StoppedPlan(rest) /\ f = "stopped"
         \/ \E rest \in Rests : \E d \in Children :
               StopPlan(d, rest) /\ f \in {"stop", "drain", "terminate", "flush", "close"}
<1>0. todo # <<>> /\ Head(todo) = <<f, c, x>> /\ DrainGuard \in Nat
  BY ChildFacts DEF Call
<1>n. \A n \in 0..DrainGuard : n \in Nat
  BY <1>0
<1>1. CASE FramePlan
  BY <1>0, <1>1, PollLists DEF FramePlan, Starts
<1>2. CASE PollPlan
  <2>1. \/ \E n \in 0..DrainGuard : todo \in {DrainList(n), DrainClientList(n)}
        \/ todo \in {CheckList, CheckClientList, SettleList}
    BY <1>2 DEF PollPlan
  <2>2. \E g \in {"drain", "check", "settle"} : \E d, y, t : Starts(todo, <<g, d, y>>, t)
    BY <1>n, <2>1, PollLists, Zenon
  <2> QED BY <1>2, <2>2, FirstIs
<1>3. CASE StartPlan
  <2>1. \E g \in {"spawn", "terminate", "close", "flush"} :
           \E d, y, t : Starts(todo, <<g, d, y>>, t)
    <3>1. CASE \E e \in Children : todo = Cons(<<"spawn", e, 0>>, PollList)
      BY <3>1, StartLists, Zenon
    <3>2. CASE todo = UndoList
      BY <3>2, StartLists, Zenon
    <3>3. CASE todo = CloseFailedList
      BY <3>3, StartLists, Zenon
    <3>4. CASE todo = FlushFailedList
      BY <3>4, StartLists, Zenon
    <3> QED BY <1>3, <3>1, <3>2, <3>3, <3>4, ChildFacts DEF StartPlan
  <2> QED BY <1>3, <2>1, FirstIs
<1>4. ASSUME NEW d \in Children, ExitPlan(d)
      PROVE  f \in {"drain", "flush", "close"}
  <2>1. \E g \in {"drain", "flush", "close"} : \E e, y, t : Starts(todo, <<g, e, y>>, t)
    BY <1>n, <1>4, ExitLists, Zenon DEF ExitPlan
  <2> QED BY <2>1, FirstIs
<1>5. ASSUME NEW rest \in Rests, StoppedPlan(rest)
      PROVE  f = "stopped"
  <2>1. todo = StoppedList(rest) /\ Server \in Children
    BY <1>5, ChildFacts DEF StoppedPlan
  <2>2. Starts(StoppedList(rest), <<"stopped", None, 0>>, rest)
    BY <2>1, StopLists DEF Rests
  <2> QED BY <2>1, <2>2, FirstIs
<1>6. ASSUME NEW rest \in Rests, NEW d \in Children, StopPlan(d, rest)
      PROVE  f \in {"stop", "drain", "terminate", "flush", "close"}
  <2>1. \E g \in {"stop", "drain", "terminate", "flush", "close"} :
           \E e, y, t : Starts(todo, <<g, e, y>>, t)
    <3> rest \in {<<>>, PollList}
      BY DEF Rests
    <3>1. CASE \E n \in 0..DrainGuard : todo = DrainStopList(d, n, rest)
      <4>1. PICK n \in Nat : todo = DrainStopList(d, n, rest)
        BY <1>n, <3>1
      <4>2. Starts(todo, <<"drain", d, n>>, TerminateList(d, rest))
        BY <4>1, StopLists
      <4> QED BY <4>2, Zenon
    <3>2. CASE todo = StopList(d, rest)
      BY <3>2, StopLists, Zenon
    <3>3. CASE todo = TerminateList(d, rest)
      BY <3>3, StopLists, Zenon
    <3>4. CASE todo = FlushStoppedList(d, rest)
      BY <3>4, StopLists, Zenon
    <3>5. CASE todo = CloseStoppedList(d, rest)
      BY <3>5, StopLists, Zenon
    <3> QED BY <1>6, <3>1, <3>2, <3>3, <3>4, <3>5 DEF StopPlan
  <2> QED BY <2>1, FirstIs
<1> QED BY <1>1, <1>2, <1>3, <1>4, <1>5, <1>6 DEF SupInv, Plan, Rests

LEMMA PollCall ==
  ASSUME SupInv, Call("poll", None, 0)
  PROVE  FramePlan /\ editor = "open" /\ Tail(todo) = <<>>
<1>1. FramePlan /\ todo = PollList
  BY FirstCall
<1>2. Starts(todo, <<"poll", None, 0>>, <<>>)
  BY <1>1, PollLists
<1> QED BY <1>1, <1>2 DEF FramePlan, Starts

LEMMA SettleCall ==
  ASSUME SupInv, Call("settle", None, 0)
  PROVE  Polling /\ Tail(todo) = <<>>
<1>1. PollPlan
  BY FirstCall
<1>2. DrainGuard \in Nat
  BY ChildFacts
<1>3. ASSUME NEW g, NEW d, NEW y, NEW t, Starts(todo, <<g, d, y>>, t), g # "settle"
      PROVE  FALSE
  BY <1>3, FirstIs
<1>4. todo = SettleList
  <2>1. \A n \in 0..DrainGuard : n \in Nat
    BY <1>2
  <2>2. \/ \E n \in 0..DrainGuard : todo = DrainList(n) \/ todo = DrainClientList(n)
        \/ todo = CheckList \/ todo = CheckClientList \/ todo = SettleList
    BY <1>1 DEF PollPlan
  <2> QED BY <1>3, <2>1, <2>2, PollLists, Zenon
<1> QED BY <1>1, <1>4, PollLists DEF PollPlan, Starts

LEMMA CheckCall ==
  ASSUME SupInv, NEW c \in Children, Call("check", c, 0)
  PROVE  Polling /\ Tail(todo) = AfterExit(c)
<1>1. PollPlan
  BY FirstCall
<1>2. \A n \in 0..DrainGuard : n \in Nat
  BY ChildFacts
<1>3. ASSUME NEW g, NEW d, NEW y, NEW t, Starts(todo, <<g, d, y>>, t)
      PROVE  g = "check" /\ d = c /\ t = Tail(todo)
  BY <1>3, FirstIs
<1>4. \/ \E n \in 0..DrainGuard : todo = DrainList(n) \/ todo = DrainClientList(n)
      \/ todo = CheckList \/ todo = CheckClientList \/ todo = SettleList
  BY <1>1 DEF PollPlan
<1>5. todo = CheckList \/ todo = CheckClientList
  <2>1. \A n \in Nat : todo # DrainList(n) /\ todo # DrainClientList(n)
    <3> SUFFICES ASSUME NEW n \in Nat
                 PROVE  todo # DrainList(n) /\ todo # DrainClientList(n)
      OBVIOUS
    <3>1. /\ Starts(DrainClientList(n), <<"drain", Client, n>>, CheckList)
          /\ Starts(DrainList(n), <<"drain", Server, n>>, DrainClientList(0))
      BY PollLists
    <3> QED BY <3>1, NotFirst
  <2>2. todo # SettleList
    BY PollLists, NotFirst
  <2> QED BY <1>2, <1>4, <2>1, <2>2
<1>6. CASE todo = CheckList
  BY <1>1, <1>3, <1>6, PollLists DEF PollPlan, AfterExit
<1>7. CASE todo = CheckClientList
  BY <1>1, <1>3, <1>7, PollLists, ChildFacts DEF PollPlan, AfterExit
<1> QED BY <1>5, <1>6, <1>7

LEMMA DrainCall ==
  ASSUME SupInv, NEW c \in Children, NEW n \in 0..DrainGuard, Call("drain", c, n)
  PROVE  \/ Polling /\ c = Server /\ Tail(todo) = DrainClientList(0)
         \/ Polling /\ c = Client /\ Tail(todo) = CheckList
         \/ /\ Exiting(c) /\ slot[c].stdout /\ LeftAfter(c, n)
            /\ Tail(todo) = FlushExitedList(c)
         \/ \E rest \in Rests :
               Stopping(c, rest) /\ Runs(c) /\ Tail(todo) = TerminateList(c, rest)
<1>2. \A m \in 0..DrainGuard : m \in Nat
  BY ChildFacts
<1>3. ASSUME NEW g, NEW d, NEW y, NEW t, Starts(todo, <<g, d, y>>, t)
      PROVE  g = "drain" /\ d = c /\ y = n /\ t = Tail(todo)
  BY <1>3, FirstIs
<1>4. CASE PollPlan
  <2>1. \/ \E m \in 0..DrainGuard : todo = DrainList(m) \/ todo = DrainClientList(m)
        \/ todo = CheckList \/ todo = CheckClientList \/ todo = SettleList
    BY <1>4 DEF PollPlan
  <2>2. \E m \in Nat : todo = DrainList(m) \/ todo = DrainClientList(m)
    <3>1. todo # CheckList /\ todo # CheckClientList /\ todo # SettleList
      BY PollLists, NotFirst
    <3> QED BY <1>2, <2>1, <3>1
  <2>3. PICK m \in Nat : todo = DrainList(m) \/ todo = DrainClientList(m)
    BY <2>2
  <2>4. CASE todo = DrainList(m)
    BY <1>3, <1>4, <2>4, PollLists DEF PollPlan
  <2>5. CASE todo = DrainClientList(m)
    BY <1>3, <1>4, <2>5, PollLists DEF PollPlan
  <2> QED BY <2>3, <2>4, <2>5
<1>5. ASSUME NEW d \in Children, ExitPlan(d)
      PROVE  Exiting(c) /\ slot[c].stdout /\ LeftAfter(c, n) /\ Tail(todo) = FlushExitedList(c)
  <2>1. PICK m \in Nat : todo = DrainExitedList(d, m) /\ slot[d].stdout /\ LeftAfter(d, m)
    <3>1. todo # FlushExitedList(d) /\ todo # CloseExitedList(d)
      <4>1. /\ Starts(CloseExitedList(d), <<"close", d, "exited">>, AfterExit(d))
            /\ Starts(FlushExitedList(d), <<"flush", d, 0>>, CloseExitedList(d))
        BY ExitLists
      <4> QED BY <4>1, NotFirst
    <3> QED BY <1>2, <1>5, <3>1 DEF ExitPlan
  <2>2. Starts(todo, <<"drain", d, m>>, FlushExitedList(d))
    BY <2>1, ExitLists
  <2>3. d = c /\ m = n /\ FlushExitedList(d) = Tail(todo)
    BY <1>3, <2>2
  <2> QED BY <1>5, <2>1, <2>3 DEF ExitPlan
<1>6. ASSUME NEW rest \in Rests, NEW d \in Children, StopPlan(d, rest)
      PROVE  Stopping(c, rest) /\ Runs(c) /\ Tail(todo) = TerminateList(c, rest)
  <2> rest \in {<<>>, PollList}
    BY DEF Rests
  <2>1. /\ todo # StopList(d, rest) /\ todo # TerminateList(d, rest)
        /\ todo # FlushStoppedList(d, rest) /\ todo # CloseStoppedList(d, rest)
    <3>1. /\ Starts(StopList(d, rest), <<"stop", d, 0>>, AfterStop(d, rest))
          /\ Starts(CloseStoppedList(d, rest), <<"close", d, "stopped">>, AfterStop(d, rest))
          /\ Starts(FlushStoppedList(d, rest), <<"flush", d, 0>>, CloseStoppedList(d, rest))
          /\ Starts(TerminateList(d, rest), <<"terminate", d, 0>>, FlushStoppedList(d, rest))
      BY StopLists
    <3> QED BY <3>1, NotFirst
  <2>2. PICK m \in Nat : todo = DrainStopList(d, m, rest) /\ Runs(d)
    BY <1>2, <1>6, <2>1 DEF StopPlan
  <2>3. Starts(todo, <<"drain", d, m>>, TerminateList(d, rest))
    BY <2>2, StopLists
  <2>4. d = c /\ TerminateList(d, rest) = Tail(todo)
    BY <1>3, <2>3
  <2> QED BY <1>6, <2>2, <2>4 DEF StopPlan
<1>7. \/ PollPlan
      \/ \E d \in Children : ExitPlan(d)
      \/ \E rest \in Rests : \E d \in Children : StopPlan(d, rest)
  BY FirstCall
<1> QED BY <1>4, <1>5, <1>6, <1>7

\* The lists of one child, once more, each by its first call
LEMMA ExitStarts ==
  ASSUME NEW d \in Children, ExitPlan(d)
  PROVE  \/ \E n, t : Starts(todo, <<"drain", d, n>>, t)
         \/ /\ Starts(todo, <<"flush", d, 0>>, CloseExitedList(d))
            /\ slot[d].stdout /\ LeftAfter(d, DrainGuard)
         \/ Starts(todo, <<"close", d, "exited">>, AfterExit(d)) /\ ~slot[d].stdout
<1>1. \A n \in 0..DrainGuard : n \in Nat
  BY ChildFacts
<1>2. CASE \E n \in 0..DrainGuard : todo = DrainExitedList(d, n)
  <2>1. PICK n \in Nat : todo = DrainExitedList(d, n)
    BY <1>1, <1>2
  <2>2. Starts(todo, <<"drain", d, n>>, FlushExitedList(d))
    BY <2>1, ExitLists
  <2> QED BY <2>2
<1>3. CASE todo = FlushExitedList(d) /\ slot[d].stdout /\ LeftAfter(d, DrainGuard)
  BY <1>3, ExitLists
<1>4. CASE todo = CloseExitedList(d) /\ ~slot[d].stdout
  BY <1>4, ExitLists
<1> QED BY <1>2, <1>3, <1>4 DEF ExitPlan

LEMMA StopStarts ==
  ASSUME NEW rest \in Rests, NEW d \in Children, StopPlan(d, rest)
  PROVE  \/ Starts(todo, <<"stop", d, 0>>, AfterStop(d, rest)) /\ Calm(d)
         \/ \E n, t : Starts(todo, <<"drain", d, n>>, t)
         \/ Starts(todo, <<"terminate", d, 0>>, FlushStoppedList(d, rest)) /\ Runs(d)
         \/ /\ Starts(todo, <<"flush", d, 0>>, CloseStoppedList(d, rest))
            /\ Runs(d) /\ Of(d).state # "live"
         \/ /\ Starts(todo, <<"close", d, "stopped">>, AfterStop(d, rest))
            /\ slot[d].running /\ ~slot[d].stdout /\ Of(d).state # "live"
<1>1. \A n \in 0..DrainGuard : n \in Nat
  BY ChildFacts
<1> rest \in {<<>>, PollList}
  BY DEF Rests
<1>2. CASE \E n \in 0..DrainGuard : todo = DrainStopList(d, n, rest)
  <2>1. PICK n \in Nat : todo = DrainStopList(d, n, rest)
    BY <1>1, <1>2
  <2>2. Starts(todo, <<"drain", d, n>>, TerminateList(d, rest))
    BY <2>1, StopLists
  <2> QED BY <2>2
<1>3. CASE todo = StopList(d, rest) /\ Calm(d)
  BY <1>3, StopLists
<1>4. CASE todo = TerminateList(d, rest) /\ Runs(d)
  BY <1>4, StopLists
<1>5. CASE todo = FlushStoppedList(d, rest) /\ Runs(d) /\ Of(d).state # "live"
  BY <1>5, StopLists
<1>6. CASE /\ todo = CloseStoppedList(d, rest)
           /\ slot[d].running /\ ~slot[d].stdout /\ Of(d).state # "live"
  BY <1>6, StopLists
<1> QED BY <1>2, <1>3, <1>4, <1>5, <1>6 DEF StopPlan

LEMMA StartStarts ==
  ASSUME StartPlan
  PROVE  \/ /\ Starts(todo, <<"spawn", Server, 0>>, PollList)
            /\ Gone(Server) /\ session > 0
         \/ /\ Starts(todo, <<"spawn", Client, 0>>, PollList)
            /\ Runs(Server) /\ session > 0
         \/ Starts(todo, <<"terminate", Server, 0>>, CloseFailedList) /\ Runs(Server)
         \/ /\ Starts(todo, <<"close", Server, "failed">>, FlushFailedList)
            /\ Runs(Server) /\ Of(Server).state # "live"
         \/ /\ Starts(todo, <<"flush", Server, 0>>, PollList)
            /\ ~slot[Server].running /\ \A p \in Mine(Server) : ~os[p].handles
<1>1. CASE todo = UndoList /\ Runs(Server)
  BY <1>1, StartLists
<1>2. CASE todo = CloseFailedList /\ Runs(Server) /\ Of(Server).state # "live"
  BY <1>2, StartLists
<1>3. CASE /\ todo = FlushFailedList
           /\ ~slot[Server].running /\ \A p \in Mine(Server) : ~os[p].handles
  BY <1>3, StartLists
<1>4. CASE todo = Cons(<<"spawn", Server, 0>>, PollList) /\ Gone(Server) /\ session > 0
  BY <1>4, StartLists, ChildFacts
<1>5. CASE todo = Cons(<<"spawn", Client, 0>>, PollList) /\ Runs(Server) /\ session > 0
  BY <1>5, StartLists, ChildFacts
<1> QED BY <1>1, <1>2, <1>3, <1>4, <1>5 DEF StartPlan

LEMMA FlushCall ==
  ASSUME SupInv, NEW c \in Children, Call("flush", c, 0)
  PROVE  \/ /\ Exiting(c) /\ slot[c].stdout /\ LeftAfter(c, DrainGuard)
            /\ Tail(todo) = CloseExitedList(c)
         \/ \E rest \in Rests :
               /\ Stopping(c, rest) /\ Runs(c) /\ Of(c).state # "live"
               /\ Tail(todo) = CloseStoppedList(c, rest)
         \/ /\ Starting /\ c = Server /\ Tail(todo) = PollList
            /\ ~slot[Server].running /\ \A p \in Mine(Server) : ~os[p].handles
<1>1. ASSUME NEW g, NEW d, NEW y, NEW t, Starts(todo, <<g, d, y>>, t)
      PROVE  g = "flush" /\ d = c /\ t = Tail(todo)
  BY <1>1, FirstIs
<1>2. ASSUME NEW d \in Children, ExitPlan(d)
      PROVE  /\ Exiting(c) /\ slot[c].stdout /\ LeftAfter(c, DrainGuard)
             /\ Tail(todo) = CloseExitedList(c)
  <2>1. /\ Starts(todo, <<"flush", d, 0>>, CloseExitedList(d))
        /\ slot[d].stdout /\ LeftAfter(d, DrainGuard)
    <3>1. \A e, y, t : ~Starts(todo, <<"drain", e, y>>, t)
      BY NoOtherStart
    <3>2. \A e, y, t : ~Starts(todo, <<"close", e, y>>, t)
      BY NoOtherStart
    <3> QED BY <1>2, <3>1, <3>2, ExitStarts
  <2>2. d = c /\ CloseExitedList(d) = Tail(todo)
    BY <1>1, <2>1
  <2> QED BY <1>2, <2>1, <2>2 DEF ExitPlan
<1>3. ASSUME NEW rest \in Rests, NEW d \in Children, StopPlan(d, rest)
      PROVE  /\ Stopping(c, rest) /\ Runs(c) /\ Of(c).state # "live"
             /\ Tail(todo) = CloseStoppedList(c, rest)
  <2>1. /\ Starts(todo, <<"flush", d, 0>>, CloseStoppedList(d, rest))
        /\ Runs(d) /\ Of(d).state # "live"
    <3>1. \A e, y, t : ~Starts(todo, <<"stop", e, y>>, t)
      BY NoOtherStart
    <3>2. \A e, y, t : ~Starts(todo, <<"drain", e, y>>, t)
      BY NoOtherStart
    <3>3. \A e, y, t : ~Starts(todo, <<"terminate", e, y>>, t)
      BY NoOtherStart
    <3>4. \A e, y, t : ~Starts(todo, <<"close", e, y>>, t)
      BY NoOtherStart
    <3> QED BY <1>3, <3>1, <3>2, <3>3, <3>4, StopStarts
  <2>2. d = c /\ CloseStoppedList(d, rest) = Tail(todo)
    BY <1>1, <2>1
  <2> QED BY <1>3, <2>1, <2>2 DEF StopPlan
<1>4. ASSUME StartPlan
      PROVE  /\ Starting /\ c = Server /\ Tail(todo) = PollList
             /\ ~slot[Server].running /\ \A p \in Mine(Server) : ~os[p].handles
  <2>1. /\ Starts(todo, <<"flush", Server, 0>>, PollList)
        /\ ~slot[Server].running /\ \A p \in Mine(Server) : ~os[p].handles
    BY <1>1, <1>4, StartStarts
  <2> QED BY <1>1, <1>4, <2>1 DEF StartPlan
<1>5. \/ StartPlan
      \/ \E d \in Children : ExitPlan(d)
      \/ \E rest \in Rests : \E d \in Children : StopPlan(d, rest)
  BY FirstCall
<1> QED BY <1>2, <1>3, <1>4, <1>5

LEMMA CloseCall ==
  ASSUME SupInv, NEW c \in Children, NEW what, Call("close", c, what)
  PROVE  \/ /\ Exiting(c) /\ ~slot[c].stdout /\ Tail(todo) = AfterExit(c)
         \/ \E rest \in Rests :
               /\ Stopping(c, rest) /\ Of(c).state # "live"
               /\ slot[c].running /\ ~slot[c].stdout
               /\ Tail(todo) = AfterStop(c, rest)
         \/ /\ Starting /\ c = Server /\ Runs(Server) /\ Of(Server).state # "live"
            /\ Tail(todo) = FlushFailedList
<1>1. ASSUME NEW g, NEW d, NEW y, NEW t, Starts(todo, <<g, d, y>>, t)
      PROVE  g = "close" /\ d = c /\ t = Tail(todo)
  BY <1>1, FirstIs
<1>2. ASSUME NEW d \in Children, ExitPlan(d)
      PROVE  Exiting(c) /\ ~slot[c].stdout /\ Tail(todo) = AfterExit(c)
  <2>1. Starts(todo, <<"close", d, "exited">>, AfterExit(d)) /\ ~slot[d].stdout
    <3>1. \A e, y, t : ~Starts(todo, <<"drain", e, y>>, t)
      BY NoOtherStart
    <3>2. \A e, y, t : ~Starts(todo, <<"flush", e, y>>, t)
      BY NoOtherStart
    <3> QED BY <1>2, <3>1, <3>2, ExitStarts
  <2>2. d = c /\ AfterExit(d) = Tail(todo)
    BY <1>1, <2>1
  <2> QED BY <1>2, <2>1, <2>2 DEF ExitPlan
<1>3. ASSUME NEW rest \in Rests, NEW d \in Children, StopPlan(d, rest)
      PROVE  /\ Stopping(c, rest) /\ Of(c).state # "live"
             /\ slot[c].running /\ ~slot[c].stdout
             /\ Tail(todo) = AfterStop(c, rest)
  <2>1. /\ Starts(todo, <<"close", d, "stopped">>, AfterStop(d, rest))
        /\ slot[d].running /\ ~slot[d].stdout /\ Of(d).state # "live"
    <3>1. \A e, y, t : ~Starts(todo, <<"stop", e, y>>, t)
      BY NoOtherStart
    <3>2. \A e, y, t : ~Starts(todo, <<"drain", e, y>>, t)
      BY NoOtherStart
    <3>3. \A e, y, t : ~Starts(todo, <<"terminate", e, y>>, t)
      BY NoOtherStart
    <3>4. \A e, y, t : ~Starts(todo, <<"flush", e, y>>, t)
      BY NoOtherStart
    <3> QED BY <1>3, <3>1, <3>2, <3>3, <3>4, StopStarts
  <2>2. d = c /\ AfterStop(d, rest) = Tail(todo)
    BY <1>1, <2>1
  <2> QED BY <1>3, <2>1, <2>2 DEF StopPlan
<1>4. ASSUME StartPlan
      PROVE  /\ Starting /\ c = Server /\ Runs(Server) /\ Of(Server).state # "live"
             /\ Tail(todo) = FlushFailedList
  <2>1. /\ Starts(todo, <<"close", Server, "failed">>, FlushFailedList)
        /\ Runs(Server) /\ Of(Server).state # "live"
    BY <1>1, <1>4, StartStarts
  <2> QED BY <1>1, <1>4, <2>1 DEF StartPlan
<1>5. \/ StartPlan
      \/ \E d \in Children : ExitPlan(d)
      \/ \E rest \in Rests : \E d \in Children : StopPlan(d, rest)
  BY FirstCall
<1> QED BY <1>2, <1>3, <1>4, <1>5

LEMMA TerminateCall ==
  ASSUME SupInv, NEW c \in Children, Call("terminate", c, 0)
  PROVE  \/ \E rest \in Rests :
               Stopping(c, rest) /\ Runs(c) /\ Tail(todo) = FlushStoppedList(c, rest)
         \/ Starting /\ c = Server /\ Runs(Server) /\ Tail(todo) = CloseFailedList
<1>1. ASSUME NEW g, NEW d, NEW y, NEW t, Starts(todo, <<g, d, y>>, t)
      PROVE  g = "terminate" /\ d = c /\ t = Tail(todo)
  BY <1>1, FirstIs
<1>3. ASSUME NEW rest \in Rests, NEW d \in Children, StopPlan(d, rest)
      PROVE  Stopping(c, rest) /\ Runs(c) /\ Tail(todo) = FlushStoppedList(c, rest)
  <2>1. Starts(todo, <<"terminate", d, 0>>, FlushStoppedList(d, rest)) /\ Runs(d)
    <3>1. \A e, y, t : ~Starts(todo, <<"stop", e, y>>, t)
      BY NoOtherStart
    <3>2. \A e, y, t : ~Starts(todo, <<"drain", e, y>>, t)
      BY NoOtherStart
    <3>3. \A e, y, t : ~Starts(todo, <<"flush", e, y>>, t)
      BY NoOtherStart
    <3>4. \A e, y, t : ~Starts(todo, <<"close", e, y>>, t)
      BY NoOtherStart
    <3> QED BY <1>3, <3>1, <3>2, <3>3, <3>4, StopStarts
  <2>2. d = c /\ FlushStoppedList(d, rest) = Tail(todo)
    BY <1>1, <2>1
  <2> QED BY <1>3, <2>1, <2>2 DEF StopPlan
<1>4. ASSUME StartPlan
      PROVE  Starting /\ c = Server /\ Runs(Server) /\ Tail(todo) = CloseFailedList
  <2>1. Starts(todo, <<"terminate", Server, 0>>, CloseFailedList) /\ Runs(Server)
    BY <1>1, <1>4, StartStarts
  <2> QED BY <1>1, <1>4, <2>1 DEF StartPlan
<1>5. \/ StartPlan
      \/ \E rest \in Rests : \E d \in Children : StopPlan(d, rest)
  BY FirstCall
<1> QED BY <1>3, <1>4, <1>5

LEMMA StopCall ==
  ASSUME SupInv, NEW c \in Children, Call("stop", c, 0)
  PROVE  \E rest \in Rests : Stopping(c, rest) /\ Calm(c) /\ Tail(todo) = AfterStop(c, rest)
<1>1. ASSUME NEW g, NEW d, NEW y, NEW t, Starts(todo, <<g, d, y>>, t)
      PROVE  g = "stop" /\ d = c /\ t = Tail(todo)
  BY <1>1, FirstIs
<1>2. PICK rest \in Rests : \E d \in Children : StopPlan(d, rest)
  BY FirstCall
<1>3. PICK d \in Children : StopPlan(d, rest)
  BY <1>2
<1>4. Starts(todo, <<"stop", d, 0>>, AfterStop(d, rest)) /\ Calm(d)
  <2>1. \A e, y, t : ~Starts(todo, <<"drain", e, y>>, t)
    BY NoOtherStart
  <2>2. \A e, y, t : ~Starts(todo, <<"terminate", e, y>>, t)
    BY NoOtherStart
  <2>3. \A e, y, t : ~Starts(todo, <<"flush", e, y>>, t)
    BY NoOtherStart
  <2>4. \A e, y, t : ~Starts(todo, <<"close", e, y>>, t)
    BY NoOtherStart
  <2> QED BY <1>3, <2>1, <2>2, <2>3, <2>4, StopStarts
<1>5. d = c /\ AfterStop(d, rest) = Tail(todo)
  BY <1>1, <1>4
<1> QED BY <1>3, <1>4, <1>5 DEF StopPlan

LEMMA StoppedCall ==
  ASSUME SupInv, Call("stopped", None, 0)
  PROVE  \E rest \in Rests : StoppedPlan(rest) /\ Tail(todo) = rest
<1>1. PICK rest \in Rests : StoppedPlan(rest)
  BY FirstCall
<1>2. Starts(StoppedList(rest), <<"stopped", None, 0>>, rest)
  BY StopLists, ChildFacts DEF Rests
<1> QED BY <1>1, <1>2 DEF StoppedPlan, Starts

LEMMA SpawnCall ==
  ASSUME SupInv, NEW c \in Children, Call("spawn", c, 0)
  PROVE  /\ Starting /\ session > 0 /\ Tail(todo) = PollList
         /\ IF c = Server THEN Gone(Server) ELSE Runs(Server)
<1>1. ASSUME NEW g, NEW d, NEW y, NEW t, Starts(todo, <<g, d, y>>, t)
      PROVE  g = "spawn" /\ d = c /\ t = Tail(todo)
  BY <1>1, FirstIs
<1>2. StartPlan
  BY FirstCall
<1>3. \/ Starts(todo, <<"spawn", Server, 0>>, PollList) /\ Gone(Server) /\ session > 0
      \/ Starts(todo, <<"spawn", Client, 0>>, PollList) /\ Runs(Server) /\ session > 0
  BY <1>1, <1>2, StartStarts
<1> QED BY <1>1, <1>2, <1>3, ChildFacts DEF StartPlan

\* Between frames
LEMMA NoCall ==
  ASSUME SupInv, todo = <<>>
  PROVE  FramePlan
<1>1. ASSUME NEW h, NEW t, Starts(todo, h, t)
      PROVE  FALSE
  BY <1>1 DEF Starts
<1>2. ~StartPlan
  BY <1>1, StartStarts
<1>3. ~PollPlan
  <2>1. \A n \in 0..DrainGuard : n \in Nat
    BY ChildFacts
  <2>2. todo # CheckList /\ todo # CheckClientList /\ todo # SettleList
    BY <1>1, PollLists
  <2>3. \A n \in Nat : todo # DrainList(n) /\ todo # DrainClientList(n)
    BY <1>1, PollLists
  <2> QED BY <2>1, <2>2, <2>3 DEF PollPlan
<1>4. ASSUME NEW d \in Children
      PROVE  ~ExitPlan(d)
  BY <1>1, ExitStarts
<1>5. ASSUME NEW rest \in Rests
      PROVE  ~StoppedPlan(rest) /\ \A d \in Children : ~StopPlan(d, rest)
  <2>1. Starts(StoppedList(rest), <<"stopped", None, 0>>, rest)
    BY StopLists, ChildFacts DEF Rests
  <2> QED BY <1>1, <2>1, StopStarts DEF StoppedPlan
<1> QED BY <1>2, <1>3, <1>4, <1>5 DEF SupInv, Plan, Rests

-----------------------------------------------------------------------------
(* What a step keeps *)

\* A step that touches neither a slot nor a process
LEMMA SameBase ==
  ASSUME Base, slot' = slot, os' = os, RestType'
  PROVE  /\ Base'
         /\ \A c : Runs(c)' = Runs(c) /\ Gone(c)' = Gone(c) /\ Calm(c)' = Calm(c)
<1>1. SlotType' /\ OsType'
  BY DEF Base, SlotType, OsType
<1>2. Pipes' /\ Owned'
  BY DEF Base, Pipes, Unread, Owned, OwnedBy, Of
<1> QED BY <1>1, <1>2 DEF Base, Runs, Gone, Calm

\* The types of both arrays, field by field
LEMMA Fields ==
  ASSUME Base
  PROVE  /\ \A c \in Children :
               /\ slot[c].running \in BOOLEAN /\ slot[c].stdout \in BOOLEAN
               /\ slot[c].process \in Mine(c) \cup {None}
         /\ \A p \in Processes :
               /\ os[p].state \in {"none", "live", "dying", "dead"}
               /\ os[p].handles \in BOOLEAN
               /\ os[p].wrote \in Nat /\ os[p].taken \in Nat
               /\ os[p].taken <= os[p].wrote
               /\ Unread(p) \in Nat /\ Unread(p) <= PipeSize
<1>1. PICK lines : slot \in [Children -> [process : Processes \cup {None}, running : BOOLEAN,
                                          stdout : BOOLEAN, line : lines]]
  BY DEF Base, SlotType
<1>2. \A c \in Children : slot[c].running \in BOOLEAN /\ slot[c].stdout \in BOOLEAN
  BY <1>1
<1>3. \A c \in Children : slot[c].process \in Mine(c) \cup {None}
  BY DEF Base, Owned, OwnedBy
<1>4. \A p \in Processes :
               /\ os[p].state \in {"none", "live", "dying", "dead"}
               /\ os[p].handles \in BOOLEAN
               /\ os[p].wrote \in Nat /\ os[p].taken \in Nat
  BY DEF Base, OsType
<1>5. \A p \in Processes : os[p].taken <= os[p].wrote /\ Unread(p) <= PipeSize
  BY DEF Base, Pipes
<1> QED BY <1>2, <1>3, <1>4, <1>5 DEF Unread

\* Assigning to the slot of one child
LEMMA SlotStep ==
  ASSUME Base, NEW c \in Children, NEW r,
         r.process \in Processes \cup {None}, r.running \in BOOLEAN, r.stdout \in BOOLEAN,
         r = [process |-> r.process, running |-> r.running, stdout |-> r.stdout,
              line |-> r.line],
         slot' = [slot EXCEPT ![c] = r]
  PROVE  /\ SlotType'
         /\ slot'[c] = r
         /\ \A d \in Children : d # c => slot'[d] = slot[d]
<1>1. PICK lines : slot \in [Children -> [process : Processes \cup {None}, running : BOOLEAN,
                                          stdout : BOOLEAN, line : lines]]
  BY DEF Base, SlotType
<1> DEFINE more == lines \cup {r.line}
<1>2. slot \in [Children -> [process : Processes \cup {None}, running : BOOLEAN,
                             stdout : BOOLEAN, line : more]]
  <2>1. \A d \in Children : slot[d] \in [process : Processes \cup {None}, running : BOOLEAN,
                             stdout : BOOLEAN, line : more]
    BY <1>1
  <2> QED BY <1>1, <2>1
<1>3. r \in [process : Processes \cup {None}, running : BOOLEAN,
             stdout : BOOLEAN, line : more]
  OBVIOUS
<1> HIDE DEF more
<1>4. slot' \in [Children -> [process : Processes \cup {None}, running : BOOLEAN,
                             stdout : BOOLEAN, line : more]]
  BY <1>2, <1>3
<1> QED BY <1>1, <1>4 DEF SlotType

\* Changing one process
LEMMA OsStep ==
  ASSUME Base, NEW p \in Processes, NEW r,
         r \in [state : {"none", "live", "dying", "dead"}, handles : BOOLEAN,
                wrote : Nat, taken : Nat],
         r.taken <= r.wrote, r.wrote - r.taken <= PipeSize,
         os' = [os EXCEPT ![p] = r]
  PROVE  /\ OsType' /\ Pipes'
         /\ os'[p] = r
         /\ \A q \in Processes : q # p => os'[q] = os[q]
<1>1. os'[p] = r /\ \A q \in Processes : q # p => os'[q] = os[q]
  BY DEF Base, OsType
<1>2. OsType'
  BY DEF Base, OsType
<1>3. Pipes'
  BY <1>1 DEF Base, Pipes, Unread
<1> QED BY <1>1, <1>2, <1>3

-----------------------------------------------------------------------------
(* Steps of the frame that change neither a slot nor a process *)

LEMMA PollStep ==
  ASSUME SupInv, Poll
  PROVE  SupInv'
<1>1. FramePlan /\ editor = "open" /\ Tail(todo) = <<>>
  BY PollCall DEF Poll
<1>2. UNCHANGED <<slot, active, os, session, editor>> /\ slot' = slot /\ os' = os
  BY DEF Poll
<1>3. CASE active
  <2>1. todo' = PollCalls \o <<>>
    BY <1>1, <1>3 DEF Poll, Then
  <2>2. todo' = DrainList(0)
    <3> DEFINE v == <<"drain", Server, 0>>
               w == <<"drain", Client, 0>>
               x == <<"check", Server, 0>>
               y == <<"check", Client, 0>>
               z == <<"settle", None, 0>>
               none == <<>>
    <3>0. none \in Seq(Calls)
      BY CallsKnown
    <3>1. v \in Calls /\ w \in Calls /\ x \in Calls /\ y \in Calls /\ z \in Calls
      BY CallsKnown, ChildFacts
    <3>2. todo' = <<v, w, x, y, z>> \o none
      BY <2>1 DEF PollCalls
    <3>3. DrainList(0) = Cons(v, Cons(w, Cons(x, Cons(y, Cons(z, none)))))
      BY DEF DrainList, DrainClientList, CheckList, CheckClientList, SettleList
    <3> HIDE DEF v, w, x, y, z, none
    <3>4. <<v, w, x, y, z>> \o none = Cons(v, Cons(w, Cons(x, Cons(y, Cons(z, none)))))
      BY <3>0, <3>1, ConsFive, SMTT(60)
    <3> QED BY <3>2, <3>3, <3>4
  <2>3. RestType'
    BY <1>2, <2>2, PollLists DEF SupInv, Base, RestType, Starts
  <2>4. Base' /\ \A c : Runs(c)' = Runs(c) /\ Gone(c)' = Gone(c) /\ Calm(c)' = Calm(c)
    BY <1>2, <2>3, SameBase DEF SupInv
  <2>5. Polling'
    BY <1>1, <1>2, <1>3, <2>4 DEF FramePlan, Polling
  <2>6. PollPlan'
    BY <2>2, <2>5, ChildFacts DEF PollPlan
  <2> QED BY <2>4, <2>6 DEF SupInv, Plan
<1>4. CASE ~active
  <2>1. todo' = <<>>
    BY <1>1, <1>4, CallsKnown DEF Poll, Then
  <2>2. RestType'
    BY <1>2, <2>1, CallsKnown DEF SupInv, Base, RestType
  <2>3. Base' /\ \A c : Runs(c)' = Runs(c) /\ Gone(c)' = Gone(c) /\ Calm(c)' = Calm(c)
    BY <1>2, <2>2, SameBase DEF SupInv
  <2>4. FramePlan'
    BY <1>1, <1>2, <2>1, <2>3 DEF FramePlan
  <2> QED BY <2>3, <2>4 DEF SupInv, Plan
<1> QED BY <1>3, <1>4

LEMMA SettleStep ==
  ASSUME SupInv, Settle
  PROVE  SupInv'
<1>1. Polling /\ Tail(todo) = <<>>
  BY SettleCall DEF Settle
<1>2. /\ UNCHANGED <<slot, os, session, editor>> /\ slot' = slot /\ os' = os
      /\ active' = (active /\ Settled)
  BY DEF Settle
<1>3. todo' = <<>>
  BY <1>1, CallsKnown DEF Settle, Then
<1>4. RestType'
  BY <1>2, <1>3, CallsKnown, Fields, ChildFacts DEF SupInv, Base, RestType, Settled
<1>5. Base' /\ \A c : Runs(c)' = Runs(c) /\ Gone(c)' = Gone(c) /\ Calm(c)' = Calm(c)
  BY <1>2, <1>4, SameBase DEF SupInv
<1>6. ~active' => Gone(Server) /\ Gone(Client)
  BY <1>1, <1>2 DEF Polling, Settled, Calm, Runs
<1>7. FramePlan'
  BY <1>1, <1>2, <1>3, <1>5, <1>6 DEF FramePlan, Polling
<1> QED BY <1>5, <1>7 DEF SupInv, Plan

LEMMA StopChildStep ==
  ASSUME SupInv, NEW c \in Children, StopChild(c)
  PROVE  SupInv'
<1>1. PICK rest \in Rests : Stopping(c, rest) /\ Calm(c) /\ Tail(todo) = AfterStop(c, rest)
  BY StopCall DEF StopChild
<1> rest \in {<<>>, PollList}
  BY DEF Rests
<1>2. UNCHANGED <<slot, active, os, session, editor>> /\ slot' = slot /\ os' = os
  BY DEF StopChild
<1>3. rest \in Seq(Calls) /\ AfterStop(c, rest) \in Seq(Calls)
  BY StopLists
<1>4. CASE slot[c].running
  <2>1. todo' = StopCalls(c) \o AfterStop(c, rest)
    BY <1>1, <1>4 DEF StopChild, Then
  <2>2. todo' = DrainStopList(c, 0, rest)
    <3> DEFINE w == <<"drain", c, 0>>
               x == <<"terminate", c, 0>>
               y == <<"flush", c, 0>>
               z == <<"close", c, "stopped">>
    <3>1. w \in Calls /\ x \in Calls /\ y \in Calls /\ z \in Calls
      BY CallsKnown
    <3>2. todo' = <<w, x, y, z>> \o AfterStop(c, rest)
      BY <2>1 DEF StopCalls
    <3>3. DrainStopList(c, 0, rest) = Cons(w, Cons(x, Cons(y, Cons(z, AfterStop(c, rest)))))
      BY DEF DrainStopList, TerminateList, FlushStoppedList, CloseStoppedList
    <3> HIDE DEF w, x, y, z
    <3>4. <<w, x, y, z>> \o AfterStop(c, rest)
            = Cons(w, Cons(x, Cons(y, Cons(z, AfterStop(c, rest)))))
      BY <1>3, <3>1, ConsFour
    <3> QED BY <3>2, <3>3, <3>4
  <2>3. RestType'
    BY <1>2, <2>2, StopLists DEF SupInv, Base, RestType, Starts
  <2>4. Base' /\ \A d : Runs(d)' = Runs(d) /\ Gone(d)' = Gone(d) /\ Calm(d)' = Calm(d)
    BY <1>2, <2>3, SameBase DEF SupInv
  <2>5. Stopping(c, rest)'
    BY <1>1, <1>2, <2>4 DEF Stopping, Rest
  <2>6. Runs(c)'
    BY <1>1, <1>4, <2>4 DEF Calm, Gone
  <2>7. StopPlan(c, rest)'
    BY <2>2, <2>5, <2>6, ChildFacts DEF StopPlan
  <2> QED BY <2>4, <2>7 DEF SupInv, Plan
<1>5. CASE ~slot[c].running
  <2>1. todo' = AfterStop(c, rest)
    BY <1>1, <1>3, <1>5, ConsOne DEF StopChild, Then
  <2>2. RestType'
    BY <1>2, <1>3, <2>1 DEF SupInv, Base, RestType
  <2>3. Base' /\ \A d : Runs(d)' = Runs(d) /\ Gone(d)' = Gone(d) /\ Calm(d)' = Calm(d)
    BY <1>2, <2>2, SameBase DEF SupInv
  <2>4. Gone(c)'
    BY <1>1, <1>5, <2>3 DEF Calm, Runs
  <2>5. CASE c = Server
    <3>1. Stopping(Client, rest)' /\ Calm(Client)'
      BY <1>1, <1>2, <2>3, <2>4, <2>5, ChildFacts DEF Stopping, Rest
    <3>2. StopPlan(Client, rest)'
      BY <2>1, <2>5, <3>1, ChildFacts DEF StopPlan, AfterStop, StopList
    <3> QED BY <2>3, <3>2, ChildFacts DEF SupInv, Plan
  <2>6. CASE c = Client
    <3>1. StoppedPlan(rest)'
      BY <1>1, <1>2, <2>1, <2>3, <2>4, <2>6, ChildFacts
         DEF Stopping, Rest, StoppedPlan, AfterStop
    <3> QED BY <2>3, <3>1 DEF SupInv, Plan
  <2> QED BY <2>5, <2>6, ChildFacts
<1> QED BY <1>4, <1>5

LEMMA StoppedStep ==
  ASSUME SupInv, Stopped
  PROVE  SupInv'
<1>1. PICK rest \in Rests : StoppedPlan(rest) /\ Tail(todo) = rest
  BY StoppedCall DEF Stopped
<1>2. /\ UNCHANGED <<slot, os, session, editor>> /\ slot' = slot /\ os' = os
      /\ active' = FALSE
  BY DEF Stopped
<1>3. rest \in Seq(Calls)
  BY PollLists, CallsKnown DEF Rests, Starts
<1>4. todo' = rest
  BY <1>1, <1>3, ConsOne DEF Stopped, Then
<1>5. RestType'
  BY <1>2, <1>3, <1>4 DEF SupInv, Base, RestType
<1>6. Base' /\ \A d : Runs(d)' = Runs(d) /\ Gone(d)' = Gone(d) /\ Calm(d)' = Calm(d)
  BY <1>2, <1>5, SameBase DEF SupInv
<1>7. FramePlan'
  BY <1>1, <1>2, <1>4, <1>6 DEF StoppedPlan, Rest, FramePlan, Calm
<1> QED BY <1>6, <1>7 DEF SupInv, Plan

LEMMA FrameStep ==
  ASSUME SupInv, Frame
  PROVE  SupInv'
<1>1. FramePlan
  BY NoCall DEF Frame
<1>2. /\ UNCHANGED <<slot, active, os, session, editor>> /\ slot' = slot /\ os' = os
      /\ editor = "open"
  BY DEF Frame
<1>3. todo' = PollList
  BY CallsKnown, ConsOne DEF Frame, PollOnly, PollList, Cons
<1>4. RestType'
  BY <1>2, <1>3, PollLists DEF SupInv, Base, RestType, Starts
<1>5. Base' /\ \A d : Runs(d)' = Runs(d) /\ Gone(d)' = Gone(d) /\ Calm(d)' = Calm(d)
  BY <1>2, <1>4, SameBase DEF SupInv
<1>6. FramePlan'
  BY <1>1, <1>2, <1>3, <1>5 DEF FramePlan
<1> QED BY <1>5, <1>6 DEF SupInv, Plan

\* playtest_stop begins: in front of the rest stand the calls on both children.
LEMMA StopBegins ==
  ASSUME SupInv, FramePlan, active, NEW rest \in Rests,
         UNCHANGED <<slot, active, os, session>>,
         todo' = StopList(Server, rest), Rest(rest)'
  PROVE  SupInv'
<1>1. rest \in {<<>>, PollList} /\ Server \in Children
  BY ChildFacts DEF Rests
<1>2. RestType'
  BY <1>1, StopLists DEF SupInv, Base, RestType, Rest, Starts
<1>3. Base' /\ \A d : Runs(d)' = Runs(d) /\ Gone(d)' = Gone(d) /\ Calm(d)' = Calm(d)
  BY <1>2, SameBase DEF SupInv
<1>4. StopPlan(Server, rest)'
  BY <1>3 DEF FramePlan, StopPlan, Stopping
<1> QED BY <1>1, <1>3, <1>4 DEF SupInv, Plan

LEMMA StopIsList ==
  ASSUME NEW rest \in Rests
  PROVE  active => Stop \o rest = StopList(Server, rest)
<1>1. rest \in Seq(Calls)
  BY PollLists, CallsKnown DEF Rests, Starts
<1> DEFINE x == <<"stop", Server, 0>>
           y == <<"stop", Client, 0>>
           z == <<"stopped", None, 0>>
<1>2. x \in Calls /\ y \in Calls /\ z \in Calls
  BY CallsKnown, ChildFacts
<1>3. active => Stop = <<x, y, z>>
  BY DEF Stop
<1>4. StopList(Server, rest) = Cons(x, Cons(y, Cons(z, rest)))
  BY DEF StopList, AfterStop, StoppedList
<1> HIDE DEF x, y, z
<1>5. <<x, y, z>> \o rest = Cons(x, Cons(y, Cons(z, rest)))
  BY <1>1, <1>2, ConsThree
<1> QED BY <1>3, <1>4, <1>5

LEMMA ToggleStep ==
  ASSUME SupInv, Toggle
  PROVE  SupInv'
<1>1. FramePlan /\ editor = "open" /\ editor' = "open"
  BY NoCall DEF Toggle
<1>2. UNCHANGED <<slot, active, os, editor>> /\ slot' = slot /\ os' = os
  BY DEF Toggle
<1>3. PollOnly = PollList
  BY CallsKnown, ConsOne DEF PollOnly, PollList, Cons
<1>4. CASE active
  <2>1. todo' = Stop \o PollList /\ session' = session
    BY <1>3, <1>4 DEF Toggle
  <2>2. todo' = StopList(Server, PollList)
    BY <1>4, <2>1, StopIsList DEF Rests
  <2> QED BY <1>1, <1>2, <1>4, <2>1, <2>2, StopBegins DEF Rests, Rest
<1>5. CASE ~active
  <2>1. session < MaxSessions /\ session' = session + 1
        /\ todo' = << <<"spawn", Server, 0>> >> \o PollList
    BY <1>3, <1>5 DEF Toggle
  <2>2. todo' = Cons(<<"spawn", Server, 0>>, PollList)
    BY <2>1 DEF Cons
  <2>3. session' \in 0..MaxSessions /\ session' > 0
    BY <2>1, ChildFacts DEF SupInv, Base, RestType
  <2>4. RestType'
    BY <1>2, <2>2, <2>3, StartLists, ChildFacts DEF SupInv, Base, RestType, Starts
  <2>5. Base' /\ \A d : Runs(d)' = Runs(d) /\ Gone(d)' = Gone(d) /\ Calm(d)' = Calm(d)
    BY <1>2, <2>4, SameBase DEF SupInv
  <2>6. StartPlan'
    BY <1>1, <1>2, <1>5, <2>2, <2>3, <2>5 DEF FramePlan, StartPlan, Starting
  <2> QED BY <2>5, <2>6 DEF SupInv, Plan
<1> QED BY <1>4, <1>5

LEMMA LeaveStep ==
  ASSUME SupInv, Leave
  PROVE  SupInv'
<1>1. FramePlan /\ editor' = "leaving" /\ todo' = Stop
  BY NoCall DEF Leave
<1>2. UNCHANGED <<slot, active, os, session>> /\ slot' = slot /\ os' = os
  BY DEF Leave
<1>3. CASE active
  <2>1. Stop \in Seq(Calls)
    BY CallsKnown, ChildFacts DEF Stop
  <2>2. Stop \o <<>> = Stop
    BY <2>1
  <2>3. todo' = StopList(Server, <<>>)
    BY <1>1, <1>3, <2>2, StopIsList DEF Rests
  <2> QED BY <1>1, <1>2, <1>3, <2>3, StopBegins DEF Rests, Rest
<1>4. CASE ~active
  <2>1. todo' = <<>>
    BY <1>1, <1>4 DEF Stop
  <2>2. RestType'
    BY <1>1, <1>2, <2>1, CallsKnown DEF SupInv, Base, RestType
  <2>3. Base' /\ \A d : Runs(d)' = Runs(d) /\ Gone(d)' = Gone(d) /\ Calm(d)' = Calm(d)
    BY <1>2, <2>2, SameBase DEF SupInv
  <2>4. FramePlan'
    BY <1>1, <1>2, <1>4, <2>1, <2>3 DEF FramePlan
  <2> QED BY <2>3, <2>4 DEF SupInv, Plan
<1> QED BY <1>3, <1>4

LEMMA LeftStep ==
  ASSUME SupInv, Left
  PROVE  SupInv'
<1>1. FramePlan /\ editor = "leaving" /\ editor' = "left" /\ todo' = <<>> /\ todo = <<>>
  BY NoCall DEF Left
<1>2. UNCHANGED <<slot, active, os, session>> /\ slot' = slot /\ os' = os
  BY DEF Left
<1>3. RestType'
  BY <1>1, <1>2, CallsKnown DEF SupInv, Base, RestType
<1>4. Base' /\ \A d : Runs(d)' = Runs(d) /\ Gone(d)' = Gone(d) /\ Calm(d)' = Calm(d)
  BY <1>2, <1>3, SameBase DEF SupInv
<1>5. FramePlan'
  BY <1>1, <1>2, <1>4 DEF FramePlan
<1> QED BY <1>4, <1>5 DEF SupInv, Plan

-----------------------------------------------------------------------------
(* Steps of the children *)

\* A process that is alive or dying writes or ends while the editor waits.
LEMMA ChildMoves ==
  ASSUME SupInv, UNCHANGED <<slot, active, session, todo, editor>>,
         OsType', Pipes',
         NEW p \in Processes, os[p].state # "dead",
         \A q \in Processes : q # p => os'[q] = os[q],
         os'[p].handles = os[p].handles,
         os'[p].state = os[p].state \/ os'[p].state = "dead"
  PROVE  SupInv'
<1>0. slot' = slot /\ active' = active /\ session' = session /\ todo' = todo /\ editor' = editor
  OBVIOUS
<1>1. \A q \in Processes :
         /\ os'[q].handles = os[q].handles
         /\ os'[q].state = "live" => os[q].state = "live"
         /\ os[q].state = "dead" => os'[q] = os[q]
  BY Zenon
<1>2. \A c \in Children : \A q \in Mine(c) : q \in Processes
  BY ChildFacts
<1>3. \A c \in Children : slot[c].process \in Mine(c) => slot[c].process \in Processes
  BY <1>2
<1>4. SlotType' /\ RestType'
  BY <1>0 DEF SupInv, Base, SlotType, RestType
<1>5. Owned'
  <2> SUFFICES ASSUME NEW c \in Children
               PROVE  /\ slot[c].process \in Mine(c) \cup {None}
                      /\ \A q \in Mine(c) :
                            /\ os'[q].state = "live" => slot[c].process = q /\ slot[c].running
                            /\ os'[q].handles => slot[c].process = q
                      /\ slot[c].running =>
                            slot[c].process \in Mine(c) /\ os'[slot[c].process].handles
    BY <1>0 DEF Owned, OwnedBy, Of
  <2>1. /\ slot[c].process \in Mine(c) \cup {None}
        /\ \A q \in Mine(c) :
              /\ os[q].state = "live" => slot[c].process = q /\ slot[c].running
              /\ os[q].handles => slot[c].process = q
        /\ slot[c].running => slot[c].process \in Mine(c) /\ os[slot[c].process].handles
    BY DEF SupInv, Base, Owned, OwnedBy, Of
  <2> QED BY <1>1, <1>2, <1>3, <2>1
<1>6. Base'
  BY <1>4, <1>5 DEF Base
<1>7. \A c \in Children : Runs(c)' = Runs(c) /\ Gone(c)' = Gone(c) /\ Calm(c)' = Calm(c)
  BY <1>0, <1>1, <1>2 DEF Runs, Gone, Calm
<1>8. \A c \in Children : Runs(c) \/ slot[c].running => slot[c].process \in Processes
  BY <1>3 DEF SupInv, Base, Owned, OwnedBy, Runs
<1>9. \A c \in Children : slot[c].running /\ Of(c).state # "live" => (Of(c).state # "live")'
  BY <1>0, <1>1, <1>8 DEF Of
<1>10. CASE FramePlan
  <2>1. FramePlan'
    BY <1>0, <1>7, <1>10, ChildFacts DEF FramePlan
  <2> QED BY <1>6, <2>1 DEF SupInv, Plan
<1>11. CASE PollPlan
  <2>1. Polling'
    BY <1>0, <1>7, <1>11, ChildFacts DEF PollPlan, Polling
  <2>2. PollPlan'
    BY <1>0, <1>11, <2>1 DEF PollPlan
  <2> QED BY <1>6, <2>2 DEF SupInv, Plan
<1>12. CASE StartPlan
  <2>1. Starting'
    BY <1>0, <1>7, <1>12, ChildFacts DEF StartPlan, Starting
  <2>2. Runs(Server)' = Runs(Server) /\ Gone(Server)' = Gone(Server)
    BY <1>7, ChildFacts
  <2>3. Runs(Server) /\ Of(Server).state # "live" => (Of(Server).state # "live")'
    BY <1>9, ChildFacts DEF Runs
  <2>4. (\A q \in Mine(Server) : ~os[q].handles) => \A q \in Mine(Server) : ~os'[q].handles
    BY <1>1, <1>2, ChildFacts
  <2>5. StartPlan'
    BY <1>0, <1>12, <2>1, <2>2, <2>3, <2>4 DEF StartPlan
  <2> QED BY <1>6, <2>5 DEF SupInv, Plan
<1>13. ASSUME NEW c \in Children, ExitPlan(c)
       PROVE  SupInv'
  <2>1. os'[slot[c].process] = os[slot[c].process]
    BY <1>1, <1>3, <1>13 DEF ExitPlan, Exiting, Of
  <2>2. Exiting(c)'
    BY <1>0, <1>7, <1>13, <2>1, ChildFacts DEF ExitPlan, Exiting, Of
  <2>3. \A n : LeftAfter(c, n)' = LeftAfter(c, n)
    BY <1>0, <2>1 DEF LeftAfter, Unread
  <2>4. ExitPlan(c)'
    BY <1>0, <1>13, <2>2, <2>3 DEF ExitPlan
  <2> QED BY <1>6, <2>4 DEF SupInv, Plan
<1>14. ASSUME NEW rest \in Rests, StoppedPlan(rest)
       PROVE  SupInv'
  <2>1. StoppedPlan(rest)'
    BY <1>0, <1>7, <1>14, ChildFacts DEF StoppedPlan, Rest
  <2> QED BY <1>6, <2>1 DEF SupInv, Plan, Rests
<1>15. ASSUME NEW rest \in Rests, NEW c \in Children, StopPlan(c, rest)
       PROVE  SupInv'
  <2>1. Stopping(c, rest)'
    BY <1>0, <1>7, <1>15, ChildFacts DEF StopPlan, Stopping, Rest
  <2>2. Runs(c)' = Runs(c) /\ Calm(c)' = Calm(c)
    BY <1>7
  <2>3. slot[c].running /\ Of(c).state # "live" => (Of(c).state # "live")'
    BY <1>9
  <2>4. StopPlan(c, rest)'
    BY <1>0, <1>15, <2>1, <2>2, <2>3 DEF StopPlan, Runs
  <2> QED BY <1>6, <2>4 DEF SupInv, Plan, Rests
<1> QED BY <1>10, <1>11, <1>12, <1>13, <1>14, <1>15 DEF SupInv, Plan, Rests

LEMMA WriteStep ==
  ASSUME SupInv, NEW p \in Processes, Write(p)
  PROVE  SupInv'
<1> DEFINE r == [os[p] EXCEPT !.wrote = @ + 1]
<1>1. os' = [os EXCEPT ![p] = r] /\ os[p].state = "live" /\ Unread(p) < PipeSize
  BY DEF Write
<1>2. Base /\ os[p] \in [state : {"none", "live", "dying", "dead"}, handles : BOOLEAN,
                        wrote : Nat, taken : Nat]
  BY DEF SupInv, Base, OsType
<1>3. /\ r \in [state : {"none", "live", "dying", "dead"}, handles : BOOLEAN,
                wrote : Nat, taken : Nat]
      /\ r.taken = os[p].taken /\ r.wrote = os[p].wrote + 1
      /\ r.state = os[p].state /\ r.handles = os[p].handles
  BY <1>2
<1>4. r.taken <= r.wrote /\ r.wrote - r.taken <= PipeSize
  BY <1>1, <1>2, <1>3, Fields, ChildFacts DEF Unread
<1> HIDE DEF r
<1>5. /\ OsType' /\ Pipes' /\ os'[p] = r
      /\ \A q \in Processes : q # p => os'[q] = os[q]
  BY <1>1, <1>2, <1>3, <1>4, OsStep
<1> QED BY <1>1, <1>3, <1>5, ChildMoves DEF Write

LEMMA EndStep ==
  ASSUME SupInv, NEW p \in Processes, End(p)
  PROVE  SupInv'
<1> DEFINE r == [os[p] EXCEPT !.state = "dead"]
<1>1. os' = [os EXCEPT ![p] = r] /\ os[p].state # "dead"
  BY DEF End
<1>2. Base /\ os[p] \in [state : {"none", "live", "dying", "dead"}, handles : BOOLEAN,
                        wrote : Nat, taken : Nat]
  BY DEF SupInv, Base, OsType
<1>3. /\ r \in [state : {"none", "live", "dying", "dead"}, handles : BOOLEAN,
                wrote : Nat, taken : Nat]
      /\ r.taken = os[p].taken /\ r.wrote = os[p].wrote
      /\ r.state = "dead" /\ r.handles = os[p].handles
  BY <1>2
<1>4. r.taken <= r.wrote /\ r.wrote - r.taken <= PipeSize
  BY <1>2, <1>3, Fields DEF Unread
<1> HIDE DEF r
<1>5. /\ OsType' /\ Pipes' /\ os'[p] = r
      /\ \A q \in Processes : q # p => os'[q] = os[q]
  BY <1>1, <1>2, <1>3, <1>4, OsStep
<1> QED BY <1>1, <1>3, <1>5, ChildMoves DEF End

-----------------------------------------------------------------------------
(* Steps of the frame that act on one child *)

\* The other child is where it was.
LEMMA OneChild ==
  ASSUME Base, NEW c \in Children, SlotType', OsType', Pipes', RestType', OwnedBy(c)',
         \A d \in Children : d # c => slot'[d] = slot[d],
         \A q \in Processes : q \notin Mine(c) => os'[q] = os[q]
  PROVE  /\ Base'
         /\ \A d \in Children : d # c => /\ Runs(d)' = Runs(d)
                                         /\ Gone(d)' = Gone(d)
                                         /\ Calm(d)' = Calm(d)
<1>1. ASSUME NEW d \in Children, d # c
      PROVE  OwnedBy(d)' /\ Runs(d)' = Runs(d) /\ Gone(d)' = Gone(d) /\ Calm(d)' = Calm(d)
  <2>1. slot'[d] = slot[d] /\ OwnedBy(d)
    BY <1>1 DEF Base, Owned
  <2>2. \A q \in Mine(d) : os'[q] = os[q]
    BY <1>1, ChildFacts
  <2>3. Runs(d)' = Runs(d) /\ Gone(d)' = Gone(d)
    BY <2>1, <2>2 DEF Runs, Gone
  <2>4. OwnedBy(d)'
    BY <2>1, <2>2 DEF OwnedBy, Of
  <2> QED BY <2>3, <2>4 DEF Calm
<1> QED BY <1>1 DEF Base, Owned

\* A read of a pipe moves what was read from the pipe into the line.
LEMMA SameShape ==
  ASSUME Base, SlotType', OsType', Pipes', RestType',
         \A d \in Children : /\ slot'[d].process = slot[d].process
                             /\ slot'[d].running = slot[d].running
                             /\ slot'[d].stdout = slot[d].stdout,
         \A q \in Processes : os'[q].state = os[q].state /\ os'[q].handles = os[q].handles
  PROVE  /\ Base'
         /\ \A d \in Children :
               /\ Runs(d)' = Runs(d) /\ Gone(d)' = Gone(d) /\ Calm(d)' = Calm(d)
               /\ slot[d].process \in Mine(d) =>
                     Of(d)'.state = Of(d).state /\ Of(d)'.handles = Of(d).handles
<1>1. ASSUME NEW d \in Children
      PROVE  /\ OwnedBy(d)'
             /\ Runs(d)' = Runs(d) /\ Gone(d)' = Gone(d) /\ Calm(d)' = Calm(d)
             /\ slot[d].process \in Mine(d) =>
                   Of(d)'.state = Of(d).state /\ Of(d)'.handles = Of(d).handles
  <2>1. OwnedBy(d)
    BY DEF Base, Owned
  <2>2. \A q \in Mine(d) : os'[q].state = os[q].state /\ os'[q].handles = os[q].handles
    BY ChildFacts
  <2>3. slot[d].process \in Mine(d) =>
           Of(d)'.state = Of(d).state /\ Of(d)'.handles = Of(d).handles
    BY <2>2 DEF Of
  <2>4. Runs(d)' = Runs(d) /\ Gone(d)' = Gone(d)
    BY <2>2 DEF Runs, Gone
  <2>5. OwnedBy(d)'
    BY <2>1, <2>2, <2>3 DEF OwnedBy, Of
  <2> QED BY <2>3, <2>4, <2>5 DEF Calm
<1> QED BY <1>1 DEF Base, Owned

\* What proc_drain does next, before its n-th read and after it
LEMMA DrainKeeps ==
  ASSUME SupInv, NEW c \in Children, NEW n \in 0..DrainGuard, Drain(c, n),
         SlotType', OsType', Pipes',
         \A d \in Children : /\ slot'[d].process = slot[d].process
                             /\ slot'[d].running = slot[d].running
                             /\ slot'[d].stdout = slot[d].stdout,
         \A q \in Processes : os'[q].state = os[q].state /\ os'[q].handles = os[q].handles,
         \/ /\ n < DrainGuard /\ todo' = <<<<"drain", c, n + 1>>>> \o Tail(todo)
            /\ slot[c].process \in Mine(c) /\ LeftAfter(c, n) => LeftAfter(c, n + 1)'
         \/ /\ todo' = <<>> \o Tail(todo)
            /\ slot[c].process \in Mine(c) /\ slot[c].stdout /\ LeftAfter(c, n)
                  => LeftAfter(c, DrainGuard)'
  PROVE  SupInv'
<1>0. /\ UNCHANGED <<active, session, editor>>
      /\ n \in Nat /\ n + 1 \in Nat /\ DrainGuard \in Nat
      /\ <<"drain", c, n + 1>> \in Calls /\ Call("drain", c, n)
  <2>1. DrainGuard \in Nat /\ n \in Nat /\ n + 1 \in Nat
    BY ChildFacts
  <2>2. <<"drain", c, n + 1>> \in Calls
    BY <2>1, CallsKnown
  <2> QED BY <2>1, <2>2 DEF Drain
<1>1. \/ Polling /\ c = Server /\ Tail(todo) = DrainClientList(0)
      \/ Polling /\ c = Client /\ Tail(todo) = CheckList
      \/ /\ Exiting(c) /\ slot[c].stdout /\ LeftAfter(c, n)
         /\ Tail(todo) = FlushExitedList(c)
      \/ \E rest \in Rests :
            Stopping(c, rest) /\ Runs(c) /\ Tail(todo) = TerminateList(c, rest)
  BY <1>0, DrainCall
<1>2. Tail(todo) \in Seq(Calls)
  BY <1>1, PollLists, ExitLists, StopLists DEF Starts, Rests
<1> DEFINE again == /\ n < DrainGuard /\ todo' = Cons(<<"drain", c, n + 1>>, Tail(todo))
                    /\ slot[c].process \in Mine(c) /\ LeftAfter(c, n) => LeftAfter(c, n + 1)'
           over == /\ todo' = Tail(todo)
                   /\ slot[c].process \in Mine(c) /\ slot[c].stdout /\ LeftAfter(c, n)
                         => LeftAfter(c, DrainGuard)'
<1>3. again \/ over
  <2>1. /\ <<<<"drain", c, n + 1>>>> \o Tail(todo) = Cons(<<"drain", c, n + 1>>, Tail(todo))
        /\ <<>> \o Tail(todo) = Tail(todo)
    BY <1>0, <1>2, ConsOne
  <2> QED BY <2>1
<1>4. RestType'
  BY <1>0, <1>2, <1>3, ConsFacts DEF SupInv, Base, RestType
<1>5. /\ Base'
      /\ \A d \in Children :
            /\ Runs(d)' = Runs(d) /\ Gone(d)' = Gone(d) /\ Calm(d)' = Calm(d)
            /\ slot[d].process \in Mine(d) =>
                  Of(d)'.state = Of(d).state /\ Of(d)'.handles = Of(d).handles
  BY <1>4, SameShape DEF SupInv
<1>6. n + 1 \in 0..DrainGuard \/ ~again
  BY <1>0
<1> HIDE DEF again, over
<1>7. ASSUME Polling
      PROVE  Polling'
  BY <1>0, <1>5, <1>7, ChildFacts DEF Polling
<1>8. CASE Polling /\ c = Server /\ Tail(todo) = DrainClientList(0)
  <2>1. again => todo' = DrainList(n + 1)
    BY <1>8 DEF again, DrainList
  <2>2. over => todo' = DrainClientList(0)
    BY <1>8 DEF over
  <2>3. PollPlan'
    BY <1>3, <1>6, <1>7, <1>8, <2>1, <2>2, ChildFacts DEF PollPlan
  <2> QED BY <1>5, <2>3 DEF SupInv, Plan
<1>9. CASE Polling /\ c = Client /\ Tail(todo) = CheckList
  <2>1. again => todo' = DrainClientList(n + 1)
    BY <1>9 DEF again, DrainClientList
  <2>2. over => todo' = CheckList
    BY <1>9 DEF over
  <2>3. PollPlan'
    BY <1>3, <1>6, <1>7, <1>9, <2>1, <2>2, ChildFacts DEF PollPlan
  <2> QED BY <1>5, <2>3 DEF SupInv, Plan
<1>10. CASE /\ Exiting(c) /\ slot[c].stdout /\ LeftAfter(c, n)
            /\ Tail(todo) = FlushExitedList(c)
  <2>1. again => todo' = DrainExitedList(c, n + 1) /\ LeftAfter(c, n + 1)'
    BY <1>10 DEF again, DrainExitedList, Exiting
  <2>2. over => todo' = FlushExitedList(c) /\ LeftAfter(c, DrainGuard)'
    BY <1>10 DEF over, Exiting
  <2>3. Exiting(c)' /\ slot'[c].stdout
    BY <1>0, <1>5, <1>10, ChildFacts DEF Exiting
  <2>4. ExitPlan(c)'
    BY <1>3, <1>6, <2>1, <2>2, <2>3 DEF ExitPlan
  <2> QED BY <1>5, <2>4 DEF SupInv, Plan
<1>11. ASSUME NEW rest \in Rests,
              Stopping(c, rest) /\ Runs(c) /\ Tail(todo) = TerminateList(c, rest)
       PROVE  SupInv'
  <2>1. again => todo' = DrainStopList(c, n + 1, rest)
    BY <1>11 DEF again, DrainStopList
  <2>2. over => todo' = TerminateList(c, rest)
    BY <1>11 DEF over
  <2>3. Stopping(c, rest)' /\ Runs(c)'
    BY <1>0, <1>5, <1>11, ChildFacts DEF Stopping, Rest
  <2>4. StopPlan(c, rest)'
    BY <1>3, <1>6, <2>1, <2>2, <2>3 DEF StopPlan
  <2> QED BY <1>5, <2>4 DEF SupInv, Plan, Rests
<1> QED BY <1>1, <1>8, <1>9, <1>10, <1>11

\* What is left of the limit after one more read
LEMMA ReadArithmetic ==
  ASSUME NEW u \in Nat, NEW n \in Nat, NEW k \in Nat,
         k = (IF u < Chunk THEN u ELSE Chunk),
         u = 0 \/ u + Chunk * n <= PipeSize
  PROVE  u - k = 0 \/ (u - k) + Chunk * (n + 1) <= PipeSize
<1>1. Chunk \in Nat /\ PipeSize \in Nat
  BY ChildFacts
<1>2. Chunk * (n + 1) = Chunk * n + Chunk /\ Chunk * n \in Nat
  BY <1>1
<1>3. CASE u < Chunk
  BY <1>3
<1>4. CASE ~(u < Chunk) /\ u = 0
  BY <1>1, <1>4
<1>5. CASE ~(u < Chunk) /\ u + Chunk * n <= PipeSize
  <2>1. k = Chunk
    BY <1>5
  <2> DEFINE m == Chunk * n
             m1 == Chunk * (n + 1)
  <2>2. m \in Nat /\ m1 = m + Chunk /\ u + m <= PipeSize
    BY <1>2, <1>5
  <2> HIDE DEF m, m1
  <2>3. (u - k) + m1 <= PipeSize
    BY <1>1, <2>1, <2>2
  <2> QED BY <2>3 DEF m1
<1> QED BY <1>3, <1>4, <1>5

LEMMA DrainStep ==
  ASSUME SupInv, NEW c \in Children, NEW n \in 0..DrainGuard, Drain(c, n)
  PROVE  SupInv'
<1> DEFINE p == slot[c].process
           k == IF Unread(p) < Chunk THEN Unread(p) ELSE Chunk
           reads == slot[c].stdout /\ n < DrainGuard /\ Unread(p) > 0
<1>0. n \in Nat /\ DrainGuard \in Nat /\ Chunk \in Nat /\ PipeSize \in Nat /\ Chunk > 0 /\ Base
  BY ChildFacts DEF SupInv
<1>1. Call("drain", c, n)
  BY DEF Drain
<1>2. slot[c].stdout => p \in Mine(c)
  <2>1. Calm(c) \/ Exiting(c)
    BY <1>1, DrainCall DEF Polling, Calm
  <2> QED BY <2>1, <1>0 DEF Calm, Runs, Gone, Exiting, Base, Owned, OwnedBy
<1>3. CASE ~reads
  <2>1. todo' = <<>> \o Tail(todo) /\ slot' = slot /\ os' = os
    BY <1>3 DEF Drain, Then
  <2>2. SlotType' /\ OsType' /\ Pipes'
    BY <1>0, <2>1 DEF Base, SlotType, OsType, Pipes, Unread
  <2>3. slot[c].process \in Mine(c) /\ slot[c].stdout /\ LeftAfter(c, n)
            => LeftAfter(c, DrainGuard)'
    <3> SUFFICES ASSUME p \in Mine(c), slot[c].stdout, LeftAfter(c, n)
                 PROVE  LeftAfter(c, DrainGuard)
      BY <2>1 DEF LeftAfter, Unread
    <3>1. p \in Processes
      BY ChildFacts
    <3>2. Unread(p) \in Nat
      BY <1>0, <3>1, Fields
    <3>3. Unread(p) = 0 \/ n = DrainGuard
      BY <1>0, <1>3, <3>2
    <3> QED BY <3>3 DEF LeftAfter
  <2> QED BY <2>1, <2>2, <2>3, DrainKeeps
<1>4. CASE reads
  <2>1. p \in Mine(c) /\ p \in Processes /\ n < DrainGuard
    BY <1>2, <1>4, ChildFacts
  <2>2. Unread(p) \in Nat /\ Unread(p) <= PipeSize
    BY <1>0, <2>1, Fields
  <2>3. k \in Nat /\ k <= Unread(p)
    BY <1>0, <2>2
  <2> DEFINE r == [os[p] EXCEPT !.taken = @ + k]
  <2>4. /\ \E text : slot' = [slot EXCEPT ![c].line = text]
        /\ os' = [os EXCEPT ![p] = r]
        /\ todo' = <<<<"drain", c, n + 1>>>> \o Tail(todo)
    BY <1>4 DEF Drain, Then
  <2>5. os[p] \in [state : {"none", "live", "dying", "dead"}, handles : BOOLEAN,
                   wrote : Nat, taken : Nat]
    BY <1>0, <2>1 DEF Base, OsType
  <2> HIDE DEF p, k
  <2>6. /\ r \in [state : {"none", "live", "dying", "dead"}, handles : BOOLEAN,
                  wrote : Nat, taken : Nat]
        /\ r.taken = os[p].taken + k /\ r.wrote = os[p].wrote
        /\ r.state = os[p].state /\ r.handles = os[p].handles
    BY <2>3, <2>5
  <2>7. r.taken <= r.wrote /\ r.wrote - r.taken <= PipeSize
    BY <1>0, <2>2, <2>3, <2>5, <2>6 DEF Unread
  <2> HIDE DEF r
  <2>8. /\ OsType' /\ Pipes' /\ os'[p] = r
        /\ \A q \in Processes : q # p => os'[q] = os[q]
    BY <1>0, <2>1, <2>4, <2>6, <2>7, OsStep
  <2>9. PICK text : slot' = [slot EXCEPT ![c].line = text]
    BY <2>4
  <2> DEFINE s == [slot[c] EXCEPT !.line = text]
  <2>10. /\ SlotType'
         /\ \A d \in Children : /\ slot'[d].process = slot[d].process
                                /\ slot'[d].running = slot[d].running
                                /\ slot'[d].stdout = slot[d].stdout
    <3>1. PICK lines : slot \in [Children -> [process : Processes \cup {None}, running : BOOLEAN,
                                              stdout : BOOLEAN, line : lines]]
      BY <1>0 DEF Base, SlotType
    <3>2. /\ s.process = slot[c].process /\ s.running = slot[c].running
          /\ s.stdout = slot[c].stdout /\ s.line = text
          /\ s = [process |-> s.process, running |-> s.running, stdout |-> s.stdout,
                  line |-> s.line]
      BY <3>1
    <3>3. s.process \in Processes \cup {None} /\ s.running \in BOOLEAN /\ s.stdout \in BOOLEAN
      BY <3>1
    <3>4. slot' = [slot EXCEPT ![c] = s]
      BY <2>9
    <3> HIDE DEF s
    <3>5. SlotType' /\ slot'[c] = s /\ \A d \in Children : d # c => slot'[d] = slot[d]
      BY <1>0, <3>2, <3>3, <3>4, SlotStep
    <3> QED BY <3>2, <3>5
  <2>11. \A q \in Processes : os'[q].state = os[q].state /\ os'[q].handles = os[q].handles
    BY <2>6, <2>8
  <2>12. LeftAfter(c, n) => LeftAfter(c, n + 1)'
    <3>1. Unread(p)' = Unread(p) - k
      <4>1. Unread(p)' = r.wrote - r.taken
        BY <2>8, <2>10 DEF Unread, p
      <4> QED BY <2>3, <2>5, <2>6, <4>1 DEF Unread
    <3>2. slot'[c].process = p
      BY <2>10 DEF p
    <3>3. LeftAfter(c, n) => Unread(p) = 0 \/ Unread(p) + Chunk * n <= PipeSize
      BY DEF LeftAfter, p
    <3>4. LeftAfter(c, n + 1)' <=>
             (Unread(p) - k = 0 \/ (Unread(p) - k) + Chunk * (n + 1) <= PipeSize)
      BY <3>1, <3>2 DEF LeftAfter, p
    <3>5. k = IF Unread(p) < Chunk THEN Unread(p) ELSE Chunk
      BY DEF k
    <3> QED BY <1>0, <2>2, <2>3, <3>3, <3>4, <3>5, ReadArithmetic
  <2> QED BY <2>1, <2>4, <2>8, <2>10, <2>11, <2>12, DrainKeeps DEF p
<1> QED BY <1>3, <1>4

LEMMA FlushedRecord ==
  ASSUME NEW P, NEW L,
         NEW old \in [process : P, running : BOOLEAN, stdout : BOOLEAN, line : L]
  PROVE  [old EXCEPT !.line = <<>>, !.stdout = FALSE]
            = [process |-> old.process, running |-> old.running,
               stdout |-> FALSE, line |-> <<>>]
<1> DEFINE mid == [old EXCEPT !.line = <<>>]
           new == [process |-> old.process, running |-> old.running,
                   stdout |-> FALSE, line |-> <<>>]
<1>1. mid = [process |-> old.process, running |-> old.running,
             stdout |-> old.stdout, line |-> <<>>]
  OBVIOUS
<1>2. [mid EXCEPT !.stdout = FALSE] = new
  <2>1. \A x : [mid EXCEPT !.stdout = x]
                 = [process |-> old.process, running |-> old.running,
                    stdout |-> x, line |-> <<>>]
    <3> HIDE DEF mid
    <3> QED BY <1>1
  <2> QED BY <2>1, Zenon
<1> QED BY <1>2

\* Closing a pipe: nothing of it is left, and nothing else changes.
LEMMA FlushStep ==
  ASSUME SupInv, NEW c \in Children, Flush(c)
  PROVE  SupInv'
<1>0. /\ Base /\ PipeSize \in Nat /\ UNCHANGED <<active, session, editor>>
      /\ Call("flush", c, 0) /\ todo' = <<>> \o Tail(todo)
  BY ChildFacts DEF SupInv, Flush, Then
<1> DEFINE p == slot[c].process
           s == [slot[c] EXCEPT !.line = <<>>, !.stdout = FALSE]
<1>1. slot' = [slot EXCEPT ![c] = s]
  BY DEF Flush
<1>2. PICK lines : slot \in [Children -> [process : Processes \cup {None}, running : BOOLEAN,
                                          stdout : BOOLEAN, line : lines]]
  BY <1>0 DEF Base, SlotType
<1>3. /\ s.process = p /\ s.running = slot[c].running
      /\ s.stdout = FALSE /\ s.line = <<>>
      /\ s = [process |-> s.process, running |-> s.running, stdout |-> s.stdout,
              line |-> s.line]
      /\ s.process \in Processes \cup {None} /\ s.running \in BOOLEAN
  <2>1. slot[c] \in [process : Processes \cup {None}, running : BOOLEAN,
                     stdout : BOOLEAN, line : lines]
    BY <1>2
  <2> DEFINE old == slot[c]
  <2>2. s = [process |-> p, running |-> old.running, stdout |-> FALSE, line |-> <<>>]
    BY <2>1, FlushedRecord
  <2> HIDE DEF s
  <2> QED BY <2>1, <2>2
<1> HIDE DEF s
<1>4. SlotType' /\ slot'[c] = s /\ \A d \in Children : d # c => slot'[d] = slot[d]
  BY <1>0, <1>1, <1>3, SlotStep
<1>5. /\ OsType' /\ Pipes'
      /\ \A q \in Processes : os'[q].state = os[q].state /\ os'[q].handles = os[q].handles
      /\ \A q \in Processes : q # p => os'[q] = os[q]
  <2>1. os' = [os EXCEPT ![p] = [@ EXCEPT !.wrote = 0, !.taken = 0]]
    BY DEF Flush
  <2>2. CASE p \in Processes
    <3> DEFINE r == [os[p] EXCEPT !.wrote = 0, !.taken = 0]
    <3>1. /\ r \in [state : {"none", "live", "dying", "dead"}, handles : BOOLEAN,
                    wrote : Nat, taken : Nat]
          /\ r.taken = 0 /\ r.wrote = 0
          /\ r.state = os[p].state /\ r.handles = os[p].handles
      BY <1>0, <2>2 DEF Base, OsType
    <3>2. os' = [os EXCEPT ![p] = r]
      BY <2>1
    <3> HIDE DEF r, p
    <3>0. r.taken <= r.wrote /\ r.wrote - r.taken <= PipeSize
      BY <1>0, <3>1
    <3>3. /\ OsType' /\ Pipes' /\ os'[p] = r
          /\ \A q \in Processes : q # p => os'[q] = os[q]
      BY <1>0, <2>2, <3>0, <3>1, <3>2, OsStep
    <3> QED BY <3>1, <3>3
  <2>3. CASE p \notin Processes
    <3>1. os' = os
      BY <1>0, <2>1, <2>3 DEF Base, OsType
    <3> QED BY <1>0, <3>1 DEF Base, OsType, Pipes, Unread
  <2> QED BY <2>2, <2>3
<1>6. /\ slot'[c].process = slot[c].process /\ slot'[c].running = slot[c].running
      /\ slot'[c].stdout = FALSE
  BY <1>3, <1>4
<1>7. OwnedBy(c)'
  <2>1. OwnedBy(c)
    BY <1>0 DEF Base, Owned
  <2>2. \A q \in Mine(c) : os'[q].state = os[q].state /\ os'[q].handles = os[q].handles
    BY <1>5, ChildFacts
  <2> QED BY <1>6, <2>1, <2>2 DEF OwnedBy, Of
<1>8. \A q \in Processes : q \notin Mine(c) => os'[q] = os[q]
  BY <1>0, <1>5, ChildFacts DEF Base, Owned, OwnedBy
<1> HIDE DEF p
<1>9. \/ /\ Exiting(c) /\ slot[c].stdout /\ LeftAfter(c, DrainGuard)
         /\ Tail(todo) = CloseExitedList(c)
      \/ \E rest \in Rests :
            /\ Stopping(c, rest) /\ Runs(c) /\ Of(c).state # "live"
            /\ Tail(todo) = CloseStoppedList(c, rest)
      \/ /\ Starting /\ c = Server /\ Tail(todo) = PollList
         /\ ~slot[Server].running /\ \A q \in Mine(Server) : ~os[q].handles
  BY <1>0, FlushCall
<1>10. Tail(todo) \in Seq(Calls)
  BY <1>9, PollLists, ExitLists, StopLists DEF Starts, Rests
<1>11. todo' = Tail(todo)
  BY <1>0, <1>10
<1>12. RestType'
  BY <1>0, <1>10, <1>11 DEF Base, RestType
<1>13. /\ Base'
       /\ \A d \in Children : d # c => /\ Runs(d)' = Runs(d)
                                       /\ Gone(d)' = Gone(d)
                                       /\ Calm(d)' = Calm(d)
  BY <1>0, <1>4, <1>5, <1>7, <1>8, <1>12, OneChild
<1>14. slot[c].process \in Mine(c) =>
          Of(c)'.state = Of(c).state /\ Of(c)'.handles = Of(c).handles
  BY <1>5, <1>6, ChildFacts DEF Of
<1>15. CASE /\ Exiting(c) /\ slot[c].stdout /\ LeftAfter(c, DrainGuard)
            /\ Tail(todo) = CloseExitedList(c)
  <2>1. Exiting(c)'
    BY <1>0, <1>6, <1>13, <1>14, <1>15, ChildFacts DEF Exiting
  <2>2. ExitPlan(c)'
    BY <1>6, <1>11, <1>15, <2>1 DEF ExitPlan
  <2> QED BY <1>13, <2>2 DEF SupInv, Plan
<1>16. ASSUME NEW rest \in Rests,
              /\ Stopping(c, rest) /\ Runs(c) /\ Of(c).state # "live"
              /\ Tail(todo) = CloseStoppedList(c, rest)
       PROVE  SupInv'
  <2>1. Stopping(c, rest)'
    BY <1>0, <1>13, <1>16, ChildFacts DEF Stopping, Rest
  <2>2. slot[c].process \in Mine(c)
    BY <1>0, <1>16 DEF Base, Owned, OwnedBy, Runs
  <2>3. StopPlan(c, rest)'
    BY <1>6, <1>11, <1>14, <1>16, <2>1, <2>2 DEF StopPlan, Runs
  <2> QED BY <1>13, <2>3 DEF SupInv, Plan, Rests
<1>17. CASE /\ Starting /\ c = Server /\ Tail(todo) = PollList
            /\ ~slot[Server].running /\ \A q \in Mine(Server) : ~os[q].handles
  <2>1. Gone(Server)'
    BY <1>5, <1>6, <1>17, ChildFacts DEF Gone
  <2>2. Gone(Client)'
    BY <1>13, <1>17, ChildFacts DEF Starting
  <2>3. FramePlan'
    BY <1>0, <1>11, <1>17, <2>1, <2>2 DEF Starting, FramePlan, Calm
  <2> QED BY <1>13, <2>3 DEF SupInv, Plan
<1> QED BY <1>9, <1>15, <1>16, <1>17

LEMMA TerminateStep ==
  ASSUME SupInv, NEW c \in Children, Terminate(c)
  PROVE  SupInv'
<1>0. /\ Base /\ UNCHANGED <<slot, active, session, editor>> /\ slot' = slot
      /\ Call("terminate", c, 0) /\ todo' = <<>> \o Tail(todo)
  BY DEF SupInv, Terminate, Then
<1>1. \/ \E rest \in Rests :
            Stopping(c, rest) /\ Runs(c) /\ Tail(todo) = FlushStoppedList(c, rest)
      \/ Starting /\ c = Server /\ Runs(Server) /\ Tail(todo) = CloseFailedList
  BY <1>0, TerminateCall
<1> DEFINE p == slot[c].process
<1>2. Runs(c) /\ p \in Mine(c) /\ p \in Processes /\ os[p].handles
  BY <1>0, <1>1, ChildFacts DEF Base, Owned, OwnedBy, Runs, Of
<1> DEFINE r == [os[p] EXCEPT !.state = IF @ = "live" THEN "dying" ELSE @]
<1>3. os' = [os EXCEPT ![p] = r]
  BY DEF Terminate
<1>4. os[p] \in [state : {"none", "live", "dying", "dead"}, handles : BOOLEAN,
                 wrote : Nat, taken : Nat]
  BY <1>0, <1>2 DEF Base, OsType
<1> HIDE DEF p
<1>5. /\ r \in [state : {"none", "live", "dying", "dead"}, handles : BOOLEAN,
                wrote : Nat, taken : Nat]
      /\ r.taken = os[p].taken /\ r.wrote = os[p].wrote
      /\ r.state # "live" /\ r.handles = os[p].handles
  BY <1>4
<1> HIDE DEF r
<1>6. r.taken <= r.wrote /\ r.wrote - r.taken <= PipeSize
  BY <1>0, <1>2, <1>5, Fields DEF Unread
<1>7. /\ OsType' /\ Pipes' /\ os'[p] = r
      /\ \A q \in Processes : q # p => os'[q] = os[q]
  BY <1>0, <1>2, <1>3, <1>5, <1>6, OsStep
<1>8. SlotType' /\ Of(c)' = r
  BY <1>0, <1>7 DEF Base, SlotType, Of, p
<1>9. OwnedBy(c)'
  <2>1. OwnedBy(c)
    BY <1>0 DEF Base, Owned
  <2>2. \A q \in Mine(c) : os'[q].handles = os[q].handles
                           /\ (os'[q].state = "live" => os[q].state = "live")
    BY <1>5, <1>7, ChildFacts
  <2> QED BY <1>0, <1>2, <2>1, <2>2 DEF OwnedBy, Of, p
<1>10. Runs(c)'
  BY <1>0, <1>2 DEF Runs
<1>11. Tail(todo) \in Seq(Calls)
  BY <1>1, StartLists, StopLists DEF Starts, Rests
<1>12. todo' = Tail(todo)
  BY <1>0, <1>11
<1>13. RestType'
  BY <1>0, <1>11, <1>12 DEF Base, RestType
<1>14. /\ Base'
       /\ \A d \in Children : d # c => /\ Runs(d)' = Runs(d)
                                       /\ Gone(d)' = Gone(d)
                                       /\ Calm(d)' = Calm(d)
  BY <1>0, <1>2, <1>7, <1>8, <1>9, <1>13, OneChild
<1>15. ASSUME NEW rest \in Rests,
              Stopping(c, rest) /\ Runs(c) /\ Tail(todo) = FlushStoppedList(c, rest)
       PROVE  SupInv'
  <2>1. Stopping(c, rest)'
    BY <1>0, <1>14, <1>15, ChildFacts DEF Stopping, Rest
  <2>2. StopPlan(c, rest)'
    BY <1>5, <1>8, <1>10, <1>12, <1>15, <2>1 DEF StopPlan
  <2> QED BY <1>14, <2>2 DEF SupInv, Plan, Rests
<1>16. CASE Starting /\ c = Server /\ Runs(Server) /\ Tail(todo) = CloseFailedList
  <2>1. Starting'
    BY <1>0, <1>14, <1>16, ChildFacts DEF Starting
  <2>2. StartPlan'
    BY <1>5, <1>8, <1>10, <1>12, <1>16, <2>1 DEF StartPlan
  <2> QED BY <1>14, <2>2 DEF SupInv, Plan
<1> QED BY <1>1, <1>15, <1>16

\* A slot that no longer runs
LEMMA StoppedSlot ==
  ASSUME Base, NEW c \in Children, slot' = [slot EXCEPT ![c].running = FALSE]
  PROVE  /\ SlotType'
         /\ slot'[c].process = slot[c].process /\ slot'[c].stdout = slot[c].stdout
         /\ ~slot'[c].running
         /\ \A d \in Children : d # c => slot'[d] = slot[d]
<1>1. PICK lines : slot \in [Children -> [process : Processes \cup {None}, running : BOOLEAN,
                                          stdout : BOOLEAN, line : lines]]
  BY DEF Base, SlotType
<1> DEFINE old == slot[c]
           new(x) == [process |-> old.process, running |-> x, stdout |-> old.stdout,
                      line |-> old.line]
<1>2. old \in [process : Processes \cup {None}, running : BOOLEAN,
               stdout : BOOLEAN, line : lines]
  BY <1>1
<1>3. slot' = [slot EXCEPT ![c] = [old EXCEPT !.running = FALSE]]
  OBVIOUS
<1> HIDE DEF old
<1>4. \A x : [old EXCEPT !.running = x] = new(x)
  BY <1>2
<1>5. slot' = [slot EXCEPT ![c] = new(FALSE)]
  BY <1>3, <1>4, Zenon
<1>6. /\ new(FALSE).process = old.process /\ new(FALSE).stdout = old.stdout
      /\ new(FALSE).line = old.line /\ new(FALSE).running = FALSE
  OBVIOUS
<1>7. new(FALSE) = [process |-> new(FALSE).process, running |-> new(FALSE).running,
                    stdout |-> new(FALSE).stdout, line |-> new(FALSE).line]
  BY <1>6, Zenon
<1>8. /\ new(FALSE).process \in Processes \cup {None} /\ new(FALSE).running \in BOOLEAN
      /\ new(FALSE).stdout \in BOOLEAN
  BY <1>2, <1>6
<1> HIDE DEF new
<1>9. /\ SlotType' /\ slot'[c] = new(FALSE)
      /\ \A d \in Children : d # c => slot'[d] = slot[d]
  BY <1>5, <1>7, <1>8, SlotStep, ZenonT(60)
<1> QED BY <1>6, <1>9 DEF old

LEMMA CheckStep ==
  ASSUME SupInv, NEW c \in Children, Check(c)
  PROVE  SupInv'
<1>0. /\ Base /\ UNCHANGED <<active, os, session, editor>> /\ os' = os
      /\ Call("check", c, 0)
  BY DEF SupInv, Check
<1>1. Polling /\ Tail(todo) = AfterExit(c) /\ AfterExit(c) \in Seq(Calls)
  BY <1>0, CheckCall, ExitLists
<1> DEFINE ended == slot[c].running /\ os[slot[c].process].state = "dead"
<1>2. CASE ~ended
  <2>1. slot' = slot /\ todo' = <<>> \o Tail(todo)
    BY <1>2 DEF Check, Then
  <2>2. todo' = AfterExit(c)
    BY <1>1, <2>1
  <2>3. RestType'
    BY <1>0, <1>1, <2>2 DEF Base, RestType
  <2>4. Base' /\ \A d : Runs(d)' = Runs(d) /\ Gone(d)' = Gone(d) /\ Calm(d)' = Calm(d)
    BY <1>0, <2>1, <2>3, SameBase
  <2>5. PollPlan'
    BY <1>0, <1>1, <2>2, <2>4 DEF Polling, PollPlan, AfterExit
  <2> QED BY <2>4, <2>5 DEF SupInv, Plan
<1>3. CASE ended
  <2>1. /\ slot' = [slot EXCEPT ![c].running = FALSE]
        /\ todo' = ExitCalls(c) \o AfterExit(c)
    BY <1>1, <1>3 DEF Check, Then
  <2>2. /\ SlotType'
        /\ slot'[c].process = slot[c].process /\ slot'[c].stdout = slot[c].stdout
        /\ ~slot'[c].running
        /\ \A d \in Children : d # c => slot'[d] = slot[d]
    BY <1>0, <2>1, StoppedSlot
  <2>3. slot[c].process \in Mine(c) /\ slot[c].process \in Processes /\ slot[c].stdout
        /\ Of(c).handles /\ Of(c).state = "dead"
    BY <1>0, <1>1, <1>3, ChildFacts DEF Base, Owned, OwnedBy, Polling, Calm, Runs, Gone, Of
  <2>4. todo' = DrainExitedList(c, 0)
    <3> DEFINE x == <<"drain", c, 0>>
               y == <<"flush", c, 0>>
               z == <<"close", c, "exited">>
    <3>1. x \in Calls /\ y \in Calls /\ z \in Calls
      BY CallsKnown
    <3>2. todo' = <<x, y, z>> \o AfterExit(c)
      BY <2>1 DEF ExitCalls
    <3>3. DrainExitedList(c, 0) = Cons(x, Cons(y, Cons(z, AfterExit(c))))
      BY DEF DrainExitedList, FlushExitedList, CloseExitedList
    <3> HIDE DEF x, y, z
    <3>4. <<x, y, z>> \o AfterExit(c) = Cons(x, Cons(y, Cons(z, AfterExit(c))))
      BY <1>1, <3>1, ConsThree
    <3> QED BY <3>2, <3>3, <3>4
  <2>5. RestType'
    BY <1>0, <2>4, ExitLists DEF Base, RestType, Starts
  <2>6. OsType' /\ Pipes'
    BY <1>0 DEF Base, OsType, Pipes, Unread
  <2>7. OwnedBy(c)'
    <3>1. OwnedBy(c)
      BY <1>0 DEF Base, Owned
    <3> QED BY <1>0, <2>2, <2>3, <3>1 DEF OwnedBy, Of
  <2>8. /\ Base'
        /\ \A d \in Children : d # c => /\ Runs(d)' = Runs(d)
                                        /\ Gone(d)' = Gone(d)
                                        /\ Calm(d)' = Calm(d)
    BY <1>0, <2>2, <2>5, <2>6, <2>7, OneChild
  <2>9. Of(c)' = Of(c)
    BY <1>0, <2>2 DEF Of
  <2>10. Exiting(c)'
    <3>1. Calm(Other(c)) /\ Other(c) \in Children /\ Other(c) # c
      BY <1>1, ChildFacts DEF Polling, Other
    <3>2. Calm(Other(c))'
      BY <2>8, <3>1
    <3> QED BY <1>0, <1>1, <2>2, <2>3, <2>9, <3>2 DEF Polling, Exiting
  <2>11. LeftAfter(c, 0)'
    <3>1. Unread(slot[c].process) \in Nat /\ Unread(slot[c].process) <= PipeSize
      BY <1>0, <2>3, Fields
    <3>2. Unread(slot[c].process)' = Unread(slot[c].process)
      BY <1>0, <2>2 DEF Unread
    <3> QED BY <2>2, <3>1, <3>2, ChildFacts DEF LeftAfter
  <2>12. ExitPlan(c)'
    BY <2>2, <2>3, <2>4, <2>10, <2>11, ChildFacts DEF ExitPlan
  <2> QED BY <2>8, <2>12 DEF SupInv, Plan
<1> QED BY <1>2, <1>3

LEMMA CloseStep ==
  ASSUME SupInv, NEW c \in Children, NEW what, Close(c, what)
  PROVE  SupInv'
<1>0. /\ Base /\ UNCHANGED <<active, session, editor>>
      /\ Call("close", c, what) /\ todo' = <<>> \o Tail(todo)
      /\ slot' = [slot EXCEPT ![c].running = FALSE]
  BY DEF SupInv, Close, Then
<1>1. \/ Exiting(c) /\ ~slot[c].stdout /\ Tail(todo) = AfterExit(c)
      \/ \E rest \in Rests :
            /\ Stopping(c, rest) /\ Of(c).state # "live"
            /\ slot[c].running /\ ~slot[c].stdout
            /\ Tail(todo) = AfterStop(c, rest)
      \/ /\ Starting /\ c = Server /\ Runs(Server) /\ Of(Server).state # "live"
         /\ Tail(todo) = FlushFailedList
  BY <1>0, CloseCall
<1>2. Tail(todo) \in Seq(Calls)
  BY <1>1, ExitLists, StopLists, StartLists DEF Starts, Rests
<1>3. todo' = Tail(todo)
  BY <1>0, <1>2
<1>4. RestType'
  BY <1>0, <1>2, <1>3 DEF Base, RestType
<1> DEFINE p == slot[c].process
<1>5. p \in Mine(c) /\ p \in Processes /\ os[p].state # "live"
  BY <1>0, <1>1, ChildFacts DEF Base, Owned, OwnedBy, Exiting, Runs, Of
<1> DEFINE r == [os[p] EXCEPT !.handles = FALSE]
<1>6. os' = [os EXCEPT ![p] = r]
  BY DEF Close
<1>7. os[p] \in [state : {"none", "live", "dying", "dead"}, handles : BOOLEAN,
                 wrote : Nat, taken : Nat]
  BY <1>0, <1>5 DEF Base, OsType
<1> HIDE DEF p
<1>8. /\ r \in [state : {"none", "live", "dying", "dead"}, handles : BOOLEAN,
                wrote : Nat, taken : Nat]
      /\ r.taken = os[p].taken /\ r.wrote = os[p].wrote
      /\ r.state = os[p].state /\ ~r.handles
  BY <1>7
<1> HIDE DEF r
<1>9. r.taken <= r.wrote /\ r.wrote - r.taken <= PipeSize
  BY <1>0, <1>5, <1>8, Fields DEF Unread
<1>10. /\ OsType' /\ Pipes' /\ os'[p] = r
       /\ \A q \in Processes : q # p => os'[q] = os[q]
  BY <1>0, <1>5, <1>6, <1>8, <1>9, OsStep
<1>11. /\ SlotType'
       /\ slot'[c].process = p /\ slot'[c].stdout = slot[c].stdout
       /\ ~slot'[c].running
       /\ \A d \in Children : d # c => slot'[d] = slot[d]
  BY <1>0, StoppedSlot DEF p
<1>12. \A q \in Mine(c) : ~os'[q].handles /\ os'[q].state # "live"
  <2>1. OwnedBy(c)
    BY <1>0 DEF Base, Owned
  <2> SUFFICES ASSUME NEW q \in Mine(c)
               PROVE  ~os'[q].handles /\ os'[q].state # "live"
    OBVIOUS
  <2>2. q \in Processes
    BY ChildFacts
  <2>3. CASE q = p
    BY <1>5, <1>8, <1>10, <2>3
  <2>4. CASE q # p
    BY <1>10, <2>1, <2>2, <2>4 DEF OwnedBy, p
  <2> QED BY <2>3, <2>4
<1>13. OwnedBy(c)'
  <2>1. p \in Mine(c) \cup {None}
    BY <1>5
  <2> QED BY <1>11, <1>12, <2>1 DEF OwnedBy
<1>14. /\ Base'
       /\ \A d \in Children : d # c => /\ Runs(d)' = Runs(d)
                                       /\ Gone(d)' = Gone(d)
                                       /\ Calm(d)' = Calm(d)
  BY <1>0, <1>4, <1>5, <1>10, <1>11, <1>13, OneChild
<1>15. ~slot[c].stdout => Gone(c)'
  BY <1>11, <1>12 DEF Gone
<1>16. CASE Exiting(c) /\ ~slot[c].stdout /\ Tail(todo) = AfterExit(c)
  <2>1. Calm(Other(c))' /\ Gone(c)'
    BY <1>14, <1>15, <1>16, ChildFacts DEF Exiting
  <2>2. Polling'
    BY <1>0, <1>16, <2>1, ChildFacts DEF Exiting, Polling, Calm, Other
  <2>3. PollPlan'
    BY <1>3, <1>16, <2>2 DEF PollPlan, AfterExit
  <2> QED BY <1>14, <2>3 DEF SupInv, Plan
<1>17. ASSUME NEW rest \in Rests,
              /\ Stopping(c, rest) /\ Of(c).state # "live"
              /\ slot[c].running /\ ~slot[c].stdout
              /\ Tail(todo) = AfterStop(c, rest)
       PROVE  SupInv'
  <2>1. Gone(c)' /\ active' /\ Rest(rest)'
    BY <1>0, <1>15, <1>17 DEF Stopping, Rest
  <2>2. CASE c = Server
    <3>1. Calm(Client)'
      BY <1>14, <1>17, <2>2, ChildFacts DEF Stopping
    <3>2. StopPlan(Client, rest)'
      BY <1>3, <1>17, <2>1, <2>2, <3>1, ChildFacts DEF StopPlan, Stopping, AfterStop, StopList
    <3> QED BY <1>14, <3>2, ChildFacts DEF SupInv, Plan, Rests
  <2>3. CASE c = Client
    <3>1. Gone(Server)'
      BY <1>14, <1>17, <2>3, ChildFacts DEF Stopping
    <3>2. StoppedPlan(rest)'
      BY <1>3, <1>17, <2>1, <2>3, <3>1, ChildFacts DEF StoppedPlan, AfterStop
    <3> QED BY <1>14, <3>2 DEF SupInv, Plan, Rests
  <2> QED BY <2>2, <2>3, ChildFacts
<1>18. CASE /\ Starting /\ c = Server /\ Runs(Server) /\ Of(Server).state # "live"
            /\ Tail(todo) = FlushFailedList
  <2>1. Starting'
    BY <1>0, <1>14, <1>18, ChildFacts DEF Starting
  <2>2. StartPlan'
    BY <1>3, <1>11, <1>12, <1>18, <2>1 DEF StartPlan
  <2> QED BY <1>14, <2>2 DEF SupInv, Plan
<1> QED BY <1>1, <1>16, <1>17, <1>18

LEMMA SpawnStep ==
  ASSUME SupInv, NEW c \in Children, Spawn(c)
  PROVE  SupInv'
<1>0. /\ Base /\ UNCHANGED <<session, editor>> /\ Call("spawn", c, 0)
      /\ Spawned(c) \/ SpawnFailed(c)
  BY DEF SupInv, Spawn
<1>1. /\ Starting /\ session > 0 /\ Tail(todo) = PollList
      /\ IF c = Server THEN Gone(Server) ELSE Runs(Server)
  BY <1>0, SpawnCall
<1>2. PollList \in Seq(Calls)
  BY PollLists DEF Starts
<1>3. Gone(c)
  BY <1>1, ChildFacts DEF Starting
<1>4. CASE Spawned(c)
  <2> DEFINE p == <<c, session>>
             r == [os[p] EXCEPT !.state = "live", !.handles = TRUE]
             s == [process |-> p, running |-> TRUE, stdout |-> TRUE, line |-> <<>>]
  <2>1. p \in Mine(c) /\ p \in Processes
    BY <1>0, <1>1, ChildFacts DEF Mine, Processes, Base, RestType
  <2>2. os' = [os EXCEPT ![p] = r] /\ slot' = [slot EXCEPT ![c] = s]
    BY <1>4 DEF Spawned
  <2>3. active' = (active \/ c = Client)
    BY <1>4 DEF Spawned
  <2>4. todo' = IF c = Server THEN Cons(<<"spawn", Client, 0>>, PollList) ELSE PollList
    <3>1. todo' = (IF c = Server THEN << <<"spawn", Client, 0>> >> ELSE <<>>) \o PollList
      BY <1>1, <1>4 DEF Spawned, Then
    <3> QED BY <1>2, <3>1, ConsOne, CallsKnown, ChildFacts DEF Cons
  <2>5. os[p] \in [state : {"none", "live", "dying", "dead"}, handles : BOOLEAN,
                   wrote : Nat, taken : Nat]
    BY <1>0, <2>1 DEF Base, OsType
  <2>6. /\ s.process = p /\ s.running = TRUE /\ s.stdout = TRUE /\ s.line = <<>>
        /\ s.process \in Processes \cup {None} /\ s.running \in BOOLEAN /\ s.stdout \in BOOLEAN
    BY <2>1
  <2>7. s = [process |-> s.process, running |-> s.running, stdout |-> s.stdout,
             line |-> s.line]
    BY <2>6, Zenon
  <2> HIDE DEF p
  <2>8. /\ r \in [state : {"none", "live", "dying", "dead"}, handles : BOOLEAN,
                  wrote : Nat, taken : Nat]
        /\ r.taken = os[p].taken /\ r.wrote = os[p].wrote
        /\ r.state = "live" /\ r.handles
    BY <2>5
  <2> HIDE DEF r, s
  <2>9. r.taken <= r.wrote /\ r.wrote - r.taken <= PipeSize
    BY <1>0, <2>1, <2>8, Fields DEF Unread
  <2>10. /\ OsType' /\ Pipes' /\ os'[p] = r
         /\ \A q \in Processes : q # p => os'[q] = os[q]
    BY <1>0, <2>1, <2>2, <2>8, <2>9, OsStep
  <2>11. SlotType' /\ slot'[c] = s /\ \A d \in Children : d # c => slot'[d] = slot[d]
    BY <1>0, <2>2, <2>6, <2>7, SlotStep
  <2>12. \A q \in Mine(c) : q # p => ~os'[q].handles /\ os'[q].state # "live"
    <3>1. OwnedBy(c)
      BY <1>0 DEF Base, Owned
    <3>2. \A q \in Mine(c) : ~os[q].handles /\ os[q].state # "live"
      BY <1>3, <3>1 DEF Gone, OwnedBy
    <3> QED BY <2>10, <3>2, ChildFacts
  <2>13. OwnedBy(c)' /\ Runs(c)'
    <3>1. slot'[c].process = p /\ slot'[c].running /\ slot'[c].stdout
      BY <2>6, <2>11
    <3>2. os'[p].handles /\ p \in Mine(c) \cup {None}
      BY <2>1, <2>8, <2>10
    <3> QED BY <2>1, <2>12, <3>1, <3>2 DEF OwnedBy, Of, Runs
  <2>14. active' \in BOOLEAN
    BY <2>3
  <2>15. RestType'
    BY <1>0, <1>2, <2>4, <2>14, StartLists, ChildFacts DEF Base, RestType, Starts
  <2>16. /\ Base'
         /\ \A d \in Children : d # c => /\ Runs(d)' = Runs(d)
                                         /\ Gone(d)' = Gone(d)
                                         /\ Calm(d)' = Calm(d)
    BY <1>0, <2>1, <2>10, <2>11, <2>13, <2>15, OneChild
  <2>17. CASE c = Server
    <3>1. Starting'
      BY <1>0, <1>1, <2>3, <2>16, <2>17, ChildFacts DEF Starting
    <3>2. StartPlan'
      BY <1>0, <1>1, <2>4, <2>13, <2>17, <3>1 DEF StartPlan
    <3> QED BY <2>16, <3>2 DEF SupInv, Plan
  <2>18. CASE c = Client
    <3>1. Runs(Server)' /\ Runs(Client)' /\ active'
      BY <1>1, <2>3, <2>13, <2>16, <2>18, ChildFacts
    <3>2. FramePlan'
      BY <1>0, <1>1, <2>4, <2>18, <3>1, ChildFacts DEF FramePlan, Calm, Starting
    <3> QED BY <2>16, <3>2 DEF SupInv, Plan
  <2> QED BY <2>17, <2>18, ChildFacts
<1>5. CASE SpawnFailed(c)
  <2>1. slot' = slot /\ os' = os /\ active' = active
    BY <1>5 DEF SpawnFailed
  <2>2. CASE c = Server
    <3>1. todo' = PollList
      BY <1>1, <1>2, <1>5, <2>2, ConsOne, ChildFacts DEF SpawnFailed, Then
    <3>2. RestType'
      BY <1>0, <1>2, <2>1, <3>1 DEF Base, RestType
    <3>3. Base' /\ \A d : Runs(d)' = Runs(d) /\ Gone(d)' = Gone(d) /\ Calm(d)' = Calm(d)
      BY <1>0, <2>1, <3>2, SameBase
    <3>4. FramePlan'
      BY <1>0, <1>1, <2>1, <2>2, <3>1, <3>3 DEF Starting, FramePlan, Calm
    <3> QED BY <3>3, <3>4 DEF SupInv, Plan
  <2>3. CASE c = Client
    <3>1. todo' = UndoServer \o PollList
      BY <1>1, <1>5, <2>3, ChildFacts DEF SpawnFailed, Then
    <3>2. todo' = UndoList
      <4> DEFINE x == <<"terminate", Server, 0>>
                 y == <<"close", Server, "failed">>
                 z == <<"flush", Server, 0>>
      <4>1. x \in Calls /\ y \in Calls /\ z \in Calls
        BY CallsKnown, ChildFacts
      <4>2. todo' = <<x, y, z>> \o PollList
        BY <3>1 DEF UndoServer
      <4>3. UndoList = Cons(x, Cons(y, Cons(z, PollList)))
        BY DEF UndoList, CloseFailedList, FlushFailedList
      <4> HIDE DEF x, y, z
      <4>4. <<x, y, z>> \o PollList = Cons(x, Cons(y, Cons(z, PollList)))
        BY <1>2, <4>1, ConsThree
      <4> QED BY <4>2, <4>3, <4>4
    <3>3. RestType'
      BY <1>0, <2>1, <3>2, StartLists DEF Base, RestType, Starts
    <3>4. Base' /\ \A d : Runs(d)' = Runs(d) /\ Gone(d)' = Gone(d) /\ Calm(d)' = Calm(d)
      BY <1>0, <2>1, <3>3, SameBase
    <3>5. StartPlan'
      BY <1>0, <1>1, <2>1, <2>3, <3>2, <3>4, ChildFacts DEF StartPlan, Starting
    <3> QED BY <3>4, <3>5 DEF SupInv, Plan
  <2> QED BY <2>2, <2>3, ChildFacts
<1> QED BY <1>0, <1>4, <1>5

-----------------------------------------------------------------------------
(* SupInv is an invariant *)

LEMMA InitHolds == Init => SupInv
<1> SUFFICES ASSUME Init PROVE SupInv
  OBVIOUS
<1>1. SlotType
  <2>1. slot \in [Children -> [process : Processes \cup {None}, running : BOOLEAN,
                               stdout : BOOLEAN, line : {<<>>}]]
    BY DEF Init, EmptySlot
  <2> QED BY <2>1 DEF SlotType
<1>2. OsType
  BY DEF Init, OsType, NoProcess
<1>3. RestType
  <2>1. todo \in Seq(Calls)
    BY DEF Init
  <2>2. active \in BOOLEAN /\ editor \in {"open", "leaving", "left"}
    BY DEF Init
  <2>3. session \in 0..MaxSessions
    BY ChildFacts DEF Init
  <2> QED BY <2>1, <2>2, <2>3 DEF RestType
<1>4. Pipes
  BY ChildFacts DEF Init, NoProcess, Pipes, Unread
<1>5. \A c \in Children : OwnedBy(c) /\ Gone(c)
  BY ChildFacts DEF Init, NoProcess, EmptySlot, OwnedBy, Gone
<1>6. FramePlan
  BY <1>5, ChildFacts DEF Init, FramePlan, Calm
<1> QED BY <1>1, <1>2, <1>3, <1>4, <1>5, <1>6 DEF SupInv, Base, Owned, Plan

LEMMA StepHolds == SupInv /\ [Next]_vars => SupInv'
<1> SUFFICES ASSUME SupInv, [Next]_vars PROVE SupInv'
  OBVIOUS
<1>1. CASE UNCHANGED vars
  <2>1. /\ slot' = slot /\ os' = os /\ active' = active /\ session' = session
        /\ todo' = todo /\ editor' = editor
    BY <1>1 DEF vars
  <2>2. RestType'
    BY <2>1 DEF SupInv, Base, RestType
  <2>3. Base' /\ \A c : Runs(c)' = Runs(c) /\ Gone(c)' = Gone(c) /\ Calm(c)' = Calm(c)
    BY <2>1, <2>2, SameBase DEF SupInv
  <2>4. \A c : /\ Of(c)' = Of(c)
               /\ \A n : LeftAfter(c, n)' = LeftAfter(c, n)
    BY <2>1 DEF Of, LeftAfter, Unread
  <2>5. (FramePlan => FramePlan') /\ (PollPlan => PollPlan')
    BY <2>1, <2>3 DEF FramePlan, PollPlan, Polling
  <2>6. StartPlan => StartPlan'
    BY <2>1, <2>3, <2>4 DEF StartPlan, Starting
  <2>7. \A c \in Children : ExitPlan(c) => ExitPlan(c)'
    BY <2>1, <2>3, <2>4 DEF ExitPlan, Exiting
  <2>8. \A rest \in Rests : /\ StoppedPlan(rest) => StoppedPlan(rest)'
                            /\ \A c \in Children : StopPlan(c, rest) => StopPlan(c, rest)'
    BY <2>1, <2>3, <2>4 DEF StoppedPlan, StopPlan, Stopping, Rest
  <2> QED BY <2>3, <2>5, <2>6, <2>7, <2>8 DEF SupInv, Plan, Rests
<1>2. ASSUME NEW c \in Children,
             \/ Flush(c) \/ Terminate(c) \/ Check(c) \/ StopChild(c) \/ Spawn(c)
             \/ \E n \in 0..DrainGuard : Drain(c, n)
             \/ \E what \in {"exited", "stopped", "failed"} : Close(c, what)
      PROVE  SupInv'
  BY <1>2, FlushStep, TerminateStep, CheckStep, StopChildStep, SpawnStep, DrainStep, CloseStep
<1>3. CASE Settle \/ Poll \/ Stopped \/ Left
  BY <1>3, SettleStep, PollStep, StoppedStep, LeftStep
<1>4. CASE Frame \/ Toggle \/ Leave
  BY <1>4, FrameStep, ToggleStep, LeaveStep
<1>5. ASSUME NEW p \in Processes, Write(p) \/ End(p)
      PROVE  SupInv'
  BY <1>5, WriteStep, EndStep
<1> QED BY <1>1, <1>2, <1>3, <1>4, <1>5 DEF Next, Supervise

LEMMA Inductive == Spec => []SupInv
BY InitHolds, StepHolds, PTL DEF Spec

-----------------------------------------------------------------------------
(* What the invariant says *)

Has(list, x) == \E i \in DOMAIN list : list[i] = x

LEMMA HasCons ==
  ASSUME NEW x \in Calls, NEW rest \in Seq(Calls)
  PROVE  /\ Has(Cons(x, rest), x)
         /\ \A y : Has(rest, y) => Has(Cons(x, rest), y)
<1> DEFINE list == Cons(x, rest)
<1>1. /\ list \in Seq(Calls) /\ Len(list) = Len(rest) + 1 /\ list[1] = x
      /\ \A i \in 1..Len(rest) : list[i + 1] = rest[i]
  BY ConsFacts
<1> HIDE DEF list
<1>2. DOMAIN list = 1..(Len(rest) + 1) /\ DOMAIN rest = 1..Len(rest) /\ Len(rest) \in Nat
  BY <1>1
<1>3. Has(list, x)
  BY <1>1, <1>2 DEF Has
<1>4. ASSUME NEW y, Has(rest, y)
      PROVE  Has(list, y)
  <2>1. PICK i \in 1..Len(rest) : rest[i] = y
    BY <1>2, <1>4 DEF Has
  <2>2. i + 1 \in DOMAIN list /\ list[i + 1] = y
    BY <1>1, <1>2, <2>1
  <2> QED BY <2>2 DEF Has
<1> QED BY <1>3, <1>4 DEF list

\* The handles of a child that has ended are still to be closed.
LEMMA ExitCloses ==
  ASSUME NEW c \in Children, ExitPlan(c)
  PROVE  Has(todo, <<"close", c, "exited">>)
<1> DEFINE x == <<"close", c, "exited">>
           y == <<"flush", c, 0>>
<1>1. x \in Calls /\ y \in Calls /\ \A n \in 0..DrainGuard : <<"drain", c, n>> \in Calls
  BY CallsKnown, ChildFacts
<1>2. /\ AfterExit(c) \in Seq(Calls) /\ CloseExitedList(c) \in Seq(Calls)
      /\ FlushExitedList(c) \in Seq(Calls)
  BY ExitLists DEF Starts
<1>3. CloseExitedList(c) = Cons(x, AfterExit(c)) /\ FlushExitedList(c) = Cons(y, CloseExitedList(c))
  BY DEF CloseExitedList, FlushExitedList
<1> HIDE DEF x, y
<1>4. Has(CloseExitedList(c), x)
  BY <1>1, <1>2, <1>3, HasCons
<1>5. Has(FlushExitedList(c), x)
  BY <1>1, <1>2, <1>3, <1>4, HasCons
<1>6. \A n \in 0..DrainGuard : Has(DrainExitedList(c, n), x)
  BY <1>1, <1>2, <1>5, HasCons DEF DrainExitedList
<1>7. Has(todo, x)
  BY <1>4, <1>5, <1>6 DEF ExitPlan
<1> QED BY <1>7 DEF x

\* A child runs, or has no open handle, or its end is being dealt with.
LEMMA HandlesAccounted ==
  ASSUME SupInv, NEW c \in Children
  PROVE  slot[c].running \/ (\A p \in Mine(c) : ~os[p].handles) \/ ExitPlan(c)
<1>0. Calm(c) => slot[c].running \/ \A p \in Mine(c) : ~os[p].handles
  BY DEF Calm, Runs, Gone
<1>1. CASE FramePlan \/ PollPlan
  BY <1>0, <1>1, ChildFacts DEF FramePlan, PollPlan, Polling
<1>2. CASE StartPlan
  BY <1>0, <1>2, ChildFacts DEF StartPlan, Starting, Calm, Runs
<1>3. ASSUME NEW d \in Children, ExitPlan(d)
      PROVE  Calm(c) \/ ExitPlan(c)
  BY <1>3, ChildFacts DEF ExitPlan, Exiting, Other
<1>4. ASSUME NEW rest \in Rests, StoppedPlan(rest)
      PROVE  Calm(c)
  BY <1>4, ChildFacts DEF StoppedPlan, Calm
<1>5. ASSUME NEW rest \in Rests, NEW d \in Children, StopPlan(d, rest)
      PROVE  Calm(c) \/ slot[c].running
  <2>1. Calm(d) \/ slot[d].running
    BY <1>5 DEF StopPlan, Runs
  <2>2. c # d => Calm(c)
    BY <1>5, ChildFacts DEF StopPlan, Stopping, Calm
  <2> QED BY <2>1, <2>2
<1> QED BY <1>0, <1>1, <1>2, <1>3, <1>4, <1>5 DEF SupInv, Plan, Rests

LEMMA InvSupervises == SupInv => Supervised
<1> SUFFICES ASSUME SupInv PROVE Supervised
  OBVIOUS
<1>0. \A c \in Children : OwnedBy(c)
  BY DEF SupInv, Base, Owned
<1>1. ASSUME NEW p \in Processes
      PROVE  /\ os[p].state = "live" => slot[p[1]].process = p /\ slot[p[1]].running
             /\ os[p].handles => /\ slot[p[1]].process = p
                                 /\ \/ slot[p[1]].running
                                    \/ Has(todo, <<"close", p[1], "exited">>)
  <2>1. p[1] \in Children /\ p \in Mine(p[1])
    BY ChildFacts
  <2>2. slot[p[1]].running \/ ~os[p].handles \/ ExitPlan(p[1])
    BY <2>1, HandlesAccounted
  <2>3. ExitPlan(p[1]) => Has(todo, <<"close", p[1], "exited">>)
    BY <2>1, ExitCloses
  <2> QED BY <1>0, <2>1, <2>2, <2>3 DEF OwnedBy
<1>2. ASSUME NEW c \in Children, NEW what, Call("close", c, what)
      PROVE  os[slot[c].process].handles
  <2>1. \/ Exiting(c) \/ slot[c].running
    BY <1>2, CloseCall DEF Runs
  <2> QED BY <1>0, <2>1 DEF Exiting, OwnedBy, Of
<1>3. ASSUME ~active, todo = <<>>, NEW c \in Children
      PROVE  ~slot[c].running /\ ~slot[c].stdout
  <2>1. FramePlan
    BY <1>3, NoCall
  <2> QED BY <1>3, <2>1, ChildFacts DEF FramePlan, Gone
<1>4. ASSUME editor = "left", NEW p \in Processes
      PROVE  os[p].state # "live"
  <2>1. FramePlan
    BY <1>4 DEF SupInv, Plan, PollPlan, Polling, StartPlan, Starting, ExitPlan, Exiting,
       StoppedPlan, StopPlan, Stopping, Rest
  <2>2. ~slot[p[1]].running
    BY <1>4, <2>1, ChildFacts DEF FramePlan, Gone
  <2> QED BY <1>1, <2>2
<1> QED BY <1>1, <1>2, <1>3, <1>4 DEF Supervised, Has

LEMMA InvLosesLittle == SupInv => ExitLosesLittle
<1> SUFFICES ASSUME SupInv, NEW c \in Children,
                    Len(todo) > 1, todo[1] = <<"flush", c, 0>>,
                    todo[2] = <<"close", c, "exited">>
             PROVE  Unread(slot[c].process) <= PipeSize - Chunk * DrainGuard
  BY DEF ExitLosesLittle
<1>1. todo \in Seq(Calls)
  BY DEF SupInv, Base, RestType
<1>2. Call("flush", c, 0) /\ Tail(todo)[1] = <<"close", c, "exited">>
  BY <1>1 DEF Call
<1>3. ASSUME NEW rest \in Rests, Tail(todo) = CloseStoppedList(c, rest)
      PROVE  FALSE
  <2>1. Starts(CloseStoppedList(c, rest), <<"close", c, "stopped">>, AfterStop(c, rest))
    BY StopLists DEF Rests
  <2>2. CloseStoppedList(c, rest)[1] = <<"close", c, "stopped">>
    BY <2>1 DEF Starts
  <2> QED BY <1>2, <1>3, <2>2
<1>4. Tail(todo) # PollList
  <2>1. PollList[1] = <<"poll", None, 0>>
    <3>1. Starts(PollList, <<"poll", None, 0>>, <<>>)
      BY PollLists
    <3> QED BY <3>1 DEF Starts
  <2> QED BY <1>2, <2>1
<1>5. Exiting(c) /\ LeftAfter(c, DrainGuard)
  BY <1>2, <1>3, <1>4, FlushCall
<1>6. slot[c].process \in Processes
  BY <1>5, ChildFacts DEF Exiting
<1>7. Unread(slot[c].process) \in Nat
  BY <1>6, Fields DEF SupInv
<1> DEFINE u == Unread(slot[c].process)
           m == Chunk * DrainGuard
<1>8. m \in Nat /\ m <= PipeSize /\ PipeSize \in Nat
  BY ChildFacts
<1>9. u \in Nat /\ (u = 0 \/ u + m <= PipeSize)
  BY <1>5, <1>7 DEF LeftAfter
<1> HIDE DEF u, m
<1>10. u <= PipeSize - m
  BY <1>8, <1>9
<1> QED BY <1>10 DEF u, m

\* For any output of any length: whatever is alive is in its slot, running
\* and with its handles; handles are closed once; without a playtest there is
\* neither a child nor a pipe; and the editor leaves no child behind
\* (playtest_start, playtest_poll, playtest_stop).
THEOREM ChildrenSupervised == Spec => []Supervised
BY Inductive, InvSupervises, PTL

\* When playtest_poll closes the pipe of a child that has ended, no more is
\* unread than what a full pipe holds beyond one proc_drain: 64 bytes, with
\* the sizes of the code (playtest_poll, proc_drain, proc_flush_tail).
THEOREM ExitLossIsBounded == Spec => []ExitLosesLittle
BY Inductive, InvLosesLittle, PTL

-----------------------------------------------------------------------------
(* Induction without an operator parameter, from the well-foundedness of   *)
(* the naturals                                                            *)

LEMMA NatMin ==
  ASSUME NEW T \in SUBSET Nat, T # {}
  PROVE  \E x \in T : \A y \in T : x <= y
<1> DEFINE R == {ss \in Nat \X Nat : ss[1] < ss[2]}
<1>1. IsWellFoundedOn(R, Nat)
  BY NatLessThanWellFounded DEF OpToRel
<1>2. \A x, y \in Nat : y < x => <<y, x>> \in R
  OBVIOUS
<1> HIDE DEF R
<1>3. PICK x \in T : \A y \in T : ~ (<<y, x>> \in R)
  BY <1>1, WFMin
<1>4. ASSUME NEW y \in T PROVE x <= y
  <2>1. x \in Nat /\ y \in Nat
    OBVIOUS
  <2>2. ~ (y < x)
    BY <1>2, <1>3, <2>1
  <2> QED BY <2>1, <2>2
<1> QED BY <1>4

LEMMA SetInduction ==
  ASSUME NEW S, 0 \in S, \A n \in Nat : n \in S => n + 1 \in S
  PROVE  Nat \subseteq S
<1> SUFFICES ASSUME Nat \ S # {} PROVE FALSE
  OBVIOUS
<1>1. PICK x \in Nat \ S : \A y \in Nat \ S : x <= y
  BY NatMin
<1>2. x - 1 \in Nat /\ x - 1 \notin S
  BY <1>1
<1> QED BY <1>1, <1>2

-----------------------------------------------------------------------------
(* The lines of an output *)

\* A place behind all others is the last one and changes none before it.
LEMMA NthGrows ==
  ASSUME NEW s \in SUBSET Nat, IsFiniteSet(s), NEW m \in Nat, \A i \in s : i < m
  PROVE  /\ Cardinality(s) \in Nat /\ IsFiniteSet(s \cup {m})
         /\ Cardinality(s \cup {m}) = Cardinality(s) + 1
         /\ \A k \in 1..Cardinality(s) : Nth(s \cup {m}, k) = Nth(s, k)
         /\ Nth(s \cup {m}, Cardinality(s) + 1) = m
<1> DEFINE t == s \cup {m}
           c == Cardinality(s)
           Below(set, e) == {j \in set : j <= e}
<1>1. c \in Nat /\ IsFiniteSet(t) /\ Cardinality(t) = c + 1
  BY FS_CardinalityType, FS_AddElement
<1>2. Below(t, m) = t
  <2>1. \A j \in t : j <= m
    OBVIOUS
  <2> QED BY <2>1
<1>3. \A e \in s : Below(t, e) = Below(s, e)
  OBVIOUS
<1>4. \A e \in s : Cardinality(Below(s, e)) <= c
  <2> TAKE e \in s
  <2>1. Below(s, e) \in SUBSET s
    OBVIOUS
  <2> QED BY <2>1, FS_Subset
<1>5. \A e \in s : Cardinality(Below(s, e)) \in Nat
  <2> TAKE e \in s
  <2>1. Below(s, e) \in SUBSET s
    OBVIOUS
  <2>2. IsFiniteSet(Below(s, e))
    BY <2>1, FS_Subset
  <2> QED BY <2>2, FS_CardinalityType
<1>6. ASSUME NEW k \in 1..c PROVE Nth(t, k) = Nth(s, k)
  <2>1. \A e : e \in t /\ Cardinality(Below(t, e)) = k
                 <=> e \in s /\ Cardinality(Below(s, e)) = k
    <3> TAKE e
    <3>1. CASE e = m
      BY <1>1, <1>2, <1>6, <3>1
    <3>2. CASE e # m
      <4> HIDE DEF c, Below
      <4> QED BY <1>3, <3>2
    <3> QED BY <3>1, <3>2
  <2>2. (CHOOSE e : e \in t /\ Cardinality(Below(t, e)) = k)
          = (CHOOSE e : e \in s /\ Cardinality(Below(s, e)) = k)
    <3> HIDE DEF Below, t
    <3> QED BY <2>1
  <2> QED BY <2>2 DEF Nth
<1>7. Nth(t, c + 1) = m
  <2>1. \A e : e \in t /\ Cardinality(Below(t, e)) = c + 1 <=> e = m
    <3> TAKE e
    <3>1. e = m => e \in t /\ Cardinality(Below(t, e)) = c + 1
      BY <1>1, <1>2
    <3>2. ASSUME e \in s PROVE Cardinality(Below(t, e)) # c + 1
      BY <1>1, <1>3, <1>4, <1>5, <3>2
    <3> QED BY <3>1, <3>2
  <2>2. (CHOOSE e : e \in t /\ Cardinality(Below(t, e)) = c + 1) = m
    <3> HIDE DEF Below, t, c
    <3> QED BY <2>1
  <2> QED BY <2>2 DEF Nth
<1> QED BY <1>1, <1>6, <1>7

\* One more element under a bound on the length
LEMMA UptoGrows ==
  ASSUME NEW T, NEW s \in Seq(T), NEW x \in T, NEW n \in Nat
  PROVE  /\ Upto(s, n) \in Seq(T) /\ Len(Upto(s, n)) = IF Len(s) < n THEN Len(s) ELSE n
         /\ Upto(Append(s, x), n) = IF Len(s) < n THEN Append(Upto(s, n), x)
                                    ELSE Upto(s, n)
<1> DEFINE a == Append(s, x)
<1>1. a \in Seq(T) /\ Len(a) = Len(s) + 1 /\ Len(s) \in Nat
  OBVIOUS
<1>2. CASE Len(s) < n
  <2>1. Upto(s, n) = s
    BY <1>2, SubSeqFull DEF Upto
  <2>2. Upto(a, n) = a
    <3> HIDE DEF a
    <3>1. (IF Len(a) < n THEN Len(a) ELSE n) = Len(a)
      BY <1>1, <1>2
    <3> QED BY <1>1, <3>1, SubSeqFull DEF Upto
  <2> QED BY <1>2, <2>1, <2>2
<1>3. CASE ~(Len(s) < n)
  <2>1. Upto(s, n) = SubSeq(s, 1, n) /\ Upto(a, n) = SubSeq(a, 1, n)
    BY <1>1, <1>3 DEF Upto
  <2>2. \A i \in 1..n : s[i] \in T /\ a[i] = s[i]
    BY <1>3
  <2>3. /\ SubSeq(s, 1, n) \in Seq(T) /\ SubSeq(a, 1, n) \in Seq(T)
        /\ Len(SubSeq(s, 1, n)) = n /\ Len(SubSeq(a, 1, n)) = n
        /\ \A i \in 1..n : SubSeq(s, 1, n)[i] = s[i] /\ SubSeq(a, 1, n)[i] = a[i]
    <3> HIDE DEF a
    <3>1. \A i \in 1..n : a[i] \in T
      BY <2>2
    <3>2. /\ SubSeq(s, 1, n) \in Seq(T)
          /\ Len(SubSeq(s, 1, n)) = IF 1 <= n THEN n - 1 + 1 ELSE 0
          /\ \A i \in 1..(n - 1 + 1) : SubSeq(s, 1, n)[i] = s[1 + i - 1]
      BY <2>2, SubSeqProperties
    <3>3. /\ SubSeq(a, 1, n) \in Seq(T)
          /\ Len(SubSeq(a, 1, n)) = IF 1 <= n THEN n - 1 + 1 ELSE 0
          /\ \A i \in 1..(n - 1 + 1) : SubSeq(a, 1, n)[i] = a[1 + i - 1]
      BY <3>1, SubSeqProperties
    <3> QED BY <3>2, <3>3
  <2>4. SubSeq(s, 1, n) = SubSeq(a, 1, n)
    <3> HIDE DEF a
    <3> QED BY <2>2, <2>3, SeqEqual
  <2> QED BY <1>3, <2>1, <2>3, <2>4
<1> QED BY <1>2, <1>3

LEMMA LineAssumption ==
  /\ LineBuf \in Nat \ {0} /\ Newlines \subseteq Nat /\ Returns \subseteq Nat
  /\ LogLines \in Nat \ {0} /\ LogCols \in Nat \ {0}
BY SupervisorAssumption, LogAssumption

LEMMA TextGrows ==
  ASSUME NEW a \in Nat, NEW n \in Nat, a <= n + 1
  PROVE  /\ \E T : Text(a, n) \in Seq(T)
         /\ Text(a, n + 1) = IF n + 1 \notin Returns /\ Len(Text(a, n)) < LineBuf
                             THEN Append(Text(a, n), n + 1) ELSE Text(a, n)
<1> DEFINE s == (a..n) \ Returns
           t == (a..(n + 1)) \ Returns
           c == Cardinality(s)
           all == [k \in 1..c |-> Nth(s, k)]
           T == {Nth(s, k) : k \in 1..c} \cup {n + 1}
<1>1. s \in SUBSET Nat /\ IsFiniteSet(s) /\ \A i \in s : i < n + 1
  <2>1. IsFiniteSet(a..n)
    BY FS_Interval
  <2>2. s \in SUBSET (a..n)
    OBVIOUS
  <2>3. IsFiniteSet(s)
    BY <2>1, <2>2, FS_Subset
  <2> QED BY <2>3
<1>2. c \in Nat
  BY <1>1, FS_CardinalityType
<1>3. all \in Seq(T) /\ Len(all) = c /\ n + 1 \in T
  <2>1. (\A k \in 1..c : Nth(s, k) \in T) /\ n + 1 \in T
    OBVIOUS
  <2> HIDE DEF T, c, s
  <2> QED BY <1>2, <2>1
<1>4. LineBuf \in Nat
  BY LineAssumption
<1>5. Text(a, n) = Upto(all, LineBuf)
  BY DEF Text
<1> HIDE DEF T
<1>6. CASE n + 1 \in Returns
  <2>1. t = s
    BY <1>6
  <2>2. Text(a, n + 1) = Text(a, n)
    BY <2>1 DEF Text
  <2> HIDE DEF all, s, t, c
  <2>3. Upto(all, LineBuf) \in Seq(T)
    BY <1>3, <1>4, UptoGrows
  <2> QED BY <1>5, <1>6, <2>2, <2>3
<1>7. CASE n + 1 \notin Returns
  <2>1. t = s \cup {n + 1} /\ n + 1 \in Nat
    BY <1>7
  <2> HIDE DEF s, t
  <2>2. /\ Cardinality(t) = c + 1
        /\ \A k \in 1..c : Nth(t, k) = Nth(s, k)
        /\ Nth(t, c + 1) = n + 1
    <3> HIDE DEF all
    <3> QED BY <1>1, <2>1, NthGrows
  <2>3. [k \in 1..Cardinality(t) |-> Nth(t, k)] = Append(all, n + 1)
    <3> DEFINE new == [k \in 1..(c + 1) |-> Nth(t, k)]
               old == Append(all, n + 1)
    <3>1. old \in Seq(T) /\ Len(old) = c + 1 /\ old[c + 1] = n + 1
      BY <1>2, <1>3
    <3>2. \A k \in 1..c : old[k] = Nth(s, k)
      BY <1>2, <1>3
    <3>3. \A k \in 1..(c + 1) : new[k] = old[k]
      <4> TAKE k \in 1..(c + 1)
      <4>1. new[k] = Nth(t, k)
        OBVIOUS
      <4>2. k = c + 1 \/ k \in 1..c
        BY <1>2
      <4> HIDE DEF new, old, c
      <4> QED BY <2>2, <3>1, <3>2, <4>1, <4>2
    <3>4. DOMAIN old = 1..(c + 1) /\ old = [k \in 1..(c + 1) |-> old[k]]
      <4> HIDE DEF old, c, all
      <4> QED BY <3>1
    <3>5. new = [k \in 1..(c + 1) |-> old[k]]
      <4> HIDE DEF old, c
      <4>1. new = [k \in 1..(c + 1) |-> new[k]]
        OBVIOUS
      <4> HIDE DEF new
      <4> QED BY <3>3, <4>1
    <3> QED BY <2>2, <3>4, <3>5
  <2>4. Text(a, n + 1) = Upto(Append(all, n + 1), LineBuf)
    BY <2>3 DEF Text, t
  <2> HIDE DEF all, c
  <2>5. /\ Upto(all, LineBuf) \in Seq(T)
        /\ Len(Upto(all, LineBuf)) = IF Len(all) < LineBuf THEN Len(all) ELSE LineBuf
        /\ Upto(Append(all, n + 1), LineBuf)
             = IF Len(all) < LineBuf THEN Append(Upto(all, LineBuf), n + 1)
               ELSE Upto(all, LineBuf)
    <3> DEFINE x == n + 1
    <3>1. x \in T
      BY <1>3
    <3> HIDE DEF x
    <3>2. /\ Upto(all, LineBuf) \in Seq(T)
          /\ Len(Upto(all, LineBuf)) = IF Len(all) < LineBuf THEN Len(all) ELSE LineBuf
          /\ Upto(Append(all, x), LineBuf)
               = IF Len(all) < LineBuf THEN Append(Upto(all, LineBuf), x)
                 ELSE Upto(all, LineBuf)
      BY <1>3, <1>4, <3>1, UptoGrows
    <3> QED BY <3>2 DEF x
  <2> QED BY <1>4, <1>5, <1>7, <2>4, <2>5
<1> QED BY <1>6, <1>7

LEMMA NoText ==
  ASSUME NEW n \in Nat
  PROVE  Text(n + 1, n) = <<>>
<1>1. (n + 1)..n = {}
  OBVIOUS
<1>2. Cardinality({}) = 0
  BY FS_EmptySet
<1>3. Text(n + 1, n) = Upto([k \in 1..0 |-> Nth({}, k)], LineBuf)
  BY <1>1, <1>2 DEF Text
<1> DEFINE e == [k \in 1..0 |-> Nth({}, k)]
<1>4. e = <<>>
  OBVIOUS
<1>5. Len(<<>>) = 0 /\ LineBuf \in Nat \ {0}
  BY LineAssumption
<1>6. Upto(<<>>, LineBuf) = SubSeq(<<>>, 1, 0)
  BY <1>5 DEF Upto
<1>7. SubSeq(<<>>, 1, 0) = <<>>
  BY SubSeqEmpty
<1> QED BY <1>3, <1>4, <1>6, <1>7

LEMMA EndsGrow ==
  ASSUME NEW n \in Nat
  PROVE  /\ Ends(n) \in SUBSET Nat /\ IsFiniteSet(Ends(n)) /\ \A i \in Ends(n) : i < n + 1
         /\ Cardinality(Ends(n)) \in Nat
         /\ n + 1 \in Newlines => Ends(n + 1) = Ends(n) \cup {n + 1}
         /\ n + 1 \notin Newlines => Ends(n + 1) = Ends(n)
<1>1. Ends(n) \in SUBSET (1..n) /\ IsFiniteSet(1..n)
  BY FS_Interval DEF Ends
<1>2. IsFiniteSet(Ends(n))
  BY <1>1, FS_Subset
<1>3. 1..(n + 1) = 1..n \cup {n + 1}
  OBVIOUS
<1> QED BY <1>1, <1>2, <1>3, FS_CardinalityType DEF Ends

\* The place of the last newline
LastEnd(n) == EndOf(n, Cardinality(Ends(n)))

LEMMA LastEndGrows ==
  ASSUME NEW n \in Nat
  PROVE  /\ n + 1 \in Newlines => LastEnd(n + 1) = n + 1
         /\ n + 1 \notin Newlines => LastEnd(n + 1) = LastEnd(n)
<1>1. CASE n + 1 \in Newlines
  <2>1. /\ Cardinality(Ends(n + 1)) = Cardinality(Ends(n)) + 1
        /\ Nth(Ends(n + 1), Cardinality(Ends(n)) + 1) = n + 1
        /\ Cardinality(Ends(n)) \in Nat
    <3> DEFINE s == Ends(n)
    <3>1. s \in SUBSET Nat /\ IsFiniteSet(s) /\ \A i \in s : i < n + 1
      BY EndsGrow
    <3>2. Ends(n + 1) = s \cup {n + 1}
      BY <1>1, EndsGrow
    <3> HIDE DEF s
    <3> QED BY <3>1, <3>2, NthGrows DEF s
  <2> QED BY <1>1, <2>1 DEF LastEnd, EndOf
<1>2. CASE n + 1 \notin Newlines
  BY <1>2, EndsGrow DEF LastEnd, EndOf
<1> QED BY <1>1, <1>2

LEMMA LastEndBound == \A n \in Nat : LastEnd(n) \in 0..n
<1> DEFINE S == {n \in Nat : LastEnd(n) \in 0..n}
<1>1. 0 \in S
  <2>1. Ends(0) = {}
    BY DEF Ends
  <2>2. Cardinality(Ends(0)) = 0
    BY <2>1, FS_EmptySet
  <2> QED BY <2>2 DEF LastEnd, EndOf
<1>2. ASSUME NEW n \in Nat, n \in S PROVE n + 1 \in S
  BY <1>2, LastEndGrows
<1>3. Nat \subseteq S
  <2> HIDE DEF S
  <2> QED BY <1>1, <1>2, SetInduction
<1> QED BY <1>3

\* What one more byte does to the lines of an output and to the rest
LEMMA LinesGrow ==
  ASSUME NEW n \in Nat
  PROVE  /\ \E T : LinesIn(n) \in Seq(T) /\ RestOf(n) \in T
         /\ \E T : RestOf(n) \in Seq(T)
         /\ n + 1 \in Newlines => /\ RestOf(n + 1) = <<>>
                                  /\ LinesIn(n + 1) = Append(LinesIn(n), RestOf(n))
         /\ n + 1 \notin Newlines =>
               /\ LinesIn(n + 1) = LinesIn(n)
               /\ RestOf(n + 1) = IF n + 1 \notin Returns /\ Len(RestOf(n)) < LineBuf
                                  THEN Append(RestOf(n), n + 1) ELSE RestOf(n)
<1> DEFINE s == Ends(n)
           c == Cardinality(s)
           L == LastEnd(n)
           OneLine(k) == Text(EndOf(n, k - 1) + 1, EndOf(n, k) - 1)
           T == {OneLine(k) : k \in 1..c} \cup {RestOf(n)}
<1>1. L \in Nat /\ L <= n /\ RestOf(n) = Text(L + 1, n)
  BY LastEndBound DEF RestOf, LastEnd
<1>2. s \in SUBSET Nat /\ IsFiniteSet(s) /\ c \in Nat /\ \A i \in s : i < n + 1
  BY EndsGrow
<1>3. LinesIn(n) = [k \in 1..c |-> OneLine(k)]
  BY DEF LinesIn
<1>4. LinesIn(n) \in Seq(T) /\ RestOf(n) \in T /\ Len(LinesIn(n)) = c
  <2>1. \A k \in 1..c : OneLine(k) \in T
    OBVIOUS
  <2> HIDE DEF T, c, OneLine
  <2>2. [k \in 1..c |-> OneLine(k)] \in Seq(T) /\ Len([k \in 1..c |-> OneLine(k)]) = c
    BY <1>2, <2>1
  <2> QED BY <1>3, <2>2 DEF T
<1> HIDE DEF T
<1>5. CASE n + 1 \notin Newlines
  <2>1. Ends(n + 1) = s
    BY <1>5, EndsGrow
  <2>2. LinesIn(n + 1) = LinesIn(n)
    BY <2>1 DEF LinesIn, EndOf
  <2>3. RestOf(n + 1) = Text(L + 1, n + 1)
    BY <2>1 DEF RestOf, LastEnd, EndOf
  <2> HIDE DEF L
  <2>4. L + 1 \in Nat /\ L + 1 <= n + 1
    BY <1>1
  <2> QED BY <1>1, <1>4, <1>5, <2>2, <2>3, <2>4, TextGrows
<1>6. CASE n + 1 \in Newlines
  <2> DEFINE t == Ends(n + 1)
  <2>1. t = s \cup {n + 1}
    BY <1>6, EndsGrow
  <2>2. /\ Cardinality(t) = c + 1
        /\ \A k \in 1..c : Nth(t, k) = Nth(s, k)
        /\ Nth(t, c + 1) = n + 1
    <3> HIDE DEF t, s
    <3> QED BY <1>2, <2>1, NthGrows
  <2>3. \A k \in 0..c : EndOf(n + 1, k) = EndOf(n, k)
    <3> TAKE k \in 0..c
    <3>1. k = 0 \/ k \in 1..c
      BY <1>2
    <3> HIDE DEF c
    <3> QED BY <2>2, <3>1 DEF EndOf
  <2>4. EndOf(n + 1, c + 1) = n + 1
    BY <1>2, <2>2 DEF EndOf
  <2>5. RestOf(n + 1) = <<>>
    <3>1. RestOf(n + 1) = Text(n + 2, n + 1)
      BY <2>2, <2>4 DEF RestOf
    <3> QED BY <3>1, NoText
  <2> DEFINE new == [k \in 1..(c + 1) |-> Text(EndOf(n + 1, k - 1) + 1, EndOf(n + 1, k) - 1)]
             old == Append(LinesIn(n), RestOf(n))
  <2>6. LinesIn(n + 1) = new
    BY <2>2 DEF LinesIn
  <2>7. old \in Seq(T) /\ Len(old) = c + 1 /\ old[c + 1] = RestOf(n)
        /\ \A k \in 1..c : old[k] = LinesIn(n)[k]
    <3> HIDE DEF c
    <3> QED BY <1>2, <1>4
  <2>8. \A k \in 1..(c + 1) : new[k] = old[k]
    <3> TAKE k \in 1..(c + 1)
    <3>1. new[k] = Text(EndOf(n + 1, k - 1) + 1, EndOf(n + 1, k) - 1)
      OBVIOUS
    <3>2. CASE k = c + 1
      <4>1. k - 1 = c /\ c \in 0..c
        BY <1>2, <3>2
      <4>2. EndOf(n + 1, k - 1) = L /\ EndOf(n + 1, k) = n + 1
        BY <2>3, <2>4, <3>2, <4>1 DEF LastEnd
      <4>3. n + 1 - 1 = n
        OBVIOUS
      <4> HIDE DEF L, new, old
      <4> QED BY <1>1, <2>7, <3>1, <3>2, <4>2, <4>3
    <3>3. CASE k \in 1..c
      <4>1. k - 1 \in 0..c /\ k \in 0..c
        BY <1>2, <3>3
      <4>2. EndOf(n + 1, k - 1) = EndOf(n, k - 1) /\ EndOf(n + 1, k) = EndOf(n, k)
        BY <2>3, <4>1
      <4>3. old[k] = OneLine(k)
        BY <1>3, <2>7, <3>3
      <4> HIDE DEF new, old
      <4> QED BY <3>1, <4>2, <4>3
    <3>4. k = c + 1 \/ k \in 1..c
      BY <1>2
    <3> HIDE DEF new, old, c
    <3> QED BY <3>2, <3>3, <3>4
  <2>9. new = old
    <3>1. new = [k \in 1..(c + 1) |-> new[k]]
      OBVIOUS
    <3>2. old = [k \in 1..(c + 1) |-> old[k]]
      <4> HIDE DEF old, c
      <4> QED BY <2>7
    <3> HIDE DEF new, old, c
    <3> QED BY <2>8, <3>1, <3>2
  <2>10. \E U : RestOf(n) \in Seq(U)
    <3> HIDE DEF L, new, old, t
    <3>1. L + 1 \in Nat /\ L + 1 <= n + 1
      BY <1>1
    <3> QED BY <1>1, <3>1, TextGrows
  <2> HIDE DEF new
  <2> QED BY <1>4, <1>6, <2>5, <2>6, <2>9, <2>10
<1> QED BY <1>5, <1>6

-----------------------------------------------------------------------------
(* The ring of the output log *)

ValidLog(lg) ==
  /\ DOMAIN lg.slots = 0..(LogLines - 1)
  /\ lg.head \in 0..(LogLines - 1) /\ lg.count \in 0..LogLines
  /\ lg.count < LogLines => lg.head = 0

Cut(line) == [line EXCEPT !.text = Upto(@, LogCols - 1)]

LEMMA ModFacts ==
  ASSUME NEW c \in Nat \ {0}
  PROVE  /\ \A x \in 0..(c - 1) : x % c = x
         /\ \A x \in c..(2 * c - 1) : x % c = x - c
OBVIOUS

\* How many lines a push drops
Dropped(lg) == IF lg.count < LogLines THEN 0 ELSE 1

\* A push appends to the lines shown, and drops the first of a full log.
LEMMA ShownPushed ==
  ASSUME NEW lg, ValidLog(lg), NEW line
  PROVE  LET new == Pushed(lg, line)
         IN  /\ ValidLog(new)
             /\ new.count \in 1..LogLines /\ new.count = lg.count + 1 - Dropped(lg)
             /\ Shown(new)[new.count] = Cut(line)
             /\ \A i \in 1..(new.count - 1) : Shown(new)[i] = Shown(lg)[i + Dropped(lg)]
<1> DEFINE new == Pushed(lg, line)
           L == LogLines
           h == lg.head
           n == lg.count
<1>0. L \in Nat /\ L > 0 /\ h \in 0..(L - 1) /\ n \in 0..L
  BY LineAssumption DEF ValidLog
<1>m. /\ \A x \in 0..(L - 1) : x % L = x
      /\ \A x \in L..(2 * L - 1) : x % L = x - L
  BY LineAssumption, ModFacts
<1>1. CASE n < L
  <2>1. h = 0 /\ (h + n) % L = n
    BY <1>0, <1>1, <1>m DEF ValidLog
  <2>2. /\ new.slots = [lg.slots EXCEPT ![n] = Cut(line)]
        /\ new.head = 0 /\ new.count = n + 1
    BY <1>0, <1>1, <2>1 DEF Pushed, Cut
  <2>3. DOMAIN new.slots = 0..(L - 1)
    BY <2>2 DEF ValidLog
  <2>4. new.slots[n] = Cut(line) /\ \A j \in 0..(L - 1) : j # n => new.slots[j] = lg.slots[j]
    <3>1. n \in DOMAIN lg.slots /\ DOMAIN lg.slots = 0..(L - 1)
      BY <1>0, <1>1 DEF ValidLog
    <3> HIDE DEF n, L
    <3> QED BY <2>2, <3>1
  <2> HIDE DEF new
  <2>5. ValidLog(new)
    BY <1>0, <1>1, <2>2, <2>3 DEF ValidLog
  <2>6. \A i \in 1..(n + 1) : Shown(new)[i] = new.slots[i - 1]
    <3> TAKE i \in 1..(n + 1)
    <3>1. (new.head + i - 1) % L = i - 1
      BY <1>0, <1>1, <1>m, <2>2
    <3> QED BY <2>2, <3>1 DEF Shown
  <2>7. \A i \in 1..n : Shown(lg)[i] = lg.slots[i - 1]
    <3> TAKE i \in 1..n
    <3>1. (h + i - 1) % L = i - 1
      BY <1>0, <1>1, <1>m, <2>1
    <3> QED BY <3>1 DEF Shown
  <2>8. Shown(new)[n + 1] = Cut(line)
    BY <1>0, <2>4, <2>6
  <2>9. \A i \in 1..n : Shown(new)[i] = Shown(lg)[i]
    <3> TAKE i \in 1..n
    <3>1. i \in 1..(n + 1) /\ i - 1 \in 0..(L - 1) /\ i - 1 # n
      BY <1>0, <1>1
    <3> QED BY <2>4, <2>6, <2>7, <3>1
  <2>10. Dropped(lg) = 0 /\ new.count \in 1..L
    BY <1>0, <1>1, <2>2 DEF Dropped
  <2>11. \A i \in 1..(new.count - 1) : Shown(new)[i] = Shown(lg)[i + 0]
    BY <1>0, <2>2, <2>9
  <2> QED BY <1>0, <2>2, <2>5, <2>8, <2>10, <2>11 DEF new
<1>2. CASE n = L
  <2>1. /\ new.slots = [lg.slots EXCEPT ![h] = Cut(line)]
        /\ new.head = (h + 1) % L /\ new.count = n
    BY <1>0, <1>2 DEF Pushed, Cut
  <2>2. DOMAIN new.slots = 0..(L - 1)
    BY <2>1 DEF ValidLog
  <2>3. new.slots[h] = Cut(line) /\ \A j \in 0..(L - 1) : j # h => new.slots[j] = lg.slots[j]
    <3>1. h \in DOMAIN lg.slots /\ DOMAIN lg.slots = 0..(L - 1)
      BY <1>0 DEF ValidLog
    <3> HIDE DEF h, L
    <3> QED BY <2>1, <3>1
  <2>4. new.head = IF h + 1 < L THEN h + 1 ELSE 0
    <3>1. CASE h + 1 < L
      BY <1>0, <1>m, <2>1, <3>1
    <3>2. CASE ~(h + 1 < L)
      <4>1. h + 1 = L /\ L \in L..(2 * L - 1) /\ L - L = 0
        BY <1>0, <3>2
      <4>2. L % L = L - L
        BY <1>m, <4>1
      <4> HIDE DEF L, new
      <4> QED BY <2>1, <3>2, <4>1, <4>2
    <3> QED BY <3>1, <3>2
  <2> HIDE DEF new
  <2>5. ValidLog(new)
    BY <1>0, <1>2, <2>1, <2>2, <2>4 DEF ValidLog
  <2> DEFINE At(i) == IF h + i < L THEN h + i ELSE h + i - L
  <2>6. \A i \in 0..L : (h + i) % L = At(i) /\ At(i) \in 0..(L - 1)
    <3> TAKE i \in 0..L
    <3>1. CASE h + i < L
      BY <1>0, <1>m, <3>1
    <3>2. CASE ~(h + i < L)
      <4>1. h + i \in L..(2 * L - 1)
        BY <1>0, <3>2
      <4> DEFINE x == h + i
      <4> HIDE DEF L, x
      <4>2. x % L = x - L
        BY <1>m, <4>1 DEF x
      <4> QED BY <1>0, <3>2, <4>1, <4>2 DEF x
    <3> QED BY <3>1, <3>2
  <2>7. \A i \in 1..L : Shown(lg)[i] = lg.slots[At(i - 1)]
    <3> TAKE i \in 1..L
    <3>1. i - 1 \in 0..L /\ h + i - 1 = h + (i - 1)
      BY <1>0
    <3>2. (h + i - 1) % L = At(i - 1)
      <4> HIDE DEF At
      <4> QED BY <2>6, <3>1
    <3>3. Shown(lg)[i] = lg.slots[(h + i - 1) % L]
      BY <1>2 DEF Shown
    <3> HIDE DEF At
    <3> QED BY <3>2, <3>3
  <2>8. \A i \in 1..L : Shown(new)[i] = new.slots[At(i)]
    <3> TAKE i \in 1..L
    <3>1. new.head + i - 1 = IF h + 1 < L THEN h + i ELSE i - 1
      BY <1>0, <2>4
    <3>2. (new.head + i - 1) % L = At(i)
      <4>1. CASE h + 1 < L
        <5>1. i \in 0..L
          BY <1>0
        <5> QED BY <2>6, <3>1, <4>1, <5>1
      <4>2. CASE ~(h + 1 < L)
        <5>1. i - 1 \in 0..(L - 1) /\ At(i) = i - 1
          BY <1>0, <4>2
        <5>2. (i - 1) % L = i - 1
          BY <1>m, <5>1
        <5> QED BY <3>1, <4>2, <5>1, <5>2
      <4> QED BY <4>1, <4>2
    <3>3. Shown(new)[i] = new.slots[(new.head + i - 1) % L]
      BY <1>2, <2>1 DEF Shown
    <3> HIDE DEF At
    <3> QED BY <3>2, <3>3
  <2>9. Shown(new)[L] = Cut(line)
    <3>1. At(L) = h /\ L \in 1..L
      BY <1>0
    <3> HIDE DEF At
    <3> QED BY <2>3, <2>8, <3>1
  <2>10. \A i \in 1..(L - 1) : Shown(new)[i] = Shown(lg)[i + 1]
    <3> TAKE i \in 1..(L - 1)
    <3>1. i \in 1..L /\ i + 1 \in 1..L /\ i + 1 - 1 = i /\ At(i) # h /\ i \in 0..L
      BY <1>0
    <3> HIDE DEF At
    <3>2. new.slots[At(i)] = lg.slots[At(i)]
      BY <2>3, <2>6, <3>1
    <3> QED BY <2>7, <2>8, <3>1, <3>2
  <2>11. Dropped(lg) = 1 /\ new.count \in 1..L /\ new.count = L
    BY <1>0, <1>2, <2>1 DEF Dropped
  <2> QED BY <1>0, <1>2, <2>5, <2>9, <2>10, <2>11 DEF new
<1> QED BY <1>0, <1>1, <1>2

\* Moving a set of places does not change how many they are.
LEMMA MovedSet ==
  ASSUME NEW s \in SUBSET Nat, IsFiniteSet(s), NEW d \in Nat, \A i \in s : i >= d
  PROVE  Cardinality({j \in Nat : j + d \in s}) = Cardinality(s)
<1> DEFINE t == {j \in Nat : j + d \in s}
           f == [i \in s |-> i - d]
<1>1. \A i \in s : i - d \in Nat /\ (i - d) + d = i
  OBVIOUS
<1>2. f \in [s -> t]
  BY <1>1
<1>3. \A a, b \in s : f[a] = f[b] => a = b
  BY <1>1
<1>4. \A j \in t : j + d \in s /\ f[j + d] = j
  OBVIOUS
<1>5. f \in Bijection(s, t)
  <2> HIDE DEF f, t
  <2>1. \A j \in t : \E i \in s : f[i] = j
    BY <1>4
  <2> QED BY <1>2, <1>3, <2>1 DEF Bijection, Injection, Surjection, IsInjective
<1>6. ExistsBijection(s, t)
  <2> HIDE DEF f, t
  <2> QED BY <1>5 DEF ExistsBijection
<1> QED BY <1>6, FS_Bijection

\* The lines of p that a log shows, from its i-th on
From(lg, p, i) == {j \in Own(lg, p) : j >= i}

LEMMA FromFacts ==
  ASSUME NEW lg, ValidLog(lg), NEW p, NEW i \in Nat
  PROVE  /\ From(lg, p, i) \in SUBSET Nat /\ IsFiniteSet(From(lg, p, i))
         /\ Cardinality(From(lg, p, i)) \in Nat
         /\ i \in Own(lg, p) => Cardinality(From(lg, p, i)) > 0
<1>1. lg.count \in Nat
  BY LineAssumption DEF ValidLog
<1>2. From(lg, p, i) \in SUBSET (1..lg.count) /\ IsFiniteSet(1..lg.count)
  BY <1>1, FS_Interval DEF From, Own
<1>3. IsFiniteSet(From(lg, p, i))
  BY <1>2, FS_Subset
<1>4. Cardinality(From(lg, p, i)) \in Nat
  BY <1>3, FS_CardinalityType
<1>5. i \in Own(lg, p) => i \in From(lg, p, i)
  BY DEF From
<1>6. i \in Own(lg, p) => Cardinality(From(lg, p, i)) # 0
  BY <1>3, <1>5, FS_EmptySet
<1> QED BY <1>1, <1>2, <1>3, <1>4, <1>6

\* Which lines of a log are of p after a push, and how many from each on
LEMMA FromPushed ==
  ASSUME NEW lg, ValidLog(lg), NEW x, NEW text, NEW p
  PROVE  LET new == Pushed(lg, [from |-> x, text |-> text])
             d == Dropped(lg)
         IN  /\ new.count \in Own(new, p) <=> x = p
             /\ Shown(new)[new.count].text = Upto(text, LogCols - 1)
             /\ x = p => Cardinality(From(new, p, new.count)) = 1
             /\ \A i \in Own(new, p) : i # new.count =>
                  /\ i + d \in Own(lg, p) /\ Shown(new)[i] = Shown(lg)[i + d]
                  /\ Cardinality(From(new, p, i))
                       = Cardinality(From(lg, p, i + d)) + IF x = p THEN 1 ELSE 0
<1> DEFINE line == [from |-> x, text |-> text]
           new == Pushed(lg, line)
           d == Dropped(lg)
           n == new.count
<1>1. /\ n \in 1..LogLines /\ n = lg.count + 1 - d
      /\ Shown(new)[n] = Cut(line)
      /\ \A i \in 1..(n - 1) : Shown(new)[i] = Shown(lg)[i + d]
  <2> HIDE DEF line
  <2> QED BY ShownPushed
<1>2. d \in Nat /\ lg.count \in Nat /\ n \in Nat /\ n > 0 /\ LogLines \in Nat
  BY <1>1, LineAssumption DEF Dropped, ValidLog
<1>3. Shown(new)[n].from = x /\ Shown(new)[n].text = Upto(text, LogCols - 1)
  <2>1. Cut(line).from = x /\ Cut(line).text = Upto(text, LogCols - 1)
    BY DEF Cut
  <2> HIDE DEF line, new, n
  <2> QED BY <1>1, <2>1
<1> HIDE DEF line, new, d
<1>4. n \in Own(new, p) <=> x = p
  BY <1>2, <1>3 DEF Own
<1>5. \A i \in 1..(n - 1) : i \in Own(new, p) <=> i + d \in Own(lg, p)
  <2> TAKE i \in 1..(n - 1)
  <2>1. i \in 1..n /\ i + d \in 1..lg.count
    BY <1>1, <1>2
  <2>2. Shown(new)[i] = Shown(lg)[i + d]
    BY <1>1
  <2> QED BY <2>1, <2>2 DEF Own
<1>6. \A i \in Own(new, p) : i \in 1..n /\ (i # n => i \in 1..(n - 1))
  BY <1>2 DEF Own
<1>7. x = p => Cardinality(From(new, p, n)) = 1
  <2>1. x = p => From(new, p, n) = {n}
    BY <1>2, <1>4, <1>6 DEF From
  <2> QED BY <2>1, FS_Singleton
<1>8. ASSUME NEW i \in Own(new, p), i # n
      PROVE  /\ i + d \in Own(lg, p) /\ Shown(new)[i] = Shown(lg)[i + d]
             /\ Cardinality(From(new, p, i))
                  = Cardinality(From(lg, p, i + d)) + IF x = p THEN 1 ELSE 0
  <2>1. i \in 1..(n - 1) /\ i \in Nat /\ i + d \in Nat
    BY <1>2, <1>6, <1>8
  <2>2. i + d \in Own(lg, p) /\ Shown(new)[i] = Shown(lg)[i + d]
    BY <1>1, <1>5, <2>1
  <2> DEFINE s == From(lg, p, i + d)
             t == {j \in Nat : j + d \in s}
  <2>3. s \in SUBSET Nat /\ IsFiniteSet(s) /\ Cardinality(s) \in Nat /\ \A j \in s : j >= d
    <3>1. \A j \in s : j >= i + d
      BY DEF From
    <3>2. s \in SUBSET Nat /\ IsFiniteSet(s) /\ Cardinality(s) \in Nat
      BY <2>1, FromFacts
    <3> HIDE DEF s
    <3> QED BY <1>2, <2>1, <3>1, <3>2
  <2>4. Cardinality(t) = Cardinality(s)
    <3> HIDE DEF s
    <3> QED BY <1>2, <2>3, MovedSet
  <2>5. \A j \in Own(lg, p) : j \in 1..lg.count
    BY DEF Own
  <2>6. \A j \in Nat : j # n => (j \in From(new, p, i) <=> j \in t)
    <3> TAKE j \in Nat
    <3>1. CASE j \in 1..(n - 1)
      <4>1. j \in Own(new, p) <=> j + d \in Own(lg, p)
        BY <1>5, <3>1
      <4>2. j >= i <=> j + d >= i + d
        BY <1>2, <2>1
      <4> QED BY <4>1, <4>2 DEF From
    <3>2. CASE j \notin 1..n
      <4>1. j \notin Own(new, p)
        BY <1>6, <3>2
      <4>2. j + d \notin Own(lg, p) \/ j = 0
        BY <1>1, <1>2, <2>5, <3>2
      <4>3. j = 0 => ~(j + d >= i + d)
        BY <1>2, <2>1
      <4> QED BY <4>1, <4>2, <4>3 DEF From
    <3> QED BY <1>2, <3>1, <3>2
  <2>7. n \notin t
    <3>1. n + d \notin Own(lg, p)
      BY <1>1, <1>2, <2>5
    <3> QED BY <3>1 DEF From
  <2>8. n \in From(new, p, i) <=> x = p
    BY <1>2, <1>4, <2>1 DEF From
  <2>9. From(new, p, i) = IF x = p THEN t \cup {n} ELSE t
    <3>1. From(new, p, i) \subseteq Nat
      BY <1>6 DEF From
    <3>2. t \subseteq Nat
      OBVIOUS
    <3> DEFINE f == From(new, p, i)
    <3>3. /\ f \subseteq Nat /\ (n \in f <=> x = p) /\ n \in Nat
          /\ \A j \in Nat : j # n => (j \in f <=> j \in t)
      BY <1>2, <2>6, <2>8, <3>1
    <3> HIDE DEF t, n, f
    <3>4. CASE x = p
      <4>1. \A j : j \in f <=> j \in t \cup {n}
        BY <2>7, <3>2, <3>3, <3>4
      <4> QED BY <3>4, <4>1 DEF f
    <3>5. CASE x # p
      <4>1. \A j : j \in f <=> j \in t
        BY <2>7, <3>2, <3>3, <3>5
      <4> QED BY <3>5, <4>1 DEF f
    <3> QED BY <3>4, <3>5
  <2>10. IsFiniteSet(t)
    <3>1. \A j \in t : j <= lg.count
      BY <1>2, <2>5 DEF From
    <3>2. t \in SUBSET Nat
      OBVIOUS
    <3> HIDE DEF t
    <3> QED BY <1>2, <3>1, <3>2, FS_BoundedSetOfNaturals
  <2> HIDE DEF t, s, n
  <2>11. Cardinality(t \cup {n}) = Cardinality(t) + 1
    BY <2>7, <2>10, FS_AddElement
  <2>12. Cardinality(From(new, p, i)) = Cardinality(s) + IF x = p THEN 1 ELSE 0
    BY <2>3, <2>4, <2>9, <2>11
  <2> QED BY <2>2, <2>12 DEF s
<1> QED BY <1>3, <1>4, <1>7, <1>8 DEF new, line, d

\* A line of p is the latest of its lines; one of another leaves them alone.
LEMMA LatestGrows ==
  ASSUME NEW lg, ValidLog(lg), NEW x, NEW text, NEW p,
         NEW T, NEW lines \in Seq(T), text \in T, Latest(lg, p, lines)
  PROVE  LET new == Pushed(lg, [from |-> x, text |-> text])
         IN  /\ x = p => Latest(new, p, Append(lines, text))
             /\ x # p => Latest(new, p, lines)
<1> DEFINE new == Pushed(lg, [from |-> x, text |-> text])
           d == Dropped(lg)
           more == Append(lines, text)
<1>1. /\ new.count \in Own(new, p) <=> x = p
      /\ Shown(new)[new.count].text = Upto(text, LogCols - 1)
      /\ x = p => Cardinality(From(new, p, new.count)) = 1
      /\ \A i \in Own(new, p) : i # new.count =>
                  /\ i + d \in Own(lg, p) /\ Shown(new)[i] = Shown(lg)[i + d]
                  /\ Cardinality(From(new, p, i))
                       = Cardinality(From(lg, p, i + d)) + IF x = p THEN 1 ELSE 0
  BY FromPushed
<1>2. \A i \in Own(lg, p) :
         /\ Cardinality(From(lg, p, i)) \in Nat /\ Cardinality(From(lg, p, i)) > 0
         /\ Cardinality(From(lg, p, i)) <= Len(lines)
         /\ Shown(lg)[i].text
              = Upto(lines[Len(lines) + 1 - Cardinality(From(lg, p, i))], LogCols - 1)
  <2> TAKE i \in Own(lg, p)
  <2>1. i \in Nat
    BY DEF Own
  <2>2. Cardinality(From(lg, p, i)) \in Nat /\ Cardinality(From(lg, p, i)) > 0
    BY <2>1, FromFacts
  <2> QED BY <2>2 DEF Latest, From
<1>3. /\ more \in Seq(T) /\ Len(more) = Len(lines) + 1 /\ Len(lines) \in Nat
      /\ more[Len(lines) + 1] = text
      /\ \A k \in 1..Len(lines) : more[k] = lines[k]
  OBVIOUS
<1> HIDE DEF new, more, d
<1>4. ASSUME x = p, NEW i \in Own(new, p)
      PROVE  /\ Cardinality(From(new, p, i)) <= Len(more)
             /\ Shown(new)[i].text
                  = Upto(more[Len(more) + 1 - Cardinality(From(new, p, i))], LogCols - 1)
  <2>1. CASE i = new.count
    <3>1. Cardinality(From(new, p, i)) = 1 /\ Len(more) + 1 - 1 = Len(lines) + 1
      BY <1>1, <1>3, <1>4, <2>1
    <3>2. 1 <= Len(more)
      BY <1>3
    <3> QED BY <1>1, <1>3, <2>1, <3>1, <3>2
  <2>2. CASE i # new.count
    <3> DEFINE r == Cardinality(From(lg, p, i + d))
    <3>1. /\ i + d \in Own(lg, p) /\ Shown(new)[i] = Shown(lg)[i + d]
          /\ Cardinality(From(new, p, i)) = r + 1
      BY <1>1, <1>4, <2>2
    <3>2. /\ r \in Nat /\ r > 0 /\ r <= Len(lines)
          /\ Shown(lg)[i + d].text = Upto(lines[Len(lines) + 1 - r], LogCols - 1)
      BY <1>2, <3>1
    <3> HIDE DEF r
    <3>3. /\ r + 1 <= Len(more) /\ Len(more) + 1 - (r + 1) = Len(lines) + 1 - r
          /\ Len(lines) + 1 - r \in 1..Len(lines)
      BY <1>3, <3>2
    <3>4. more[Len(more) + 1 - (r + 1)] = lines[Len(lines) + 1 - r]
      BY <1>3, <3>3
    <3> QED BY <3>1, <3>2, <3>3, <3>4
  <2> QED BY <2>1, <2>2
<1>5. ASSUME x # p, NEW i \in Own(new, p)
      PROVE  /\ Cardinality(From(new, p, i)) <= Len(lines)
             /\ Shown(new)[i].text
                  = Upto(lines[Len(lines) + 1 - Cardinality(From(new, p, i))], LogCols - 1)
  <2> DEFINE r == Cardinality(From(lg, p, i + d))
  <2>1. /\ i + d \in Own(lg, p) /\ Shown(new)[i] = Shown(lg)[i + d]
        /\ Cardinality(From(new, p, i)) = r + 0
    BY <1>1, <1>5
  <2>2. /\ r \in Nat /\ r <= Len(lines)
        /\ Shown(lg)[i + d].text = Upto(lines[Len(lines) + 1 - r], LogCols - 1)
    BY <1>2, <2>1
  <2> HIDE DEF r
  <2>3. r + 0 = r
    BY <2>2
  <2> QED BY <2>1, <2>2, <2>3
<1>6. x = p => Latest(new, p, more)
  BY <1>4 DEF Latest, From
<1>7. x # p => Latest(new, p, lines)
  BY <1>5 DEF Latest, From
<1> QED BY <1>6, <1>7 DEF new, more

\* A process without a line gets none from another's.
LEMMA NoneGrows ==
  ASSUME NEW lg, ValidLog(lg), NEW x, NEW text, NEW p, x # p, Own(lg, p) = {}
  PROVE  Own(Pushed(lg, [from |-> x, text |-> text]), p) = {}
<1> DEFINE new == Pushed(lg, [from |-> x, text |-> text])
<1>1. /\ new.count \in Own(new, p) <=> x = p
      /\ \A i \in Own(new, p) : i # new.count => i + Dropped(lg) \in Own(lg, p)
  BY FromPushed
<1> HIDE DEF new
<1>2. Own(new, p) = {}
  BY <1>1
<1> QED BY <1>2 DEF new

\* What a log says of p does not depend on what is not there.
LEMMA NoneLatest ==
  ASSUME NEW lg, NEW p, Own(lg, p) = {}, NEW lines
  PROVE  Latest(lg, p, lines)
BY DEF Latest

-----------------------------------------------------------------------------
(* The invariant of the log: a child that was not started has no line, and *)
(* LogInOrder, with what the ring and the slots must be for it             *)

Awaited(c) == Has(todo, <<"spawn", Server, 0>>) \/ Has(todo, <<"spawn", c, 0>>)

Unborn(p) ==
  /\ os[p].state = "none" /\ os[p].taken = 0 /\ os[p].wrote = 0
  /\ slot[p[1]].process # p /\ Own(out, p) = {}

\* The processes of later playtests, and those that this one is to start
ToCome(p) == p[2] > session \/ (p[2] = session /\ Awaited(p[1]))

Content(p) ==
  IF slot[p[1]].process = p /\ slot[p[1]].stdout
  THEN /\ Latest(out, p, LinesIn(os[p].taken))
       /\ slot[p[1]].line = RestOf(os[p].taken)
  ELSE \E n \in 0..Bytes[p] : Latest(out, p, AllLines(n))

Births == \A p \in Processes : ToCome(p) => Unborn(p)
Tails == \A c \in Children : ~slot[c].stdout => slot[c].line = <<>>
Writes == \A p \in Processes : os[p].wrote <= Bytes[p]
Contents == \A p \in Processes : Content(p)

LogInv == ValidLog(out) /\ Births /\ Tails /\ Writes /\ Contents

LEMMA ContentsIsOrder == Contents => LogInOrder
BY DEF Contents, Content, LogInOrder

LEMMA BytesFacts == \A p \in Processes : Bytes[p] \in Nat
BY SupervisorAssumption

LEMMA AllLinesType ==
  ASSUME NEW n \in Nat
  PROVE  /\ \E T : LinesIn(n) \in Seq(T)
         /\ \E T : AllLines(n) \in Seq(T)
         /\ RestOf(n) = <<>> => AllLines(n) = LinesIn(n)
         /\ RestOf(n) # <<>> => AllLines(n) = Append(LinesIn(n), RestOf(n))
<1>1. PICK T : LinesIn(n) \in Seq(T) /\ RestOf(n) \in T
  BY LinesGrow
<1> DEFINE s == LinesIn(n)
           r == RestOf(n)
<1>2. AllLines(n) = s \o (IF r = <<>> THEN <<>> ELSE <<r>>)
  BY DEF AllLines
<1> HIDE DEF s, r
<1>3. s \in Seq(T) /\ r \in T
  BY <1>1 DEF s, r
<1>4. s \o <<>> = s /\ s \o <<r>> = Append(s, r) /\ Append(s, r) \in Seq(T)
  BY <1>3
<1>5. CASE r = <<>>
  BY <1>2, <1>3, <1>4, <1>5 DEF s, r
<1>6. CASE r # <<>>
  BY <1>2, <1>3, <1>4, <1>6 DEF s, r
<1> QED BY <1>5, <1>6

\* A log that may have changed, but not in what it says of p
Kept(old, new, p) ==
  /\ \A T : \A lines \in Seq(T) : Latest(old, p, lines) => Latest(new, p, lines)
  /\ Own(old, p) = {} => Own(new, p) = {}

LEMMA KeptPush ==
  ASSUME NEW lg, ValidLog(lg), NEW x, NEW text, NEW p, x # p
  PROVE  Kept(lg, Pushed(lg, [from |-> x, text |-> text]), p)
<1> DEFINE new == Pushed(lg, [from |-> x, text |-> text])
<1>1. ASSUME NEW T, NEW lines \in Seq(T), Latest(lg, p, lines)
      PROVE  Latest(new, p, lines)
  <2> DEFINE U == T \cup {text}
  <2>1. text \in U /\ T \subseteq U
    OBVIOUS
  <2> HIDE DEF U
  <2>2. lines \in Seq(U)
    BY <2>1
  <2> QED BY <1>1, <2>1, <2>2, LatestGrows
<1>2. Own(lg, p) = {} => Own(new, p) = {}
  BY NoneGrows
<1> HIDE DEF new
<1>3. Kept(lg, new, p)
  BY <1>1, <1>2 DEF Kept
<1> QED BY <1>3 DEF new

LEMMA ContentKept ==
  ASSUME SupInv, NEW p \in Processes, Content(p), Kept(out, out', p),
         slot'[p[1]].process = slot[p[1]].process, slot'[p[1]].stdout = slot[p[1]].stdout,
         slot'[p[1]].line = slot[p[1]].line, os'[p].taken = os[p].taken
  PROVE  Content(p)'
<1>1. os[p].taken \in Nat /\ Bytes[p] \in Nat
  BY Fields, BytesFacts DEF SupInv
<1>2. CASE slot[p[1]].process = p /\ slot[p[1]].stdout
  <2>1. Latest(out, p, LinesIn(os[p].taken)) /\ slot[p[1]].line = RestOf(os[p].taken)
    BY <1>2 DEF Content
  <2>2. Latest(out', p, LinesIn(os[p].taken))
    BY <1>1, <2>1, AllLinesType DEF Kept
  <2>3. /\ Latest(out', p, LinesIn(os'[p].taken))
        /\ slot'[p[1]].line = RestOf(os'[p].taken)
    BY <2>1, <2>2
  <2> QED BY <1>2, <2>3 DEF Content
<1>3. CASE ~(slot[p[1]].process = p /\ slot[p[1]].stdout)
  <2>1. PICK n \in 0..Bytes[p] : Latest(out, p, AllLines(n))
    BY <1>3 DEF Content
  <2>2. Latest(out', p, AllLines(n))
    BY <1>1, <2>1, AllLinesType DEF Kept
  <2> QED BY <1>3, <2>2 DEF Content
<1> QED BY <1>2, <1>3

\* A process whose pipe was already closed
LEMMA ContentClosed ==
  ASSUME NEW p \in Processes, Content(p), Kept(out, out', p),
         ~(slot[p[1]].process = p /\ slot[p[1]].stdout),
         ~(slot'[p[1]].process = p /\ slot'[p[1]].stdout)
  PROVE  Content(p)'
<1>1. PICK n \in 0..Bytes[p] : Latest(out, p, AllLines(n))
  BY DEF Content
<1>2. Latest(out', p, AllLines(n))
  BY <1>1, BytesFacts, AllLinesType DEF Kept
<1> QED BY <1>2 DEF Content

LEMMA KeptSame == \A lg, p : Kept(lg, lg, p)
BY DEF Kept

-----------------------------------------------------------------------------
(* The calls of a frame, as far as they start a child *)

NoSpawn(list) == \A i \in DOMAIN list : list[i][1] # "spawn"

LEMMA ThenKeeps ==
  ASSUME todo \in Seq(Calls), todo # <<>>, NEW calls \in Seq(Calls), NoSpawn(calls),
         Then(calls), NEW c
  PROVE  Awaited(c)' => Awaited(c)
<1>1. todo' = calls \o Tail(todo) /\ Tail(todo) \in Seq(Calls) /\ Len(calls) \in Nat
  BY DEF Then
<1>2. Len(Tail(todo)) = Len(todo) - 1 /\ Len(todo) \in Nat
      /\ \A i \in 1..(Len(todo) - 1) : Tail(todo)[i] = todo[i + 1]
  BY DEF Then
<1> DEFINE rest == Tail(todo)
           all == calls \o rest
<1>3. /\ DOMAIN all = 1..(Len(calls) + Len(rest)) /\ Len(rest) \in Nat
      /\ \A i \in 1..Len(calls) : all[i] = calls[i]
      /\ \A i \in (Len(calls) + 1)..(Len(calls) + Len(rest)) : all[i] = rest[i - Len(calls)]
  BY <1>1
<1> HIDE DEF rest, all
<1>4. ASSUME NEW d, Has(all, <<"spawn", d, 0>>)
      PROVE  Has(todo, <<"spawn", d, 0>>)
  <2>1. PICK i \in 1..(Len(calls) + Len(rest)) : all[i] = <<"spawn", d, 0>>
    BY <1>3, <1>4 DEF Has
  <2>2. i \notin 1..Len(calls)
    <3> SUFFICES ASSUME i \in 1..Len(calls) PROVE FALSE
      OBVIOUS
    <3>1. calls[i] = <<"spawn", d, 0>> /\ i \in DOMAIN calls
      BY <1>3, <2>1
    <3> QED BY <3>1 DEF NoSpawn
  <2>3. i - Len(calls) \in 1..Len(rest) /\ i \in (Len(calls) + 1)..(Len(calls) + Len(rest))
    BY <1>1, <1>3, <2>2
  <2>4. rest[i - Len(calls)] = <<"spawn", d, 0>>
    BY <1>3, <2>1, <2>3
  <2>5. i - Len(calls) \in 1..(Len(todo) - 1)
    BY <1>2, <2>3 DEF rest
  <2>6. /\ todo[(i - Len(calls)) + 1] = <<"spawn", d, 0>>
        /\ (i - Len(calls)) + 1 \in 1..Len(todo)
    BY <1>2, <2>4, <2>5 DEF rest
  <2> DEFINE j == (i - Len(calls)) + 1
  <2>7. j \in DOMAIN todo /\ todo[j] = <<"spawn", d, 0>>
    BY <2>6
  <2> HIDE DEF j
  <2> QED BY <2>7 DEF Has
<1>5. todo' = all
  BY <1>1 DEF all, rest
<1> QED BY <1>4, <1>5 DEF Awaited

\* The lists of calls that the supervisor puts in front
LEMMA ListsFacts ==
  /\ <<>> \in Seq(Calls) /\ NoSpawn(<<>>)
  /\ PollCalls \in Seq(Calls) /\ NoSpawn(PollCalls)
  /\ UndoServer \in Seq(Calls) /\ NoSpawn(UndoServer)
  /\ PollOnly \in Seq(Calls) /\ NoSpawn(PollOnly)
  /\ Stop \in Seq(Calls) /\ NoSpawn(Stop)
  /\ \A c \in Children : /\ ExitCalls(c) \in Seq(Calls) /\ NoSpawn(ExitCalls(c))
                         /\ StopCalls(c) \in Seq(Calls) /\ NoSpawn(StopCalls(c))
                         /\ \A n \in Nat : /\ <<<<"drain", c, n>>>> \in Seq(Calls)
                                           /\ NoSpawn(<<<<"drain", c, n>>>>)
<1>0. <<>> \in Seq(Calls) /\ NoSpawn(<<>>)
  BY DEF NoSpawn
<1>1. PollCalls \in Seq(Calls) /\ NoSpawn(PollCalls)
  BY CallsKnown, ChildFacts DEF PollCalls, NoSpawn
<1>2. UndoServer \in Seq(Calls) /\ NoSpawn(UndoServer)
  BY CallsKnown, ChildFacts DEF UndoServer, NoSpawn
<1>3. PollOnly \in Seq(Calls) /\ NoSpawn(PollOnly)
  BY CallsKnown, ChildFacts DEF PollOnly, NoSpawn
<1>4. Stop \in Seq(Calls) /\ NoSpawn(Stop)
  <2>1. CASE active
    BY <2>1, CallsKnown, ChildFacts DEF Stop, NoSpawn
  <2>2. CASE ~active
    BY <1>0, <2>2 DEF Stop
  <2> QED BY <2>1, <2>2
<1>5. ASSUME NEW c \in Children
      PROVE  /\ ExitCalls(c) \in Seq(Calls) /\ NoSpawn(ExitCalls(c))
             /\ StopCalls(c) \in Seq(Calls) /\ NoSpawn(StopCalls(c))
             /\ \A n \in Nat : /\ <<<<"drain", c, n>>>> \in Seq(Calls)
                               /\ NoSpawn(<<<<"drain", c, n>>>>)
  <2>1. ExitCalls(c) \in Seq(Calls) /\ NoSpawn(ExitCalls(c))
    <3> DEFINE x == <<"drain", c, 0>>
               y == <<"flush", c, 0>>
               z == <<"close", c, "exited">>
    <3>1. x \in Calls /\ y \in Calls /\ z \in Calls
      BY CallsKnown
    <3>2. x[1] # "spawn" /\ y[1] # "spawn" /\ z[1] # "spawn"
      OBVIOUS
    <3>3. ExitCalls(c) = <<x, y, z>>
      BY DEF ExitCalls
    <3> HIDE DEF x, y, z
    <3> QED BY <3>1, <3>2, <3>3 DEF NoSpawn
  <2>2. StopCalls(c) \in Seq(Calls) /\ NoSpawn(StopCalls(c))
    <3> DEFINE x == <<"drain", c, 0>>
               t == <<"terminate", c, 0>>
               y == <<"flush", c, 0>>
               z == <<"close", c, "stopped">>
    <3>1. x \in Calls /\ t \in Calls /\ y \in Calls /\ z \in Calls
      BY CallsKnown
    <3>2. x[1] # "spawn" /\ t[1] # "spawn" /\ y[1] # "spawn" /\ z[1] # "spawn"
      OBVIOUS
    <3>3. StopCalls(c) = <<x, t, y, z>>
      BY DEF StopCalls
    <3> HIDE DEF x, t, y, z
    <3> QED BY <3>1, <3>2, <3>3 DEF NoSpawn
  <2>3. \A n \in Nat : /\ <<<<"drain", c, n>>>> \in Seq(Calls)
                       /\ NoSpawn(<<<<"drain", c, n>>>>)
    BY CallsKnown DEF NoSpawn
  <2> QED BY <2>1, <2>2, <2>3
<1> QED BY <1>0, <1>1, <1>2, <1>3, <1>4, <1>5

\* A frame that begins without a start
LEMMA NoneAwaited ==
  ASSUME NEW list \in Seq(Calls), NoSpawn(list), todo' = list, NEW c
  PROVE  ~Awaited(c)'
<1>1. ASSUME NEW d, Has(list, <<"spawn", d, 0>>)
      PROVE  FALSE
  BY <1>1 DEF Has, NoSpawn
<1> QED BY <1>1 DEF Awaited

-----------------------------------------------------------------------------
(* The steps that leave the log alone *)

LEMMA QuietStep ==
  ASSUME SupInv, LogInv, out' = out,
         \A d \in Children : /\ slot'[d].process = slot[d].process
                             /\ slot'[d].stdout = slot[d].stdout
                             /\ slot'[d].line = slot[d].line,
         \A p \in Processes : /\ os'[p].taken = os[p].taken /\ os'[p].wrote <= Bytes[p]
                              /\ Unborn(p) => os'[p].state = "none" /\ os'[p].wrote = 0,
         \A p \in Processes : ToCome(p)' => ToCome(p)
  PROVE  LogInv'
<1>1. ASSUME NEW p \in Processes, ToCome(p)'
      PROVE  Unborn(p)'
  <2>1. Unborn(p)
    BY <1>1 DEF LogInv, Births
  <2>2. p[1] \in Children
    BY ChildFacts
  <2> QED BY <2>1, <2>2 DEF Unborn
<1>2. ASSUME NEW p \in Processes
      PROVE  Content(p)'
  <2>1. Content(p) /\ p[1] \in Children
    BY ChildFacts DEF LogInv, Contents
  <2>2. Kept(out, out', p)
    BY KeptSame
  <2> QED BY <2>1, <2>2, ContentKept
<1>3. Tails' /\ Writes' /\ ValidLog(out')
  BY DEF LogInv, Tails, Writes
<1> QED BY <1>1, <1>2, <1>3 DEF LogInv, Births, Contents

LEMMA ToComeKept ==
  ASSUME session' = session, \A c : Awaited(c)' => Awaited(c)
  PROVE  \A p \in Processes : ToCome(p)' => ToCome(p)
BY DEF ToCome

LEMMA UnbornKept ==
  ASSUME SupInv, LogInv, NEW p \in Processes, os'[p] = os[p]
  PROVE  /\ os'[p].taken = os[p].taken /\ os'[p].wrote <= Bytes[p]
         /\ Unborn(p) => os'[p].state = "none" /\ os'[p].wrote = 0
BY DEF LogInv, Writes, Unborn

\* Calls that change neither a slot's output nor a process
LEMMA CallStep ==
  ASSUME SupInv, LogInv, NEW calls \in Seq(Calls), NoSpawn(calls), Then(calls),
         todo # <<>>, session' = session, out' = out, os' = os,
         \A d \in Children : /\ slot'[d].process = slot[d].process
                             /\ slot'[d].stdout = slot[d].stdout
                             /\ slot'[d].line = slot[d].line
  PROVE  LogInv'
<1>1. todo \in Seq(Calls)
  BY DEF SupInv, Base, RestType
<1>2. \A c : Awaited(c)' => Awaited(c)
  BY <1>1, ThenKeeps
<1>3. \A p \in Processes : /\ os'[p].taken = os[p].taken /\ os'[p].wrote <= Bytes[p]
                           /\ Unborn(p) => os'[p].state = "none" /\ os'[p].wrote = 0
  BY UnbornKept
<1> QED BY <1>2, <1>3, ToComeKept, QuietStep

\* Assigning to the fields of one child's slot
LEMMA SlotLine ==
  ASSUME Base, NEW c \in Children, NEW text, slot' = [slot EXCEPT ![c].line = text]
  PROVE  /\ slot'[c].line = text
         /\ slot'[c].process = slot[c].process /\ slot'[c].stdout = slot[c].stdout
         /\ \A d \in Children : d # c => slot'[d] = slot[d]
<1>1. PICK lines : slot \in [Children -> [process : Processes \cup {None}, running : BOOLEAN,
                                          stdout : BOOLEAN, line : lines]]
  BY DEF Base, SlotType
<1> QED BY <1>1

LEMMA SlotRunning ==
  ASSUME Base, NEW c \in Children, NEW b, slot' = [slot EXCEPT ![c].running = b]
  PROVE  \A d \in Children : /\ slot'[d].process = slot[d].process
                             /\ slot'[d].stdout = slot[d].stdout
                             /\ slot'[d].line = slot[d].line
<1>1. PICK lines : slot \in [Children -> [process : Processes \cup {None}, running : BOOLEAN,
                                          stdout : BOOLEAN, line : lines]]
  BY DEF Base, SlotType
<1> QED BY <1>1

LEMMA SlotFlushed ==
  ASSUME Base, NEW c \in Children,
         slot' = [slot EXCEPT ![c].line = <<>>, ![c].stdout = FALSE]
  PROVE  /\ slot'[c].line = <<>> /\ slot'[c].stdout = FALSE
         /\ slot'[c].process = slot[c].process
         /\ \A d \in Children : d # c => slot'[d] = slot[d]
<1>1. PICK lines : slot \in [Children -> [process : Processes \cup {None}, running : BOOLEAN,
                                          stdout : BOOLEAN, line : lines]]
  BY DEF Base, SlotType
<1> QED BY <1>1

\* Assigning to a field of one process, if there is one
LEMMA OsFields ==
  ASSUME Base
  PROVE  \A p :
           /\ \A x : LET new == [os EXCEPT ![p].state = x]
                     IN  \A q \in Processes :
                           /\ new[q].taken = os[q].taken /\ new[q].wrote = os[q].wrote
                           /\ new[q].state = IF q = p THEN x ELSE os[q].state
           /\ \A x : LET new == [os EXCEPT ![p].handles = x]
                     IN  \A q \in Processes :
                           /\ new[q].taken = os[q].taken /\ new[q].wrote = os[q].wrote
                           /\ new[q].state = os[q].state
           /\ \A x : LET new == [os EXCEPT ![p].wrote = x]
                     IN  \A q \in Processes :
                           /\ new[q].taken = os[q].taken /\ new[q].state = os[q].state
                           /\ new[q].wrote = IF q = p THEN x ELSE os[q].wrote
           /\ \A x : LET new == [os EXCEPT ![p].taken = x]
                     IN  \A q \in Processes :
                           /\ new[q].wrote = os[q].wrote /\ new[q].state = os[q].state
                           /\ new[q].taken = IF q = p THEN x ELSE os[q].taken
BY DEF Base, OsType

LEMMA SettleLogs ==
  ASSUME SupInv, LogInv, Settle \/ Poll \/ Stopped
  PROVE  LogInv'
<1>1. /\ \E calls \in {<<>>, PollCalls} : Then(calls)
      /\ todo # <<>> /\ UNCHANGED <<slot, os, session, out>>
  BY DEF Settle, Poll, Stopped, Call
<1>2. PICK calls \in {<<>>, PollCalls} : Then(calls)
  BY <1>1
<1>3. calls \in Seq(Calls) /\ NoSpawn(calls)
  BY ListsFacts
<1> QED BY <1>1, <1>2, <1>3, CallStep

LEMMA CheckLogs ==
  ASSUME SupInv, LogInv, NEW c \in Children, Check(c) \/ StopChild(c)
  PROVE  LogInv'
<1>1. /\ \E calls \in {<<>>, ExitCalls(c), StopCalls(c)} : Then(calls)
      /\ todo # <<>> /\ UNCHANGED <<os, session, out>>
      /\ slot' = slot \/ slot' = [slot EXCEPT ![c].running = FALSE]
  BY DEF Check, StopChild, Call
<1>2. PICK calls \in {<<>>, ExitCalls(c), StopCalls(c)} : Then(calls)
  BY <1>1
<1>3. calls \in Seq(Calls) /\ NoSpawn(calls)
  BY ListsFacts
<1>4. \A d \in Children : /\ slot'[d].process = slot[d].process
                          /\ slot'[d].stdout = slot[d].stdout
                          /\ slot'[d].line = slot[d].line
  BY <1>1, SlotRunning DEF SupInv
<1> QED BY <1>1, <1>2, <1>3, <1>4, CallStep

LEMMA TerminateLogs ==
  ASSUME SupInv, LogInv, NEW c \in Children, Terminate(c)
  PROVE  LogInv'
<1>1. /\ Then(<<>>) /\ todo # <<>> /\ UNCHANGED <<slot, session, out>>
      /\ \E x : /\ os' = [os EXCEPT ![slot[c].process].state = x]
                /\ os[slot[c].process].state # "live" => x = os[slot[c].process].state
  BY DEF Terminate, Call
<1>2. \A d : Awaited(d)' => Awaited(d)
  <2>1. todo \in Seq(Calls)
    BY DEF SupInv, Base, RestType
  <2> QED BY <1>1, <2>1, ListsFacts, ThenKeeps
<1>3. PICK x : /\ os' = [os EXCEPT ![slot[c].process].state = x]
               /\ os[slot[c].process].state # "live" => x = os[slot[c].process].state
  BY <1>1
<1>4. \A q \in Processes : /\ os'[q].taken = os[q].taken /\ os'[q].wrote = os[q].wrote
                           /\ os'[q].state = IF q = slot[c].process THEN x ELSE os[q].state
  <2> DEFINE p == slot[c].process
  <2>1. Base /\ os' = [os EXCEPT ![p].state = x]
    BY <1>3 DEF SupInv
  <2> HIDE DEF p
  <2>2. \A q \in Processes : /\ os'[q].taken = os[q].taken /\ os'[q].wrote = os[q].wrote
                             /\ os'[q].state = IF q = p THEN x ELSE os[q].state
    BY <2>1, OsFields, SMTT(30)
  <2> QED BY <2>2 DEF p
<1>5. \A q \in Processes : /\ os'[q].taken = os[q].taken /\ os'[q].wrote <= Bytes[q]
                           /\ Unborn(q) => os'[q].state = "none" /\ os'[q].wrote = 0
  BY <1>3, <1>4 DEF LogInv, Writes, Unborn
<1> QED BY <1>1, <1>2, <1>5, ToComeKept, QuietStep

LEMMA ChildLogs ==
  ASSUME SupInv, LogInv, NEW p \in Processes, Write(p) \/ End(p)
  PROVE  LogInv'
<1>1. /\ UNCHANGED <<slot, session, todo, out>>
      /\ os[p].state \in {"live", "dying"}
      /\ \/ /\ os' = [os EXCEPT ![p].wrote = os[p].wrote + 1]
            /\ os[p].wrote < Bytes[p]
         \/ os' = [os EXCEPT ![p].state = "dead"]
  BY DEF Write, End
<1>2. \A q \in Processes :
         /\ os'[q].taken = os[q].taken /\ os'[q].wrote <= Bytes[q]
         /\ q # p => os'[q].state = os[q].state /\ os'[q].wrote = os[q].wrote
  <2>1. \A q \in Processes : os[q].wrote \in Nat /\ os[q].wrote <= Bytes[q] /\ Bytes[q] \in Nat
    BY Fields, BytesFacts DEF SupInv, LogInv, Writes
  <2>2. CASE /\ os' = [os EXCEPT ![p].wrote = os[p].wrote + 1]
             /\ os[p].wrote < Bytes[p]
    <3>1. \A q \in Processes :
             /\ os'[q].taken = os[q].taken /\ os'[q].state = os[q].state
             /\ os'[q].wrote = IF q = p THEN os[p].wrote + 1 ELSE os[q].wrote
      BY <2>2, OsFields DEF SupInv
    <3>2. os[p].wrote + 1 <= Bytes[p]
      BY <2>1, <2>2
    <3> QED BY <2>1, <3>1, <3>2
  <2>3. CASE os' = [os EXCEPT ![p].state = "dead"]
    <3>1. \A q \in Processes :
             /\ os'[q].taken = os[q].taken /\ os'[q].wrote = os[q].wrote
             /\ os'[q].state = IF q = p THEN "dead" ELSE os[q].state
      BY <2>3, OsFields DEF SupInv
    <3> QED BY <2>1, <3>1
  <2> QED BY <1>1, <2>2, <2>3
<1>3. ~Unborn(p)
  BY <1>1 DEF Unborn
<1>4. \A q \in Processes : Unborn(q) => os'[q].state = "none" /\ os'[q].wrote = 0
  BY <1>2, <1>3 DEF Unborn
<1>5. \A c : Awaited(c)' => Awaited(c)
  BY <1>1 DEF Awaited
<1> QED BY <1>1, <1>2, <1>4, <1>5, ToComeKept, QuietStep

LEMMA FrameLogs ==
  ASSUME SupInv, LogInv, Frame \/ Toggle \/ Leave \/ Left
  PROVE  LogInv'
<1>1. UNCHANGED <<slot, os, out>>
  BY DEF Frame, Toggle, Leave, Left
<1>2. session \in Nat
  BY ChildFacts DEF SupInv, Base, RestType
<1>3. CASE Left
  BY <1>1, <1>3, UnbornKept, ToComeKept, QuietStep DEF Left, Awaited
<1>4. CASE Frame \/ Leave \/ (Toggle /\ active)
  <2>1. /\ session' = session
        /\ todo' \in {PollOnly, Stop, Stop \o PollOnly}
    BY <1>4 DEF Frame, Leave, Toggle
  <2>2. NoSpawn(Stop \o PollOnly) /\ Stop \o PollOnly \in Seq(Calls)
    <3>1. Stop \in Seq(Calls) /\ PollOnly \in Seq(Calls) /\ NoSpawn(Stop) /\ NoSpawn(PollOnly)
      BY ListsFacts
    <3> DEFINE s == Stop
               r == PollOnly
    <3> HIDE DEF s, r
    <3>2. s \in Seq(Calls) /\ r \in Seq(Calls) /\ NoSpawn(s) /\ NoSpawn(r)
      BY <3>1 DEF s, r
    <3>3. NoSpawn(s \o r)
      <4> SUFFICES ASSUME NEW i \in DOMAIN (s \o r) PROVE (s \o r)[i][1] # "spawn"
        BY DEF NoSpawn
      <4>1. i \in 1..(Len(s) + Len(r)) /\ Len(s) \in Nat /\ Len(r) \in Nat
        BY <3>2
      <4>2. CASE i \in 1..Len(s)
        BY <3>2, <4>2 DEF NoSpawn
      <4>3. CASE i \notin 1..Len(s)
        <5>1. i - Len(s) \in 1..Len(r) /\ (s \o r)[i] = r[i - Len(s)]
          BY <3>2, <4>1, <4>3
        <5> QED BY <3>2, <5>1 DEF NoSpawn
      <4> QED BY <4>2, <4>3
    <3> QED BY <3>2, <3>3 DEF s, r
  <2>3. todo' \in Seq(Calls) /\ NoSpawn(todo')
    BY <2>1, <2>2, ListsFacts
  <2> DEFINE list == todo'
  <2>4. \A c : ~Awaited(c)'
    <3>1. list \in Seq(Calls) /\ NoSpawn(list) /\ todo' = list
      BY <2>3
    <3> HIDE DEF list
    <3> QED BY <3>1, NoneAwaited
  <2>5. \A p \in Processes : ToCome(p)' => ToCome(p)
    BY <2>1, <2>4, ToComeKept
  <2> HIDE DEF list
  <2> QED BY <1>1, <2>5, UnbornKept, QuietStep
<1>5. CASE Toggle /\ ~active
  <2>1. session' = session + 1
    BY <1>5 DEF Toggle
  <2>2. ASSUME NEW p \in Processes, ToCome(p)'
        PROVE  ToCome(p)
    <3>1. p[2] \in Nat
      BY ChildFacts DEF Processes
    <3>2. p[2] > session + 1 \/ p[2] = session + 1
      BY <2>1, <2>2 DEF ToCome
    <3> QED BY <1>2, <3>1, <3>2 DEF ToCome
  <2> QED BY <1>1, <2>2, UnbornKept, QuietStep
<1> QED BY <1>3, <1>4, <1>5

-----------------------------------------------------------------------------
(* The steps that log something *)

LEMMA SaidKept ==
  ASSUME LogInv, NEW c \in Children, NEW what, NEW p \in Processes
  PROVE  Kept(out, Said(c, what), p) /\ ValidLog(Said(c, what))
<1>1. c # p
  BY SupervisorAssumption
<1>2. ValidLog(out)
  BY DEF LogInv
<1>3. Kept(out, Said(c, what), p)
  BY <1>1, <1>2, KeptPush DEF Said
<1>4. ValidLog(Said(c, what))
  BY <1>2, ShownPushed DEF Said
<1> QED BY <1>3, <1>4

LEMMA CloseLogs ==
  ASSUME SupInv, LogInv, NEW c \in Children, NEW what, Close(c, what)
  PROVE  LogInv'
<1>1. /\ Then(<<>>) /\ todo # <<>> /\ session' = session
      /\ os' = [os EXCEPT ![slot[c].process].handles = FALSE]
      /\ slot' = [slot EXCEPT ![c].running = FALSE]
      /\ out' = out \/ out' = Said(c, what)
  BY DEF Close, Call
<1>2. \A d \in Children : /\ slot'[d].process = slot[d].process
                          /\ slot'[d].stdout = slot[d].stdout
                          /\ slot'[d].line = slot[d].line
  BY <1>1, SlotRunning DEF SupInv
<1>3. \A q \in Processes : /\ os'[q].taken = os[q].taken /\ os'[q].wrote = os[q].wrote
                           /\ os'[q].state = os[q].state
  <2> DEFINE p == slot[c].process
  <2>1. Base /\ os' = [os EXCEPT ![p].handles = FALSE]
    BY <1>1 DEF SupInv
  <2> HIDE DEF p
  <2> QED BY <2>1, OsFields
<1>4. ValidLog(out') /\ \A p \in Processes : Kept(out, out', p)
  <2>1. ValidLog(out)
    BY DEF LogInv
  <2>2. Processes # {} => ValidLog(Said(c, what))
    BY SaidKept
  <2>3. ValidLog(Said(c, what))
    BY <2>1, ShownPushed DEF Said
  <2> QED BY <1>1, <2>1, <2>3, SaidKept, KeptSame
<1>5. \A p \in Processes : ToCome(p)' => ToCome(p)
  <2>1. todo \in Seq(Calls)
    BY DEF SupInv, Base, RestType
  <2>2. \A d : Awaited(d)' => Awaited(d)
    BY <1>1, <2>1, ListsFacts, ThenKeeps
  <2> QED BY <1>1, <2>2, ToComeKept
<1>6. Births'
  <2> SUFFICES ASSUME NEW p \in Processes, ToCome(p)' PROVE Unborn(p)'
    BY DEF Births
  <2>1. Unborn(p) /\ p[1] \in Children
    BY <1>5, ChildFacts DEF LogInv, Births
  <2>2. Own(out', p) = {}
    BY <1>4, <2>1 DEF Kept, Unborn
  <2> QED BY <1>2, <1>3, <2>1, <2>2 DEF Unborn
<1>7. Contents'
  <2> SUFFICES ASSUME NEW p \in Processes PROVE Content(p)'
    BY DEF Contents
  <2>1. Content(p) /\ p[1] \in Children
    BY ChildFacts DEF LogInv, Contents
  <2> QED BY <1>2, <1>3, <1>4, <2>1, ContentKept
<1>8. Tails' /\ Writes'
  BY <1>2, <1>3 DEF LogInv, Tails, Writes
<1> QED BY <1>4, <1>6, <1>7, <1>8 DEF LogInv

LEMMA FlushLogs ==
  ASSUME SupInv, LogInv, NEW c \in Children, Flush(c)
  PROVE  LogInv'
<1> DEFINE p == slot[c].process
           line == slot[c].line
<1>1. /\ Then(<<>>) /\ todo # <<>> /\ session' = session
      /\ out' = IF line = <<>> THEN out ELSE Pushed(out, [from |-> p, text |-> line])
      /\ slot' = [slot EXCEPT ![c].line = <<>>, ![c].stdout = FALSE]
      /\ os' = [os EXCEPT ![p].wrote = 0, ![p].taken = 0]
  BY DEF Flush, Call, Line
<1>2. /\ slot'[c].line = <<>> /\ slot'[c].stdout = FALSE
      /\ slot'[c].process = p
      /\ \A d \in Children : d # c => slot'[d] = slot[d]
  BY <1>1, SlotFlushed DEF SupInv
<1>3. p \in Mine(c) \cup {None} /\ ValidLog(out)
  BY Fields DEF SupInv, LogInv
<1>4. ~slot[c].stdout => line = <<>>
  BY DEF LogInv, Tails
<1> HIDE DEF p, line
<1>6. \A q \in Processes : /\ q # p => os'[q] = os[q]
                           /\ os'[q].state = os[q].state
                           /\ q = p => os'[q].wrote = 0 /\ os'[q].taken = 0
  BY <1>1 DEF SupInv, Base, OsType
<1>7. ValidLog(out')
  <2>1. ValidLog(Pushed(out, [from |-> p, text |-> line]))
    BY <1>3, ShownPushed
  <2> QED BY <1>1, <1>3, <2>1
<1>8. \A q \in Processes : q # p => Kept(out, out', q)
  BY <1>1, <1>3, KeptPush, KeptSame
<1>9. Births'
  <2> SUFFICES ASSUME NEW q \in Processes, ToCome(q)' PROVE Unborn(q)'
    BY DEF Births
  <2>1. todo \in Seq(Calls)
    BY DEF SupInv, Base, RestType
  <2>2. \A d : Awaited(d)' => Awaited(d)
    BY <1>1, <2>1, ListsFacts, ThenKeeps
  <2>3. Unborn(q) /\ q[1] \in Children
    BY <1>1, <2>2, ToComeKept, ChildFacts DEF LogInv, Births
  <2>4. q # p
    <3>1. slot[q[1]].process # q
      BY <2>3 DEF Unborn
    <3>2. q = p => q[1] = c
      BY <1>3, ChildFacts
    <3> QED BY <3>1, <3>2 DEF p
  <2>5. slot'[q[1]].process # q
    BY <1>2, <2>3, <2>4 DEF Unborn
  <2>6. Own(out', q) = {}
    BY <1>8, <2>3, <2>4 DEF Kept, Unborn
  <2> QED BY <1>6, <2>3, <2>4, <2>5, <2>6 DEF Unborn
<1>10. ASSUME NEW q \in Processes, q # p
       PROVE  Content(q)'
  <2>1. Content(q) /\ Kept(out, out', q) /\ q[1] \in Children
    BY <1>8, <1>10, ChildFacts DEF LogInv, Contents
  <2>2. CASE q[1] = c
    BY <1>2, <1>10, <2>1, <2>2, ContentClosed DEF p
  <2>3. CASE q[1] # c
    BY <1>2, <1>6, <1>10, <2>1, <2>3, ContentKept
  <2> QED BY <2>2, <2>3
<1>11. ASSUME NEW q \in Processes, q = p
       PROVE  Content(q)'
  <2>1. q[1] = c /\ Content(q)
    BY <1>3, <1>11, ChildFacts DEF LogInv, Contents
  <2>2. os[q].taken \in Nat /\ os[q].taken <= Bytes[q]
    <3>1. /\ os[q].taken \in Nat /\ os[q].wrote \in Nat /\ Bytes[q] \in Nat
          /\ os[q].taken <= os[q].wrote /\ os[q].wrote <= Bytes[q]
      BY <1>11, Fields, BytesFacts DEF SupInv, LogInv, Writes
    <3> QED BY <3>1
  <2>3. CASE slot[c].stdout
    <3> DEFINE n == os[q].taken
    <3>1. Latest(out, q, LinesIn(n)) /\ line = RestOf(n)
      BY <1>11, <2>1, <2>3 DEF Content, p, line
    <3>2. n \in 0..Bytes[q] /\ n \in Nat
      BY <1>11, <2>2, BytesFacts
    <3> HIDE DEF n
    <3>3. Latest(out', q, AllLines(n))
      <4>1. CASE line = <<>>
        BY <1>1, <3>1, <3>2, <4>1, AllLinesType
      <4>2. CASE line # <<>>
        <5>1. PICK T : LinesIn(n) \in Seq(T) /\ RestOf(n) \in T
          BY <3>2, LinesGrow
        <5>2. Latest(Pushed(out, [from |-> q, text |-> line]), q, Append(LinesIn(n), line))
          <6> DEFINE lines == LinesIn(n)
          <6>1. lines \in Seq(T) /\ line \in T /\ Latest(out, q, lines)
            BY <3>1, <5>1
          <6> HIDE DEF lines
          <6>2. Latest(Pushed(out, [from |-> q, text |-> line]), q, Append(lines, line))
            BY <1>3, <6>1, LatestGrows
          <6> QED BY <6>2 DEF lines
        <5>3. AllLines(n) = Append(LinesIn(n), line)
          BY <3>1, <3>2, <4>2, AllLinesType
        <5> QED BY <1>1, <1>11, <4>2, <5>2, <5>3
      <4> QED BY <4>1, <4>2
    <3>4. PICK k \in 0..Bytes[q] : Latest(out', q, AllLines(k))
      BY <3>2, <3>3
    <3>5. ~(slot'[q[1]].process = q /\ slot'[q[1]].stdout)
      BY <1>2, <2>1
    <3> QED BY <3>4, <3>5 DEF Content
  <2>4. CASE ~slot[c].stdout
    <3>1. out' = out
      BY <1>1, <1>4, <2>4
    <3>2. Kept(out, out', q)
      BY <3>1, KeptSame
    <3>3. /\ ~(slot'[q[1]].process = q /\ slot'[q[1]].stdout)
          /\ ~(slot[q[1]].process = q /\ slot[q[1]].stdout)
      BY <1>2, <2>1, <2>4
    <3> QED BY <1>11, <2>1, <3>2, <3>3, ContentClosed
  <2> QED BY <2>3, <2>4
<1>12. Contents'
  BY <1>10, <1>11 DEF Contents
<1>13. Tails' /\ Writes'
  <2>1. \A q \in Processes : os[q].wrote <= Bytes[q] /\ Bytes[q] \in Nat
    BY BytesFacts DEF LogInv, Writes
  <2>2. Writes'
    BY <1>6, <2>1 DEF Writes
  <2>3. Tails'
    BY <1>2 DEF LogInv, Tails
  <2> QED BY <2>2, <2>3
<1> QED BY <1>7, <1>9, <1>12, <1>13 DEF LogInv

\* The bytes of one read, one after the other
Reads(c, f, k) ==
  f = [i \in 0..k |-> IF i = 0 THEN [line |-> slot[c].line, out |-> out]
                      ELSE Split(c, f[i - 1], os[slot[c].process].taken + i)]

LEMMA ReadsExist ==
  ASSUME NEW c, NEW k \in Nat
  PROVE  \E f : Reads(c, f, k)
<1> DEFINE S == {n \in Nat : \E f : Reads(c, f, n)}
           b == [line |-> slot[c].line, out |-> out]
           Op(a, i) == Split(c, a, os[slot[c].process].taken + i)
<1>1. 0 \in S
  <2> DEFINE f == [i \in 0..0 |-> b]
  <2>1. \A i \in 0..0 : i = 0
    OBVIOUS
  <2>2. Reads(c, f, 0)
    BY <2>1 DEF Reads
  <2> QED BY <2>2
<1>2. ASSUME NEW n \in Nat, n \in S PROVE n + 1 \in S
  <2>1. PICK f : f = [i \in 0..n |-> IF i = 0 THEN b ELSE Op(f[i - 1], i)]
    BY <1>2 DEF Reads
  <2> DEFINE h == [i \in 0..(n + 1) |-> IF i = n + 1 THEN Op(f[n], n + 1) ELSE f[i]]
  <2> HIDE DEF b, Op
  <2>2. \A i \in 0..n : h[i] = f[i] /\ f[i] = IF i = 0 THEN b ELSE Op(f[i - 1], i)
    <3> TAKE i \in 0..n
    <3>1. i \in 0..(n + 1) /\ i # n + 1
      OBVIOUS
    <3>2. f[i] = IF i = 0 THEN b ELSE Op(f[i - 1], i)
      BY <2>1
    <3> QED BY <3>1, <3>2
  <2>3. \A i \in 0..(n + 1) : h[i] = IF i = 0 THEN b ELSE Op(h[i - 1], i)
    <3> TAKE i \in 0..(n + 1)
    <3>1. CASE i = n + 1
      <4>1. h[i] = Op(f[n], i) /\ i # 0 /\ i - 1 = n /\ n \in 0..n
        BY <3>1
      <4>2. h[i - 1] = f[n]
        BY <2>2, <4>1
      <4> HIDE DEF h
      <4> QED BY <4>1, <4>2
    <3>2. CASE i = 0
      <4>1. i \in 0..n
        BY <3>2
      <4> HIDE DEF h
      <4> QED BY <2>2, <3>2, <4>1
    <3>3. CASE i \in 1..n
      <4>1. i \in 0..n /\ i - 1 \in 0..n /\ i # 0
        BY <3>3
      <4>2. h[i] = Op(f[i - 1], i) /\ h[i - 1] = f[i - 1]
        BY <2>2, <4>1
      <4> HIDE DEF h
      <4> QED BY <4>1, <4>2
    <3>4. i = n + 1 \/ i = 0 \/ i \in 1..n
      OBVIOUS
    <3> HIDE DEF h
    <3> QED BY <3>1, <3>2, <3>3, <3>4
  <2>4. h = [i \in 0..(n + 1) |-> h[i]]
    OBVIOUS
  <2> HIDE DEF h
  <2>5. h = [i \in 0..(n + 1) |-> IF i = 0 THEN b ELSE Op(h[i - 1], i)]
    BY <2>3, <2>4
  <2>6. Reads(c, h, n + 1)
    BY <2>5 DEF Reads, b, Op
  <2> QED BY <2>6
<1>3. Nat \subseteq S
  <2> HIDE DEF S
  <2> QED BY <1>1, <1>2, SetInduction
<1> QED BY <1>3

\* What a read of k bytes leaves in line_buf and in the log
ReadStep(c, p, n, k, f) ==
  /\ Reads(c, f, k)
  /\ slot' = [slot EXCEPT ![c].line = f[k].line]
  /\ out' = f[k].out
  /\ os' = [os EXCEPT ![p].taken = @ + k]
  /\ Then(<<<<"drain", c, n + 1>>>>) /\ session' = session /\ todo # <<>>

LEMMA DrainReads ==
  ASSUME NEW c \in Children, NEW n, Drain(c, n), NEW p, p = slot[c].process,
         NEW k \in Nat, k = IF Unread(p) < Chunk THEN Unread(p) ELSE Chunk,
         slot[c].stdout /\ n < DrainGuard /\ Unread(p) > 0
  PROVE  \E f : ReadStep(c, p, n, k, f)
<1> DEFINE done == CHOOSE f : Reads(c, f, k)
<1>1. Reads(c, done, k)
  <2>1. \E f : Reads(c, f, k)
    BY ReadsExist
  <2> QED BY <2>1
<1>2. /\ slot' = [slot EXCEPT ![c].line = done[k].line]
      /\ out' = done[k].out
      /\ os' = [os EXCEPT ![p].taken = @ + k]
      /\ Then(<<<<"drain", c, n + 1>>>>) /\ session' = session /\ todo # <<>>
  BY DEF Drain, Reads, Call
<1> HIDE DEF done
<1>3. ReadStep(c, p, n, k, done)
  BY <1>1, <1>2 DEF ReadStep
<1> QED BY <1>3

\* After i bytes: the lines that ended are logged, line_buf holds the rest.
ReadSoFar(p, a, i) ==
  /\ ValidLog(a.out)
  /\ Latest(a.out, p, LinesIn(os[p].taken + i))
  /\ a.line = RestOf(os[p].taken + i)
  /\ \A q \in Processes : q # p => Kept(out, a.out, q)

LEMMA SplitReads ==
  ASSUME NEW c \in Children, NEW p \in Processes, p = slot[c].process,
         NEW i \in Nat, os[p].taken \in Nat, NEW a, ReadSoFar(p, a, i),
         a = [line |-> a.line, out |-> a.out]
  PROVE  LET new == Split(c, a, os[p].taken + (i + 1))
         IN  ReadSoFar(p, new, i + 1) /\ new = [line |-> new.line, out |-> new.out]
<1> DEFINE n == os[p].taken + i
           new == Split(c, a, n + 1)
           pushed == Pushed(a.out, [from |-> p, text |-> a.line])
<1>1. n \in Nat /\ os[p].taken + (i + 1) = n + 1
  OBVIOUS
<1>2. /\ ValidLog(a.out) /\ Latest(a.out, p, LinesIn(n)) /\ a.line = RestOf(n)
      /\ \A q \in Processes : q # p => Kept(out, a.out, q)
  BY DEF ReadSoFar
<1>3. new = IF n + 1 \in Newlines THEN [line |-> <<>>, out |-> pushed]
            ELSE IF n + 1 \notin Returns /\ Len(a.line) < LineBuf
            THEN [line |-> Append(a.line, n + 1), out |-> a.out]
            ELSE [line |-> a.line, out |-> a.out]
  <2> HIDE DEF n
  <2>1. [a EXCEPT !.line = Append(@, n + 1)] = [line |-> Append(a.line, n + 1), out |-> a.out]
    OBVIOUS
  <2> QED BY <2>1 DEF Split, Line
<1> HIDE DEF n, new, pushed
<1>4. CASE n + 1 \in Newlines
  <2>1. new.line = <<>> /\ new.out = pushed /\ new = [line |-> new.line, out |-> new.out]
    BY <1>3, <1>4
  <2>2. RestOf(n + 1) = <<>> /\ LinesIn(n + 1) = Append(LinesIn(n), RestOf(n))
    BY <1>1, <1>4, LinesGrow
  <2>3. Latest(pushed, p, Append(LinesIn(n), a.line))
    <3> DEFINE lines == LinesIn(n)
               text == a.line
    <3>1. PICK T : lines \in Seq(T) /\ text \in T
      BY <1>1, <1>2, LinesGrow
    <3>2. Latest(a.out, p, lines)
      BY <1>2
    <3> HIDE DEF lines, text
    <3>3. Latest(Pushed(a.out, [from |-> p, text |-> text]), p, Append(lines, text))
      BY <1>2, <3>1, <3>2, LatestGrows
    <3> QED BY <3>3 DEF lines, text, pushed
  <2>4. ValidLog(pushed)
    BY <1>2, ShownPushed DEF pushed
  <2>5. ASSUME NEW q \in Processes, q # p
        PROVE  Kept(out, pushed, q)
    <3>1. Kept(out, a.out, q)
      BY <1>2, <2>5
    <3>2. Kept(a.out, pushed, q)
      <4> DEFINE text == a.line
                 lg == a.out
      <4>1. ValidLog(lg)
        BY <1>2
      <4> HIDE DEF text, lg
      <4>2. Kept(lg, Pushed(lg, [from |-> p, text |-> text]), q)
        BY <2>5, <4>1, KeptPush
      <4> QED BY <4>2 DEF pushed, text, lg
    <3> QED BY <3>1, <3>2 DEF Kept
  <2>6. ReadSoFar(p, new, i + 1)
    BY <1>1, <1>2, <2>1, <2>2, <2>3, <2>4, <2>5 DEF ReadSoFar
  <2> QED BY <1>1, <2>1, <2>6 DEF new
<1>5. CASE n + 1 \notin Newlines
  <2>1. /\ LinesIn(n + 1) = LinesIn(n)
        /\ RestOf(n + 1) = IF n + 1 \notin Returns /\ Len(RestOf(n)) < LineBuf
                           THEN Append(RestOf(n), n + 1) ELSE RestOf(n)
    BY <1>1, <1>5, LinesGrow
  <2>2. /\ new.out = a.out /\ new.line = RestOf(n + 1)
        /\ new = [line |-> new.line, out |-> new.out]
    BY <1>2, <1>3, <1>5, <2>1
  <2>3. ReadSoFar(p, new, i + 1)
    BY <1>1, <1>2, <2>1, <2>2 DEF ReadSoFar
  <2> QED BY <1>1, <2>2, <2>3 DEF new
<1> QED BY <1>4, <1>5

LEMMA ReadsDone ==
  ASSUME SupInv, LogInv, NEW c \in Children, NEW p \in Processes, p = slot[c].process,
         slot[c].stdout, p[1] = c, NEW k \in Nat, NEW f, Reads(c, f, k)
  PROVE  ReadSoFar(p, f[k], k)
<1> DEFINE Good(i) == ReadSoFar(p, f[i], i) /\ f[i] = [line |-> f[i].line, out |-> f[i].out]
           S == {i \in Nat : i <= k => Good(i)}
<1>0. os[p].taken \in Nat /\ os[p].taken + 0 = os[p].taken
  BY Fields DEF SupInv
<1>1. \A i \in 0..k : f[i] = IF i = 0 THEN [line |-> slot[c].line, out |-> out]
                             ELSE Split(c, f[i - 1], os[p].taken + i)
  BY DEF Reads
<1>2. Good(0)
  <2>1. f[0] = [line |-> slot[c].line, out |-> out]
    BY <1>1
  <2>2. f[0].line = slot[c].line /\ f[0].out = out
    BY <2>1
  <2>3. /\ ValidLog(out) /\ Latest(out, p, LinesIn(os[p].taken))
        /\ slot[c].line = RestOf(os[p].taken)
    BY DEF LogInv, Contents, Content
  <2> QED BY <1>0, <2>1, <2>2, <2>3, KeptSame DEF ReadSoFar
<1>3. ASSUME NEW i \in Nat, i \in S PROVE i + 1 \in S
  <2> SUFFICES ASSUME i + 1 <= k PROVE Good(i + 1)
    <3> HIDE DEF Good
    <3> QED OBVIOUS
  <2>1. Good(i)
    <3> HIDE DEF Good
    <3> QED BY <1>3
  <2>2. f[i + 1] = Split(c, f[i], os[p].taken + (i + 1))
    <3>1. i + 1 \in 0..k /\ i + 1 # 0 /\ (i + 1) - 1 = i
      OBVIOUS
    <3> QED BY <1>1, <3>1
  <2> DEFINE a == f[i]
  <2>3. ReadSoFar(p, a, i) /\ a = [line |-> a.line, out |-> a.out]
    BY <2>1
  <2> HIDE DEF a
  <2> DEFINE new == Split(c, a, os[p].taken + (i + 1))
  <2>4. ReadSoFar(p, new, i + 1) /\ new = [line |-> new.line, out |-> new.out]
    BY <1>0, <2>3, SplitReads
  <2>5. new = f[i + 1]
    BY <2>2 DEF a
  <2> HIDE DEF new
  <2> QED BY <2>4, <2>5
<1>4. Nat \subseteq S
  <2> HIDE DEF Good
  <2>1. 0 \in S
    BY <1>2
  <2> HIDE DEF S
  <2> QED BY <1>3, <2>1, SetInduction
<1>5. Good(k)
  <2> HIDE DEF Good
  <2> QED BY <1>4
<1> QED BY <1>5

LEMMA DrainLogs ==
  ASSUME SupInv, LogInv, NEW c \in Children, NEW n \in 0..DrainGuard, Drain(c, n)
  PROVE  LogInv'
<1>1. Call("drain", c, n) /\ n + 1 \in Nat /\ todo # <<>> /\ todo \in Seq(Calls)
  BY ChildFacts DEF Drain, Call, SupInv, Base, RestType
<1>2. CASE ~(slot[c].stdout /\ n < DrainGuard /\ Unread(slot[c].process) > 0)
  <2>1. Then(<<>>) /\ UNCHANGED <<slot, out, os, session>>
    BY <1>2 DEF Drain
  <2> QED BY <1>1, <2>1, ListsFacts, CallStep
<1>3. CASE slot[c].stdout /\ n < DrainGuard /\ Unread(slot[c].process) > 0
  <2>1. slot[c].process \in Mine(c)
    <3>1. Calm(c) \/ Exiting(c)
      BY <1>1, DrainCall DEF Polling, Calm
    <3> QED BY <1>3, <3>1 DEF Calm, Runs, Gone, Exiting, SupInv, Base, Owned, OwnedBy
  <2>2. PICK p \in Processes : p = slot[c].process /\ p[1] = c
    BY <2>1, ChildFacts
  <2>3. /\ Unread(p) \in Nat /\ os[p].taken \in Nat /\ Chunk \in Nat
        /\ os[p].wrote <= Bytes[p] /\ Bytes[p] \in Nat /\ os[p].wrote \in Nat
    BY Fields, ChildFacts, BytesFacts DEF SupInv, LogInv, Writes
  <2>4. PICK k \in Nat : k = IF Unread(p) < Chunk THEN Unread(p) ELSE Chunk
    BY <2>3
  <2>5. PICK f : /\ Reads(c, f, k)
                 /\ slot' = [slot EXCEPT ![c].line = f[k].line]
                 /\ out' = f[k].out
                 /\ os' = [os EXCEPT ![p].taken = @ + k]
                 /\ Then(<<<<"drain", c, n + 1>>>>) /\ session' = session /\ todo # <<>>
    <3>1. slot[c].stdout /\ n < DrainGuard /\ Unread(p) > 0 /\ p = slot[c].process
      BY <1>3, <2>2
    <3>2. k = IF Unread(p) < Chunk THEN Unread(p) ELSE Chunk
      BY <2>4
    <3>3. \E g : ReadStep(c, p, n, k, g)
      BY <3>1, <3>2, DrainReads
    <3> QED BY <3>3 DEF ReadStep
  <2>6. /\ ValidLog(out') /\ Latest(out', p, LinesIn(os[p].taken + k))
        /\ f[k].line = RestOf(os[p].taken + k)
        /\ \A q \in Processes : q # p => Kept(out, out', q)
    BY <1>3, <2>2, <2>5, ReadsDone DEF ReadSoFar
  <2>7. /\ slot'[c].line = f[k].line
        /\ slot'[c].process = slot[c].process /\ slot'[c].stdout = slot[c].stdout
        /\ \A d \in Children : d # c => slot'[d] = slot[d]
    BY <2>5, SlotLine DEF SupInv
  <2>8. \A q \in Processes :
           /\ os'[q].wrote = os[q].wrote /\ os'[q].state = os[q].state
           /\ os'[q].taken = IF q = p THEN os[p].taken + k ELSE os[q].taken
    <3> DEFINE x == os[p].taken + k
    <3>1. Base /\ os' = [os EXCEPT ![p].taken = x]
      BY <2>5 DEF SupInv
    <3> HIDE DEF x
    <3>2. \A q \in Processes :
             /\ os'[q].wrote = os[q].wrote /\ os'[q].state = os[q].state
             /\ os'[q].taken = IF q = p THEN x ELSE os[q].taken
      BY <3>1, OsFields
    <3> QED BY <3>2 DEF x
  <2>9. ASSUME NEW q \in Processes, ToCome(q)'
        PROVE  Unborn(q)'
    <3>1. \A d : Awaited(d)' => Awaited(d)
      BY <1>1, <2>5, ListsFacts, ThenKeeps
    <3>2. Unborn(q) /\ q[1] \in Children
      BY <2>5, <2>9, <3>1, ToComeKept, ChildFacts DEF LogInv, Births
    <3>3. q # p
      BY <2>2, <3>2 DEF Unborn
    <3>4. Own(out', q) = {}
      BY <2>6, <3>2, <3>3 DEF Kept, Unborn
    <3> QED BY <2>7, <2>8, <3>2, <3>3, <3>4 DEF Unborn
  <2>10. ASSUME NEW q \in Processes
         PROVE  Content(q)'
    <3>1. CASE q = p
      <4>1. /\ slot'[q[1]].process = q /\ slot'[q[1]].stdout
            /\ os'[q].taken = os[p].taken + k
            /\ slot'[q[1]].line = f[k].line
        BY <1>3, <2>2, <2>7, <2>8, <3>1
      <4> QED BY <2>6, <3>1, <4>1 DEF Content
    <3>2. CASE q # p /\ q[1] = c
      <4>1. Content(q) /\ Kept(out, out', q)
        BY <2>6, <3>2 DEF LogInv, Contents
      <4>2. slot[q[1]].process # q /\ slot'[q[1]].process # q
        BY <2>2, <2>7, <3>2
      <4> QED BY <4>1, <4>2, ContentClosed
    <3>3. CASE q # p /\ q[1] # c
      <4>1. Content(q) /\ Kept(out, out', q) /\ q[1] \in Children
        BY <2>6, <3>3, ChildFacts DEF LogInv, Contents
      <4> QED BY <2>7, <2>8, <3>3, <4>1, ContentKept
    <3> QED BY <3>1, <3>2, <3>3
  <2>11. Tails' /\ Writes'
    BY <1>3, <2>7, <2>8 DEF LogInv, Tails, Writes
  <2> QED BY <2>6, <2>9, <2>10, <2>11 DEF LogInv, Births, Contents
<1> QED BY <1>2, <1>3

\* A process that has written nothing has no line.
LEMMA RestOfNone == RestOf(0) = <<>>
<1>1. LastEnd(0) = 0
  BY LastEndBound
<1>2. RestOf(0) = Text(0 + 1, 0)
  BY <1>1 DEF RestOf, LastEnd
<1> QED BY <1>2, NoText

LEMMA SpawnLogs ==
  ASSUME SupInv, LogInv, NEW c \in Children, Spawn(c)
  PROVE  LogInv'
<1>1. /\ Call("spawn", c, 0) /\ session' = session /\ todo # <<>> /\ todo \in Seq(Calls)
      /\ session \in 0..MaxSessions
  BY DEF Spawn, Call, SupInv, Base, RestType
<1>2. /\ session > 0 /\ Tail(todo) = PollList /\ ~slot[c].stdout
      /\ PollList \in Seq(Calls)
  <2>1. /\ Starting /\ session > 0 /\ Tail(todo) = PollList
        /\ IF c = Server THEN Gone(Server) ELSE Runs(Server)
    BY <1>1, SpawnCall
  <2>2. Gone(c)
    BY <2>1, ChildFacts DEF Starting
  <2>3. PollList \in Seq(Calls)
    BY PollLists DEF Starts
  <2> QED BY <2>1, <2>2, <2>3 DEF Gone
<1>3. Has(todo, <<"spawn", c, 0>>)
  <2>1. 1 \in DOMAIN todo /\ todo[1] = <<"spawn", c, 0>>
    BY <1>1 DEF Call
  <2> QED BY <2>1 DEF Has
<1>4. CASE SpawnFailed(c)
  <2>1. /\ Then(<<>>) \/ Then(UndoServer)
        /\ slot' = slot /\ os' = os /\ out' = out
    BY <1>4 DEF SpawnFailed
  <2>2. CASE Then(<<>>)
    BY <1>1, <2>1, <2>2, ListsFacts, CallStep
  <2>3. CASE Then(UndoServer)
    BY <1>1, <2>1, <2>3, ListsFacts, CallStep
  <2> QED BY <2>1, <2>2, <2>3
<1>5. CASE Spawned(c)
  <2>0. <<c, session>> \in Processes
    <3>1. session \in 1..MaxSessions
      BY <1>1, <1>2, ChildFacts
    <3> QED BY <3>1 DEF Processes
  <2>1. PICK p \in Processes : p = <<c, session>>
    BY <2>0
  <2>2. /\ os' = [os EXCEPT ![p] = [@ EXCEPT !.state = "live", !.handles = TRUE]]
        /\ slot' = [slot EXCEPT ![c] = [process |-> p, running |-> TRUE,
                                        stdout |-> TRUE, line |-> <<>>]]
        /\ out' = Said(c, "started")
        /\ Then(IF c = Server THEN << <<"spawn", Client, 0>> >> ELSE <<>>)
    BY <1>5, <2>1 DEF Spawned
  <2>3. p[1] = c /\ p[2] = session /\ ToCome(p)
    BY <1>3, <2>1 DEF ToCome, Awaited
  <2>4. Unborn(p)
    BY <2>3 DEF LogInv, Births
  <2>5. /\ slot'[c].process = p /\ slot'[c].stdout /\ slot'[c].line = <<>>
        /\ \A d \in Children : d # c => slot'[d] = slot[d]
    BY <2>2 DEF SupInv, Base, SlotType
  <2>6. \A q \in Processes : /\ q # p => os'[q] = os[q]
                             /\ os'[q].taken = os[q].taken /\ os'[q].wrote = os[q].wrote
    BY <2>2 DEF SupInv, Base, OsType
  <2>7. ValidLog(out') /\ \A q \in Processes : Kept(out, out', q)
    BY <2>1, <2>2, SaidKept
  <2>8. ASSUME NEW q \in Processes, ToCome(q)'
        PROVE  ToCome(q) /\ q # p
    <3>1. CASE c = Server
      <4> DEFINE x == <<"spawn", Client, 0>>
                 y == <<"poll", None, 0>>
      <4>1. todo' = Cons(x, PollList) /\ x \in Calls /\ y \in Calls
        BY <1>2, <2>2, <3>1, ConsOne, CallsKnown, ChildFacts DEF Then
      <4>2. PollList = <<y>>
        BY DEF PollList, Cons
      <4> HIDE DEF x, y
      <4>3. todo' = <<x, y>>
        BY <4>1, <4>2, ConcatPair DEF Cons
      <4>4. \A z : Has(todo', z) => z = x \/ z = y
        BY <4>3 DEF Has
      <4>5. ~Has(todo', <<"spawn", Server, 0>>)
        BY <4>4, ChildFacts DEF x, y
      <4>6. Awaited(q[1])' => q[1] = Client
        BY <4>4, <4>5 DEF Awaited, x, y
      <4>7. Awaited(q[1])
        BY <1>3, <3>1 DEF Awaited
      <4>8. q[2] > session => q # p
        BY <1>1, <2>3
      <4> QED BY <1>1, <2>3, <2>8, <3>1, <4>6, <4>7, <4>8, ChildFacts DEF ToCome
    <3>2. CASE c # Server
      <4>1. todo' = PollList
        BY <1>2, <2>2, <3>2, ConsOne, CallsKnown DEF Then
      <4>2. PollList = PollOnly
        BY DEF PollList, PollOnly, Cons
      <4>3. ~Awaited(q[1])'
        BY <4>1, <4>2, ListsFacts, NoneAwaited
      <4> QED BY <1>1, <2>3, <2>8, <4>3 DEF ToCome
    <3> QED BY <3>1, <3>2
  <2>9. ASSUME NEW q \in Processes, ToCome(q)'
        PROVE  Unborn(q)'
    <3>1. Unborn(q) /\ q # p /\ q[1] \in Children
      BY <2>8, <2>9, ChildFacts DEF LogInv, Births
    <3>2. Own(out', q) = {}
      BY <2>7, <3>1 DEF Kept, Unborn
    <3> QED BY <2>5, <2>6, <3>1, <3>2 DEF Unborn
  <2>10. ASSUME NEW q \in Processes
         PROVE  Content(q)'
    <3>1. CASE q = p
      <4>1. Own(out', q) = {}
        BY <2>4, <2>7, <3>1 DEF Kept, Unborn
      <4>2. /\ Latest(out', q, LinesIn(os'[q].taken))
            /\ slot'[q[1]].line = RestOf(os'[q].taken)
        BY <2>3, <2>4, <2>5, <2>6, <3>1, <4>1, NoneLatest, RestOfNone DEF Unborn
      <4> QED BY <2>3, <2>5, <3>1, <4>2 DEF Content
    <3>2. CASE q # p /\ q[1] = c
      <4>1. Content(q) /\ Kept(out, out', q)
        BY <2>7 DEF LogInv, Contents
      <4>2. /\ ~(slot[q[1]].process = q /\ slot[q[1]].stdout)
            /\ ~(slot'[q[1]].process = q /\ slot'[q[1]].stdout)
        BY <1>2, <2>5, <3>2
      <4> QED BY <4>1, <4>2, ContentClosed
    <3>3. CASE q # p /\ q[1] # c
      <4>1. Content(q) /\ Kept(out, out', q) /\ q[1] \in Children
        BY <2>7, ChildFacts DEF LogInv, Contents
      <4> QED BY <2>5, <2>6, <3>3, <4>1, ContentKept
    <3> QED BY <3>1, <3>2, <3>3
  <2>11. Tails' /\ Writes'
    BY <2>5, <2>6 DEF LogInv, Tails, Writes
  <2> QED BY <2>7, <2>9, <2>10, <2>11 DEF LogInv, Births, Contents
<1> QED BY <1>4, <1>5 DEF Spawn

-----------------------------------------------------------------------------
(* LogInv is an invariant *)

LEMMA LogInit == Init => LogInv
<1> SUFFICES ASSUME Init PROVE LogInv
  OBVIOUS
<1>1. out.count = 0 /\ out.head = 0 /\ DOMAIN out.slots = 0..(LogLines - 1)
  BY DEF Init, EmptyLog
<1>2. ValidLog(out) /\ \A p : Own(out, p) = {}
  BY <1>1, LineAssumption DEF ValidLog, Own
<1>3. \A p \in Processes : os[p].state = "none" /\ os[p].taken = 0 /\ os[p].wrote = 0
  BY DEF Init, NoProcess
<1>4. \A c \in Children : slot[c].process = None /\ ~slot[c].stdout /\ slot[c].line = <<>>
  BY DEF Init, EmptySlot
<1>5. ASSUME NEW p \in Processes
      PROVE  Unborn(p) /\ Content(p)
  <2>1. p[1] \in Children /\ p # None /\ 0 \in 0..Bytes[p]
    BY ChildFacts, BytesFacts
  <2>2. Latest(out, p, AllLines(0))
    BY <1>2, NoneLatest
  <2> QED BY <1>2, <1>3, <1>4, <2>1, <2>2 DEF Unborn, Content
<1>6. Writes
  BY <1>3, BytesFacts DEF Writes
<1> QED BY <1>2, <1>4, <1>5, <1>6 DEF LogInv, Births, Tails, Contents

LEMMA LogStep == SupInv /\ LogInv /\ [Next]_vars => LogInv'
<1> SUFFICES ASSUME SupInv, LogInv, [Next]_vars PROVE LogInv'
  OBVIOUS
<1>1. CASE UNCHANGED vars
  <2>1. UNCHANGED <<slot, os, session, todo, out>>
    BY <1>1 DEF vars
  <2> QED BY <2>1, UnbornKept, ToComeKept, QuietStep DEF Awaited
<1>2. ASSUME NEW c \in Children,
             \/ Flush(c) \/ Terminate(c) \/ Check(c) \/ StopChild(c) \/ Spawn(c)
             \/ \E n \in 0..DrainGuard : Drain(c, n)
             \/ \E what \in {"exited", "stopped", "failed"} : Close(c, what)
      PROVE  LogInv'
  BY <1>2, FlushLogs, TerminateLogs, CheckLogs, SpawnLogs, DrainLogs, CloseLogs
<1>3. CASE Settle \/ Poll \/ Stopped
  BY <1>3, SettleLogs
<1>4. CASE Frame \/ Toggle \/ Leave \/ Left
  BY <1>4, FrameLogs
<1>5. ASSUME NEW p \in Processes, Write(p) \/ End(p)
      PROVE  LogInv'
  BY <1>5, ChildLogs
<1> QED BY <1>1, <1>2, <1>3, <1>4, <1>5 DEF Next, Supervise

\* However the pipe cuts a child's output, and whenever it is closed: the log
\* shows the latest lines of each child, whole, in their order and none twice,
\* and line_buf holds what was read of the next one (proc_drain,
\* proc_flush_tail, the ring of output_log_push_src), for every output, every
\* size of the pipe, of a read, of line_buf and of the log.
THEOREM LinesInOrder == Spec => []LogInOrder
<1>1. Init => SupInv /\ LogInv
  BY InitHolds, LogInit
<1>2. SupInv /\ LogInv /\ [Next]_vars => SupInv' /\ LogInv'
  BY StepHolds, LogStep
<1>3. SupInv /\ LogInv => LogInOrder
  BY ContentsIsOrder DEF LogInv
<1> QED BY <1>1, <1>2, <1>3, PTL DEF Spec
=============================================================================
