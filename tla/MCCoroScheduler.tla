-------------------------- MODULE MCCoroScheduler --------------------------
(* Instances of CoroScheduler for TLC. *)
EXTENDS CoroScheduler, TLC

CONSTANTS c1, c2, r1

ASSUME RunnerIsSingle == SingleRunner

Op(o, c) == [op |-> o, coro |-> c]
Down == [op |-> "down"]
Up == [op |-> "up"]

\* One runner with both coroutines at once, or one after the other with a
\* restart of the reactor between them, or without a reactor
OneRunner ==
  {r1 :> <<Op("create", c1), Op("create", c2), Op("wait", c2), Op("wait", c1), Down>>,
   r1 :> <<Op("create", c1), Op("wait", c1), Down, Up, Op("create", c2), Op("wait", c2)>>,
   r1 :> <<Op("create", c1), Down, Op("wait", c1)>>}

=============================================================================
