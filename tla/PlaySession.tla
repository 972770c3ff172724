----------------------------- MODULE PlaySession -----------------------------
(***************************************************************************)
(* A playtest session: the headless server and the client with the window  *)
(* (examples/engine_play_server.mettle, examples/engine_play_client.mettle)*)
(* and the newline-delimited packets between them on one TCP connection    *)
(* (engine/engine_play_protocol.mettle).                                   *)
(*                                                                         *)
(* A direction of the connection is a sequence of half lines, so that a    *)
(* recv may end in the middle of a line.  recv takes one half at a time:   *)
(* what a call does with a longer chunk is the same, except for what       *)
(* follows SCENE_END in its chunk, which LoadScene drops.  After the       *)
(* snapshot both sockets are non-blocking and the result of send is not    *)
(* looked at: on a full connection a line is cut or lost.                  *)
(*                                                                         *)
(* Positions stand for everything that an XFORM carries, one action of the *)
(* input map for all sixteen, and its pressed edge for both edges.         *)
(***************************************************************************)
EXTENDS Integers, Sequences, FiniteSets

CONSTANTS
  Ids,         \* the entities of the scene
  Placed,      \*   ... of which the client's own scripts move these
  Room,        \* lines that fit in one direction of the connection
  MaxMoves,    \* how often the scripts of the server move something
  MaxPresses,  \* how often the player presses the key
  MaxCuts      \* how often a full connection takes only half a line

ASSUME PlayAssumption ==
  /\ IsFiniteSet(Ids) /\ Placed \subseteq Ids
  /\ Room \in Nat \ {0} /\ MaxMoves \in Nat /\ MaxPresses \in Nat /\ MaxCuts \in Nat

Absent == -1     \* of an entity that the client does not know
Garbage == -2    \* what a cut line gave for a position
Scripted == -3   \* where a script of the client has put an entity
Pos == 0..MaxMoves

Input == [held : BOOLEAN, pressed : BOOLEAN]
Neutral == [held |-> FALSE, pressed |-> FALSE]

\* The packets, which are one line each
Entity(e, v) == [kind |-> "ENTITY", id |-> e, at |-> v]
Xform(e, v) == [kind |-> "XFORM", id |-> e, at |-> v]
InputOf(i) == [kind |-> "INPUT", input |-> i]
Plain(k) == [kind |-> k]

Lines ==
  {Entity(e, v) : e \in Ids, v \in Pos} \cup {Xform(e, v) : e \in Ids, v \in Pos}
  \cup {InputOf(i) : i \in Input}
  \cup {Plain(k) : k \in {"WELCOME", "SCENE_BEGIN", "SCENE_END", "STOP"}}

Halves == [line : Lines, part : {"head", "tail"}]
Written(l) == <<[line |-> l, part |-> "head"], [line |-> l, part |-> "tail"]>>

\* A line buffer: nothing, the first half of a line, or a first half and then
\* more that does not belong to it.
NoLine == [kind |-> "none"]
Mixed(k) == [kind |-> "mixed", first |-> k]
Unknown == [kind |-> "unknown"]

VARIABLES
  spc, cpc,          \* where the server and the client are
  srun, crun,        \* running
  s2c, c2s,          \* what is on the connection
  s2cEnd, c2sEnd,    \* how it ends: "open", "fin" or "rst"
  sline, cline,      \* input_line and net_line
  pos, cpos,         \* the scene of the server, and of the client
  outbox,            \* lines that the server sends in this snapshot or tick
  sin, cin,          \* the input maps
  presses, seen,     \* pressed edges of the client, and in ticks of the server
  moves, cuts, cutInput

netVars == <<s2c, c2s, s2cEnd, c2sEnd>>
serverVars == <<spc, srun, sline, pos, outbox, sin, seen, moves>>
clientVars == <<cpc, crun, cline, cpos, cin, presses>>
vars == <<spc, cpc, srun, crun, s2c, c2s, s2cEnd, c2sEnd, sline, cline, pos,
          cpos, outbox, sin, cin, presses, seen, moves, cuts, cutInput>>

SomeOrder == CHOOSE s \in [1..Cardinality(Ids) -> Ids] :
               \A i, j \in DOMAIN s : s[i] = s[j] => i = j

Init ==
  /\ spc = "load" /\ cpc = "connect" /\ srun = TRUE /\ crun = TRUE
  /\ s2c = <<>> /\ c2s = <<>> /\ s2cEnd = "open" /\ c2sEnd = "open"
  /\ sline = NoLine /\ cline = NoLine
  /\ pos = [e \in Ids |-> 0] /\ cpos = [e \in Ids |-> Absent]
  /\ outbox = <<>> /\ sin = Neutral /\ cin = Neutral
  /\ presses = 0 /\ seen = 0 /\ moves = 0 /\ cuts = 0 /\ cutInput = FALSE

-----------------------------------------------------------------------------
(* The connection, which is the operating system's *)

HasRoom(ch) == Len(ch) + 2 <= 2 * Room

\* A line that arrives while its receiver drains the connection is as good as
\* one that arrived before: neither side sends while the other drains.

\* send of line l on the non-blocking direction ch, whose peer may be gone
Sends(ch, chNew, l) ==
  \/ HasRoom(ch) /\ chNew = ch \o Written(l) /\ UNCHANGED cuts
  \/ ~HasRoom(ch) /\ chNew = ch /\ UNCHANGED cuts
  \/ /\ ~HasRoom(ch) /\ cuts < MaxCuts /\ cuts' = cuts + 1
     /\ chNew = Append(ch, [line |-> l, part |-> "head"])

\* What a closing socket with or without unread data lets its peer see
Ending(unread) == IF unread = <<>> THEN "fin" ELSE "rst"

ServerCloses ==
  /\ s2cEnd' = Ending(c2s)
  /\ s2c' = IF c2s = <<>> THEN s2c ELSE <<>>

ClientCloses ==
  /\ c2sEnd' = Ending(s2c)
  /\ c2s' = IF s2c = <<>> THEN c2s ELSE <<>>

\* A line buffer after half h, and the line that is then complete
Pending(buf, h) ==
  IF h.part = "tail" THEN NoLine
  ELSE IF buf = NoLine THEN h.line
  ELSE Mixed(IF buf.kind = "mixed" THEN buf.first ELSE buf.kind)

Completed(buf, h) ==
  IF h.part = "head" THEN NoLine
  ELSE IF buf = h.line \/ buf.kind = "mixed" THEN buf
  ELSE IF buf = NoLine THEN Unknown ELSE Mixed(buf.kind)

\* Mutant: 0 is taken for nothing to read.
GoesOnAnyway(end) == TRUE

\* A drain ends with a recv of 0, after which the loop stops, or of -1, which
\* stands for nothing to read and for every error.
GoesOn(end) == end # "fin"

\* Most of what a process that has ended kept in memory is gone; the line of
\* the client, and what the properties compare, stay as they were.
ServerForgets == srun' = FALSE /\ sline' = NoLine /\ outbox' = <<>> /\ sin' = Neutral
ClientForgets == crun' = FALSE /\ cin' = Neutral

-----------------------------------------------------------------------------
(* The server *)

ServerListen ==
  /\ spc = "load" /\ spc' = "listen"
  /\ UNCHANGED <<srun, sline, pos, outbox, sin, seen, moves, clientVars,
                 netVars, cuts, cutInput>>

\* Mutant: the loop over the scene ends one row early.
SnapshotShort ==
  <<Plain("WELCOME"), Plain("SCENE_BEGIN")>>
  \o [i \in 1..(Cardinality(Ids) - 1) |-> Entity(SomeOrder[i], pos[SomeOrder[i]])]
  \o <<Plain("SCENE_END")>>

\* accept, and the lines of the snapshot
Snapshot ==
  <<Plain("WELCOME"), Plain("SCENE_BEGIN")>>
  \o [i \in 1..Cardinality(Ids) |-> Entity(SomeOrder[i], pos[SomeOrder[i]])]
  \o <<Plain("SCENE_END")>>

Accept ==
  /\ spc = "listen" /\ cpc \notin {"connect", "never"}
  /\ spc' = "snapshot" /\ outbox' = Snapshot
  /\ UNCHANGED <<srun, sline, pos, sin, seen, moves, clientVars, netVars,
                 cuts, cutInput>>

\* The snapshot is sent while the socket still blocks.
SendSnapshot ==
  /\ spc = "snapshot" /\ outbox # <<>>
  /\ c2sEnd # "open" \/ HasRoom(s2c)
  /\ s2c' = IF c2sEnd = "open" THEN s2c \o Written(Head(outbox)) ELSE s2c
  /\ outbox' = Tail(outbox)
  /\ UNCHANGED <<spc, srun, sline, pos, sin, seen, moves, clientVars, c2s,
                 s2cEnd, c2sEnd, cuts, cutInput>>

SnapshotSent ==
  /\ spc = "snapshot" /\ outbox = <<>> /\ spc' = "clear"
  /\ UNCHANGED <<srun, sline, pos, outbox, sin, seen, moves, clientVars,
                 netVars, cuts, cutInput>>

\* Mutant: the edges of the last tick stay.
KeepEdges(i) == i

WithoutEdges(i) == [i EXCEPT !.pressed = FALSE]

\* A tick begins with server_clear_input_edges.
ClearEdges ==
  /\ spc = "clear" /\ srun = TRUE
  /\ sin' = WithoutEdges(sin) /\ spc' = "drain"
  /\ UNCHANGED <<srun, sline, pos, outbox, seen, moves, clientVars, netVars,
                 cuts, cutInput>>

\* server_process_client_line: a packet replaces what is known of its action.
ApplyInput(l) ==
  \/ l.kind = "INPUT" /\ sin' = l.input /\ UNCHANGED cutInput
  \/ /\ l.kind = "mixed" /\ l.first = "INPUT"
     /\ sin' \in Input /\ cutInput' = TRUE
  \/ /\ l.kind \notin {"INPUT", "mixed"}
     /\ UNCHANGED <<sin, cutInput>>

\* recv of server_drain_client_input
ServerRecv ==
  /\ spc = "drain" /\ c2s # <<>> /\ c2sEnd # "rst"
  /\ sline' = Pending(sline, Head(c2s))
  /\ ApplyInput(Completed(sline, Head(c2s)))
  /\ c2s' = Tail(c2s)
  /\ UNCHANGED <<spc, srun, pos, outbox, seen, moves, clientVars, s2c, s2cEnd,
                 c2sEnd, cuts>>

ServerDrained ==
  /\ spc = "drain" /\ (c2s = <<>> \/ c2sEnd = "rst")
  /\ srun' = (srun /\ GoesOn(c2sEnd))
  /\ spc' = "tick"
  /\ UNCHANGED <<sline, pos, outbox, sin, seen, moves, clientVars, netVars,
                 cuts, cutInput>>

\* Mutant: only what has moved is sent.
XformsMoved(p) ==
  SelectSeq([i \in 1..Cardinality(Ids) |-> Xform(SomeOrder[i], p[SomeOrder[i]])],
            LAMBDA l : pos[l.id] # p[l.id])

\* Mutant: a position is rounded up where it is scaled to an integer.
XformsRounded(p) ==
  [i \in 1..Cardinality(Ids) |-> Xform(SomeOrder[i], p[SomeOrder[i]] + 1)]

\* The lines of a tick: every entity, moved or not
Xforms(p) == [i \in 1..Cardinality(Ids) |-> Xform(SomeOrder[i], p[SomeOrder[i]])]

\* The scripts run and may move an entity.
Tick ==
  /\ spc = "tick"
  /\ seen' = IF sin.pressed /\ seen <= MaxPresses THEN seen + 1 ELSE seen
  /\ \/ UNCHANGED <<pos, moves>>
     \/ /\ moves < MaxMoves /\ moves' = moves + 1
        /\ \E e \in Ids : pos' = [pos EXCEPT ![e] = moves + 1]
  /\ outbox' = Xforms(pos')
  /\ spc' = "send"
  /\ UNCHANGED <<srun, sline, sin, clientVars, netVars, cuts, cutInput>>

\* server_send_scene_xforms; after a close of the client a send is answered by
\* a reset.
SendXform ==
  /\ spc = "send" /\ outbox # <<>> /\ cpc # "drain"
  /\ \/ c2sEnd = "open" /\ Sends(s2c, s2c', Head(outbox)) /\ UNCHANGED <<c2s, c2sEnd>>
     \/ /\ c2sEnd # "open" /\ UNCHANGED <<s2c, cuts>>
        /\ \/ UNCHANGED <<c2s, c2sEnd>>
           \/ c2sEnd' = "rst" /\ c2s' = <<>>
  /\ outbox' = Tail(outbox)
  /\ UNCHANGED <<spc, srun, sline, pos, sin, seen, moves, clientVars, s2cEnd,
                 cutInput>>

\* Tick 10000 is the last one, whatever the client does.
EndTick ==
  /\ spc = "send" /\ outbox = <<>>
  /\ spc' = "clear" /\ srun' \in {srun, FALSE}
  /\ UNCHANGED <<sline, pos, outbox, sin, seen, moves, clientVars, netVars,
                 cuts, cutInput>>

SendStop ==
  /\ spc = "clear" /\ ~srun /\ spc' = "close"
  /\ \/ c2sEnd = "open" /\ Sends(s2c, s2c', Plain("STOP"))
     \/ c2sEnd # "open" /\ UNCHANGED <<s2c, cuts>>
  /\ UNCHANGED <<srun, sline, pos, outbox, sin, seen, moves, clientVars, c2s,
                 s2cEnd, c2sEnd, cutInput>>

ServerExit ==
  /\ spc = "close" /\ spc' = "exited" /\ ServerCloses
  /\ ServerForgets
  /\ UNCHANGED <<pos, seen, moves, clientVars, c2s, c2sEnd, cuts, cutInput>>

\* The editor's stop terminates the server at any time, or it crashes.
ServerKilled ==
  /\ spc # "exited" /\ spc' = "exited"
  /\ IF cpc \in {"connect", "never"} THEN UNCHANGED <<s2c, s2cEnd>>
     ELSE IF spc = "listen" THEN s2cEnd' = "rst" /\ s2c' = <<>>
     ELSE ServerCloses
  /\ ServerForgets
  /\ UNCHANGED <<pos, seen, moves, clientVars, c2s, c2sEnd, cuts, cutInput>>

-----------------------------------------------------------------------------
(* The client *)

ClientConnect ==
  /\ cpc = "connect" /\ spc = "listen" /\ cpc' = "snapshot"
  /\ UNCHANGED <<crun, cline, cpos, cin, presses, serverVars, netVars, cuts,
                 cutInput>>

\* Nobody listens, not yet or not any more.
ClientRefused ==
  /\ cpc = "connect" /\ spc # "listen" /\ cpc' = "never"
  /\ UNCHANGED <<crun, cline, cpos, cin, presses, serverVars, netVars, cuts,
                 cutInput>>

\* client_process_snapshot_line and client_process_runtime_line
Applied(l) ==
  CASE l.kind = "SCENE_BEGIN" -> [e \in Ids |-> Absent]
    [] l.kind = "ENTITY" -> [cpos EXCEPT ![l.id] = l.at]
    [] l.kind = "XFORM" /\ cpc = "drain" ->
         [cpos EXCEPT ![l.id] = IF @ = Absent THEN @ ELSE l.at]
    [] OTHER -> cpos

\* client_process_snapshot_bytes; it returns at SCENE_END, and its caller does
\* not look at the rest of the chunk, nor at the line buffer.
LoadScene ==
  /\ cpc = "snapshot" /\ s2c # <<>>
  /\ LET l == Completed(cline, Head(s2c))
     IN  /\ cpos' = Applied(l)
         /\ IF l.kind = "SCENE_END"
            THEN /\ cpc' = "frame" /\ cline' = NoLine
                 /\ \E n \in 2..(Len(s2c) + 1) : s2c' = SubSeq(s2c, n, Len(s2c))
            ELSE /\ cline' = Pending(cline, Head(s2c))
                 /\ s2c' = Tail(s2c) /\ UNCHANGED cpc
  /\ UNCHANGED <<crun, cin, presses, serverVars, c2s, s2cEnd, c2sEnd, cuts,
                 cutInput>>

\* recv returns 0.
SnapshotCut ==
  /\ cpc = "snapshot" /\ s2c = <<>> /\ s2cEnd = "fin"
  /\ cpc' = "exited" /\ ClientCloses
  /\ ClientForgets
  /\ UNCHANGED <<cline, cpos, presses, serverVars, s2c, s2cEnd, cuts, cutInput>>

\* recv returns -1, which is not below zero where it is compared (302), and
\* the loop over the bytes goes on past the end of the buffer.
SnapshotReset ==
  /\ cpc = "snapshot" /\ s2cEnd = "rst"
  /\ cpc' = "overrun" /\ ClientCloses
  /\ ClientForgets
  /\ UNCHANGED <<cline, cpos, presses, serverVars, s2c, s2cEnd, cuts, cutInput>>

\* input_map_update with the key down or up, and without focus input_map_clear
Sampled(now) ==
  [held |-> now, pressed |-> now /\ ~cin.held]

\* A frame samples the key and sends the whole input map; it goes on with
\* ClientRecv and ends with ClientDrained.
Frame ==
  /\ cpc = "frame" /\ crun /\ spc # "drain"
  /\ cin' \in {Sampled(TRUE), Sampled(FALSE), Neutral}
  /\ IF cin'.pressed THEN presses < MaxPresses /\ presses' = presses + 1
     ELSE UNCHANGED presses
  /\ \/ s2cEnd = "open" /\ Sends(c2s, c2s', InputOf(cin')) /\ UNCHANGED <<s2c, s2cEnd>>
     \/ /\ s2cEnd # "open" /\ UNCHANGED <<c2s, cuts>>
        /\ \/ UNCHANGED <<s2c, s2cEnd>>
           \/ s2cEnd' = "rst" /\ s2c' = <<>>
  /\ cpc' = "drain"
  /\ UNCHANGED <<crun, cline, cpos, serverVars, c2sEnd, cutInput>>

\* A line that was cut and has run into the next one may name any entity.
ApplyRuntime(l) ==
  IF l.kind = "mixed" /\ l.first = "XFORM"
  THEN \/ UNCHANGED cpos
       \/ \E e \in Ids : cpos' = [cpos EXCEPT ![e] = IF @ = Absent THEN @ ELSE Garbage]
  ELSE cpos' = Applied(l)

ClientRecv ==
  /\ cpc = "drain" /\ s2c # <<>>
  /\ LET l == Completed(cline, Head(s2c))
     IN  ApplyRuntime(l) /\ crun' = (crun /\ l.kind # "STOP")
  /\ cline' = Pending(cline, Head(s2c)) /\ s2c' = Tail(s2c)
  /\ UNCHANGED <<cpc, cin, presses, serverVars, c2s, s2cEnd, c2sEnd, cuts,
                 cutInput>>

\* lua_vm_tick of the client: its scripts may put entities that the client
\* knows somewhere else, and nobody tells the server.
PlacedByScripts(S) ==
  [e \in Ids |-> IF e \in S /\ cpos[e] # Absent THEN Scripted ELSE cpos[e]]

\* The drain is over, and the rest of the frame follows: the scripts run, and
\* the scene is drawn.
ClientDrained ==
  /\ cpc = "drain" /\ s2c = <<>>
  /\ crun' = (crun /\ GoesOn(s2cEnd))
  /\ \E S \in SUBSET Placed : cpos' = PlacedByScripts(S)
  /\ cpc' = "frame"
  /\ UNCHANGED <<cline, cin, presses, serverVars, netVars, cuts, cutInput>>

ClientExit ==
  /\ cpc = "frame" /\ ~crun /\ cpc' = "exited" /\ ClientCloses
  /\ ClientForgets
  /\ UNCHANGED <<cline, cpos, presses, serverVars, s2c, s2cEnd, cuts, cutInput>>

\* The player closes the window, the editor terminates the client, or it crashes.
ClientKilled ==
  /\ cpc \notin {"exited", "never", "overrun"}
  /\ IF cpc = "connect" THEN cpc' = "never" /\ UNCHANGED <<c2s, c2sEnd>>
     ELSE cpc' = "exited" /\ ClientCloses
  /\ ClientForgets
  /\ UNCHANGED <<cline, cpos, presses, serverVars, s2c, s2cEnd, cuts, cutInput>>

-----------------------------------------------------------------------------
ServerStep ==
  \/ ServerListen \/ Accept \/ SendSnapshot \/ SnapshotSent \/ ClearEdges
  \/ ServerRecv \/ ServerDrained \/ Tick \/ SendXform \/ EndTick \/ SendStop
  \/ ServerExit

ClientStep ==
  \/ ClientConnect \/ ClientRefused \/ LoadScene \/ SnapshotCut \/ SnapshotReset
  \/ Frame \/ ClientRecv \/ ClientDrained \/ ClientExit

Next == ServerStep \/ ClientStep \/ ServerKilled \/ ClientKilled

Spec == Init /\ [][Next]_vars

\* Both processes run, each in a loop that sleeps for some milliseconds and
\* between whose sleeps the other one gets to run.
FairSpec == Spec /\ SF_vars(ServerStep) /\ SF_vars(ClientStep)

-----------------------------------------------------------------------------
(* Properties *)

\* Type invariant of the two processes and the connection between them.
TypeOK ==
  /\ spc \in {"load", "listen", "snapshot", "clear", "drain", "tick", "send",
              "close", "exited"}
  /\ cpc \in {"connect", "never", "snapshot", "frame", "drain", "exited", "overrun"}
  /\ srun \in BOOLEAN /\ crun \in BOOLEAN
  /\ s2c \in Seq(Halves) /\ c2s \in Seq(Halves)
  /\ Len(s2c) <= 2 * Room + MaxCuts /\ Len(c2s) <= 2 * Room + MaxCuts
  /\ {s2cEnd, c2sEnd} \subseteq {"open", "fin", "rst"}
  /\ pos \in [Ids -> Pos] /\ cpos \in [Ids -> Pos \cup {Absent, Garbage, Scripted}]
  /\ outbox \in Seq(Lines) /\ sin \in Input /\ cin \in Input
  /\ presses \in 0..MaxPresses /\ moves \in 0..MaxMoves /\ cuts \in 0..MaxCuts
  /\ seen \in Nat /\ cutInput \in BOOLEAN

\* When the client leaves the snapshot it has every entity of the scene,
\* wherever its recv calls cut the lines and whatever of the first tick came in
\* the chunk of SCENE_END.
SceneIsWhole ==
  cpc \in {"frame", "drain"} => \A e \in Ids : cpos[e] # Absent

\* Unless an INPUT line was cut, the scripts of the server see a press of the
\* key in no more ticks than the player pressed it.
PressSeenOnce == cutInput \/ seen <= presses

\* Unless a line was cut, an entity is shown where the server has had it, never
\* ahead of the server, or where a script of the client has put it.
NothingInvented ==
  cuts = 0 => \A e \in Ids : cpos[e] \in 0..pos[e] \cup {Absent, Scripted}

BothRun == spc # "exited" /\ cpc \in {"frame", "drain"}

\* The scripts of the client put no entity anywhere.
ScriptsRest == \A e \in Ids : cpos'[e] = Scripted => cpos[e] = Scripted

\* While both run and once the scripts of the server move nothing any more,
\* the client's scene settles on the server's, but for the entities that
\* scripts of the client go on placing, and for all of them if these rest too;
\* and what the server takes for the state of the key settles on what the
\* client has sampled.  So it is whatever was cut, lost, dropped or placed
\* before; the lines of a whole tick have to fit in the connection,
\* Room >= Cardinality(Ids).
SessionSettles ==
  /\ <>[](BothRun => /\ \A e \in Ids : cpos[e] \in {pos[e], Scripted}
                      /\ sin.held = cin.held)
  /\ <>[][ScriptsRest]_vars => <>[](BothRun => cpos = pos)

\* An end of one side that the other one can see as such, a recv of 0, ends
\* the other side too.
CleanEndEndsBoth ==
  /\ (c2sEnd = "fin") ~> (spc = "exited" \/ c2sEnd = "rst")
  /\ (s2cEnd = "fin") ~> (cpc \in {"exited", "never", "overrun"} \/ s2cEnd = "rst")

=============================================================================
