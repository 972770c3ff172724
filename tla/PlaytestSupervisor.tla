------------------------- MODULE PlaytestSupervisor -------------------------
(***************************************************************************)
(* The editor's playtest supervisor, src/engine/engine_process_win32.mettle*)
(* and the frame loop of src/examples/engine_editor.mettle that drives it: *)
(* F5 starts the server and the client with their output in a pipe each,   *)
(* or stops both; every frame drains the pipes into the output log and     *)
(* looks for children that have ended; leaving the editor stops both.      *)
(*                                                                         *)
(* The children run beside the editor, so every call of the editor that    *)
(* reads a pipe, looks at a process or ends one is a step of its own: todo *)
(* holds the calls that the frame has still to make.                       *)
(***************************************************************************)
EXTENDS OutputLog, FiniteSets

CONSTANTS
    Server, Client,
    None,
    Bytes,          \* bound: how many bytes each process writes at most
    Newlines,       \* which bytes of a child's output are '\n'
    Returns,        \*   ... and which are '\r'
    PipeSize,       \* CreatePipe's size, 65536
    Chunk,          \* what one ReadFile asks for, 1023
    DrainGuard,     \* reads of one proc_drain, 64
    LineBuf,        \* characters that line_buf takes, 510
    MaxSessions     \* bound: playtests in one run of the editor

Children == {Server, Client}
Processes == Children \X (1..MaxSessions)

ASSUME SupervisorAssumption ==
    /\ Server # Client
    /\ Bytes \in [Processes -> Nat]
    /\ Newlines \subseteq Nat /\ Returns \subseteq Nat
    /\ {PipeSize, Chunk, DrainGuard, LineBuf, MaxSessions} \subseteq Nat \ {0}
    /\ Chunk * DrainGuard <= PipeSize   \* 65472 of 65536
    /\ None \notin Processes /\ Children \cap Processes = {}

VARIABLES
    slot,       \* sv->server, sv->client: the Win32Process structs
    active,     \* sv->active
    os,         \* per process: its state, its open handles and its pipe
    session,    \* playtests started so far
    todo,       \* the calls left of this frame
    editor,     \* "open", then "leaving", then "left"
    out         \* the output log

vars == <<slot, active, os, session, todo, editor, out>>

NoProcess == [state |-> "none", handles |-> FALSE, wrote |-> 0, taken |-> 0]
EmptySlot == [process |-> None, running |-> FALSE, stdout |-> FALSE, line |-> <<>>]

Init ==
    /\ slot = [c \in Children |-> EmptySlot]
    /\ active = FALSE
    /\ os = [p \in Processes |-> NoProcess]
    /\ session = 0
    /\ todo = <<>>
    /\ editor = "open"
    /\ out = EmptyLog

-----------------------------------------------------------------------------
(***************************************************************************)
(* The children and Windows.                                               *)
(***************************************************************************)
Unread(p) == os[p].wrote - os[p].taken

\* A child writes a byte; while its pipe is full the write waits.
Write(p) ==
    /\ os[p].state = "live"
    /\ os[p].wrote < Bytes[p] /\ Unread(p) < PipeSize
    /\ os' = [os EXCEPT ![p].wrote = @ + 1]
    /\ UNCHANGED <<slot, active, session, todo, editor, out>>

\* A child ends by itself at any moment; one that was terminated ends soon.
End(p) ==
    /\ os[p].state \in {"live", "dying"}
    /\ os' = [os EXCEPT ![p].state = "dead"]
    /\ UNCHANGED <<slot, active, session, todo, editor, out>>

-----------------------------------------------------------------------------
(***************************************************************************)
(* The supervisor.                                                         *)
(***************************************************************************)
\* Call(f, c, x): the frame's next call is f on c's slot
Call(f, c, x) == todo # <<>> /\ Head(todo) = <<f, c, x>>
Then(calls) == todo' = calls \o Tail(todo)

Said(c, what) == Pushed(out, [from |-> c, text |-> <<what>>])
Line(c, text) == [from |-> slot[c].process, text |-> text]

\* Mutant: a chunk's first byte begins a line.
SplitChunk(c, acc, byte) ==
    IF byte \in Newlines
    THEN [line |-> <<>>, out |-> Pushed(acc.out, Line(c, acc.line))]
    ELSE [acc EXCEPT !.line = IF byte = os[slot[c].process].taken + 1
                              THEN <<byte>> ELSE Append(@, byte)]

\* One byte of a chunk: a newline ends the line and logs it, a carriage
\* return is dropped, and so is what does not fit in line_buf.
Split(c, acc, byte) ==
    IF byte \in Newlines
    THEN [line |-> <<>>, out |-> Pushed(acc.out, Line(c, acc.line))]
    ELSE IF byte \notin Returns /\ Len(acc.line) < LineBuf
    THEN [acc EXCEPT !.line = Append(@, byte)]
    ELSE acc

\* The n-th read of proc_drain, or its return
Drain(c, n) ==
    /\ Call("drain", c, n)
    /\ LET p == slot[c].process
           k == IF Unread(p) < Chunk THEN Unread(p) ELSE Chunk
           done[i \in 0..k] ==     \* after i bytes of the chunk
               IF i = 0 THEN [line |-> slot[c].line, out |-> out]
               ELSE Split(c, done[i - 1], os[p].taken + i)
       IN  IF slot[c].stdout /\ n < DrainGuard /\ Unread(p) > 0
           THEN /\ slot' = [slot EXCEPT ![c].line = done[k].line]
                /\ out' = done[k].out
                /\ os' = [os EXCEPT ![p].taken = @ + k]
                /\ Then(<<<<"drain", c, n + 1>>>>)
           ELSE Then(<<>>) /\ UNCHANGED <<slot, out, os>>
    /\ UNCHANGED <<active, session, editor>>

\* proc_flush_tail: log the unfinished line and close the pipe
Flush(c) ==
    /\ Call("flush", c, 0)
    /\ out' = IF slot[c].line = <<>> THEN out
              ELSE Pushed(out, Line(c, slot[c].line))
    /\ slot' = [slot EXCEPT ![c].line = <<>>, ![c].stdout = FALSE]
    /\ os' = [os EXCEPT ![slot[c].process].wrote = 0,
                        ![slot[c].process].taken = 0]
    /\ Then(<<>>)
    /\ UNCHANGED <<active, session, editor>>

\* CloseHandle of the process and the thread, and what the log says of it
Close(c, what) ==
    /\ Call("close", c, what)
    /\ os' = [os EXCEPT ![slot[c].process].handles = FALSE]
    /\ slot' = [slot EXCEPT ![c].running = FALSE]
    /\ out' = IF what = "failed" THEN out ELSE Said(c, what)
    /\ Then(<<>>)
    /\ UNCHANGED <<active, session, editor>>

\* TerminateProcess returns before the process has ended.
Terminate(c) ==
    /\ Call("terminate", c, 0)
    /\ os' = [os EXCEPT ![slot[c].process].state = IF @ = "live" THEN "dying" ELSE @]
    /\ Then(<<>>)
    /\ UNCHANGED <<slot, active, session, editor, out>>

ExitCallsNoDrain(c) == << <<"flush", c, 0>>, <<"close", c, "exited">> >>  \* mutant
ExitCalls(c) == << <<"drain", c, 0>>, <<"flush", c, 0>>, <<"close", c, "exited">> >>

\* The part of playtest_poll that looks for the end of one child
Check(c) ==
    /\ Call("check", c, 0)
    /\ IF slot[c].running /\ os[slot[c].process].state = "dead"
       THEN slot' = [slot EXCEPT ![c].running = FALSE] /\ Then(ExitCalls(c))
       ELSE UNCHANGED slot /\ Then(<<>>)
    /\ UNCHANGED <<active, os, session, editor, out>>

\* The end of playtest_poll
Settled == slot[Server].running \/ slot[Client].running

Settle ==
    /\ Call("settle", None, 0)
    /\ active' = (active /\ Settled)
    /\ Then(<<>>)
    /\ UNCHANGED <<slot, os, session, editor, out>>

\* Mutant: the server's pipe is read only when the server has ended.
PollCallsClientOnly == << <<"drain", Client, 0>>,
                <<"check", Server, 0>>, <<"check", Client, 0>>,
                <<"settle", None, 0>> >>

PollCalls == << <<"drain", Server, 0>>, <<"drain", Client, 0>>,
                <<"check", Server, 0>>, <<"check", Client, 0>>,
                <<"settle", None, 0>> >>

Poll ==
    /\ Call("poll", None, 0)
    /\ Then(IF active THEN PollCalls ELSE <<>>)
    /\ UNCHANGED <<slot, active, os, session, editor, out>>

StopCalls(c) ==
    << <<"drain", c, 0>>, <<"terminate", c, 0>>, <<"flush", c, 0>>,
       <<"close", c, "stopped">> >>

\* playtest_stop on one child, then the end of playtest_stop
StopChild(c) ==
    /\ Call("stop", c, 0)
    /\ Then(IF slot[c].running THEN StopCalls(c) ELSE <<>>)
    /\ UNCHANGED <<slot, active, os, session, editor, out>>

Stopped ==
    /\ Call("stopped", None, 0)
    /\ active' = FALSE
    /\ Then(<<>>)
    /\ UNCHANGED <<slot, os, session, editor, out>>

Stop == IF active
        THEN << <<"stop", Server, 0>>, <<"stop", Client, 0>>, <<"stopped", None, 0>> >>
        ELSE <<>>

\* proc_spawn_captured and what playtest_start does when it succeeds
Spawned(c) ==
    LET p == <<c, session>>
    IN  /\ os' = [os EXCEPT ![p] = [@ EXCEPT !.state = "live", !.handles = TRUE]]
        /\ slot' = [slot EXCEPT ![c] = [process |-> p, running |-> TRUE,
                                        stdout |-> TRUE, line |-> <<>>]]
        /\ out' = Said(c, "started")
        /\ active' = (active \/ c = Client)
        /\ Then(IF c = Server THEN << <<"spawn", Client, 0>> >> ELSE <<>>)

\* No pipe or no process: a server that already runs is ended.
UndoServerKeeps == << <<"close", Server, "failed">>, <<"flush", Server, 0>> >> \* mutant
UndoServer == << <<"terminate", Server, 0>>, <<"close", Server, "failed">>,
                 <<"flush", Server, 0>> >>

SpawnFailed(c) ==
    /\ Then(IF c = Client THEN UndoServer ELSE <<>>)
    /\ UNCHANGED <<slot, active, os, out>>

Spawn(c) ==
    /\ Call("spawn", c, 0)
    /\ Spawned(c) \/ SpawnFailed(c)
    /\ UNCHANGED <<session, editor>>

-----------------------------------------------------------------------------
(***************************************************************************)
(* The frame loop of the editor.                                           *)
(***************************************************************************)
PollOnly == << <<"poll", None, 0>> >>

\* A frame without F5
Frame ==
    /\ editor = "open" /\ todo = <<>>
    /\ todo' = PollOnly
    /\ UNCHANGED <<slot, active, os, session, editor, out>>

\* A frame with F5: stop, or write the snapshot and start
Toggle ==
    /\ editor = "open" /\ todo = <<>>
    /\ IF active THEN todo' = Stop \o PollOnly /\ UNCHANGED session
       ELSE /\ session < MaxSessions
            /\ session' = session + 1
            /\ todo' = << <<"spawn", Server, 0>> >> \o PollOnly
    /\ UNCHANGED <<slot, active, os, editor, out>>

\* The window closes: the loop ends and playtest_supervisor_destroy runs.
Leave ==
    /\ editor = "open" /\ todo = <<>>
    /\ editor' = "leaving"
    /\ todo' = Stop
    /\ UNCHANGED <<slot, active, os, session, out>>

Left ==
    /\ editor = "leaving" /\ todo = <<>>
    /\ editor' = "left"
    /\ UNCHANGED <<slot, active, os, session, todo, out>>

Supervise ==
    \/ \E c \in Children :
          \/ Flush(c) \/ Terminate(c) \/ Check(c) \/ StopChild(c) \/ Spawn(c)
          \/ \E n \in 0..DrainGuard : Drain(c, n)
          \/ \E what \in {"exited", "stopped", "failed"} : Close(c, what)
    \/ Settle \/ Poll \/ Stopped \/ Left

Next ==
    \/ Supervise \/ Frame \/ Toggle \/ Leave
    \/ \E p \in Processes : Write(p) \/ End(p)

Spec == Init /\ [][Next]_vars

\* The loop of the editor runs until its window closes, and a terminated
\* process ends.  A child need neither write nor end.
FairSpec ==
    /\ Spec
    /\ WF_vars(Supervise \/ Frame)
    /\ \A p \in Processes : WF_vars(os[p].state = "dying" /\ End(p))

-----------------------------------------------------------------------------
(***************************************************************************)
(* Properties.                                                             *)
(***************************************************************************)
\* The k-th of a set of places
Nth(places, k) == CHOOSE i \in places : Cardinality({j \in places : j <= i}) = k

\* What the first n bytes of a child's output are as lines: the complete
\* ones, and the characters of the one that has no newline yet
Ends(n) == Newlines \cap 1..n
EndOf(n, k) == IF k = 0 THEN 0 ELSE Nth(Ends(n), k)
Text(first, last) ==
    LET chars == (first..last) \ Returns
    IN  Upto([k \in 1..Cardinality(chars) |-> Nth(chars, k)], LineBuf)
LinesIn(n) ==
    [k \in 1..Cardinality(Ends(n)) |-> Text(EndOf(n, k - 1) + 1, EndOf(n, k) - 1)]
RestOf(n) == Text(EndOf(n, Cardinality(Ends(n))) + 1, n)
AllLines(n) == LinesIn(n) \o (IF RestOf(n) = <<>> THEN <<>> ELSE <<RestOf(n)>>)

\* The lines that a log shows of p are the latest of these, cut to its columns:
\* the last, the last but one, and so on.
Own(lg, p) == {i \in 1..lg.count : Shown(lg)[i].from = p}
Latest(lg, p, lines) ==
    \A i \in Own(lg, p) :
       LET nth == Cardinality({j \in Own(lg, p) : j >= i})
       IN  /\ nth <= Len(lines)
           /\ Shown(lg)[i].text = Upto(lines[Len(lines) + 1 - nth], LogCols - 1)

\* However the pipe cuts a child's output, the log shows its latest lines,
\* whole, in their order and none twice, and line_buf holds the rest of what
\* was read; when the pipe has been closed the rest is a line as well
\* (proc_drain, proc_flush_tail, the ring of output_log_push_src).
LogInOrder ==
    \A p \in Processes :
       LET c == p[1] IN
       IF slot[c].process = p /\ slot[c].stdout
       THEN /\ Latest(out, p, LinesIn(os[p].taken))
            /\ slot[c].line = RestOf(os[p].taken)
       ELSE \E n \in 0..Bytes[p] : Latest(out, p, AllLines(n))

\* "Drain stdout before checking exit so output emitted right before the
\* process ended isn't lost": when playtest_poll closes the pipe of a child
\* that has ended, at most what a full pipe holds beyond one proc_drain is
\* still unread, 65536 - 64 * 1023 = 64 bytes, whatever the child wrote
\* between the drains and the look at its process.
ExitLosesLittle ==
    \A c \in Children :
       Len(todo) > 1 /\ todo[1] = <<"flush", c, 0>> /\ todo[2] = <<"close", c, "exited">>
       => Unread(slot[c].process) <= PipeSize - Chunk * DrainGuard

\* No child is left alone: whatever is alive is in its slot, running and with
\* its handles, so that the next stop reaches it; handles are closed once;
\* without a playtest there is neither a child nor a pipe; and the editor
\* leaves none behind (playtest_start, playtest_poll, playtest_stop).
Supervised ==
    /\ \A p \in Processes :
          LET c == p[1] IN
          /\ os[p].state = "live" => slot[c].process = p /\ slot[c].running
          /\ os[p].handles => /\ slot[c].process = p
                              /\ \/ slot[c].running
                                 \/ \E i \in DOMAIN todo : todo[i] = <<"close", c, "exited">>
    /\ \A c \in Children, what \in {"exited", "stopped", "failed"} :
          Call("close", c, what) => os[slot[c].process].handles
    /\ ~active /\ todo = <<>> =>
          \A c \in Children : ~slot[c].running /\ ~slot[c].stdout
    /\ editor = "left" => \A p \in Processes : os[p].state # "live"

\* A child whose pipe is full can write again, and a child that has ended is
\* noticed, its playtest is over once both have: no frame waits for a child
\* and no child for ever for a frame (the frame loop, proc_drain's bounded
\* reads behind PeekNamedPipe).
ChildrenServed ==
    /\ \A p \in Processes :
          (os[p].state = "live" /\ Unread(p) = PipeSize)
             ~> (os[p].state # "live" \/ Unread(p) < PipeSize)
    /\ \A c \in Children :
          (slot[c].running /\ os[slot[c].process].state = "dead") ~> ~slot[c].running
    /\ (~slot[Server].running /\ ~slot[Client].running) ~> (~active \/ editor = "left")
=============================================================================
