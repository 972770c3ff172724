# TLA+ models of the Mettle game engine

This directory keeps machine-checked models beside the code of the repository:
TLA+ modules translated from the source, TLC configurations that check them on
small instances, and proofs that TLAPS checks for every value of the constants.
`PROJECT.json` lists the components, runs, theorems, hazards and findings, and
maps every definition to the lines it stands for.

    tlc -workers 2 -config exec_safety.cfg MCAsyncExecutor   # one run
    tlapm AsyncExecutorProofs.tla                            # proofs
    tlapm MethChannelProofs.tla
    tlapm CoroSchedulerProofs.tla
    tlapm MethThreadProofs.tla
    tlapm PlaytestSupervisorProofs.tla
    tlapm CrashHandlerProofs.tla
    tlapm PlaySessionProofs.tla
    tlapm EditorProofs.tla

Each run takes at most about two minutes on two cores, each module of proofs at
most a few minutes.

## 1. The system

Three programs are built from `engine/` and `examples/` with the Mettle
compiler, on top of a C runtime in `bin/runtime/`.

| Part | State it keeps | Operations | Meets |
|---|---|---|---|
| Async executor (`async_runtime.c`, from `MethAsyncHeader`) | ready queue, counters, runtime state, headers of tasks | start, finish, wait, cancel, configure, shutdown, reset, the diagnostics | worker threads, assisting waiters, clients, all on one lock and one condition variable |
| Coroutine scheduler and reactor (`async_runtime.c`, first half) | tasks, ready list, token bindings, port or poll set | create, schedule, bind, run_one, destroy, post_wake, init and shutdown, both ports | `meth_async_wait`, the kernel, threads that post wakes |
| `Channel<T>` (`meth_thread.c`) | ring buffer, two condition variables | new, send, recv, try_recv, close | any number of threads |
| Threads, mutexes, atomics (`meth_thread.c`) | a struct per thread, a lock per mutex, a cell per atomic | spawn, join, lock, unlock, load, store, fetch_add, fetch_sub, cas | the program's threads, the heap |
| Tracked heap (`gc.c`) | one list of allocations and its counters under a spin lock | alloc, thresholds, getters, shutdown | every thread |
| Crash handler and debug tables (`gc.c`) | two tables with their counts, the in-handler flag | register, install, trap, filter or signal handler, shutdown | faulting threads, the stacks they walk, threads that go on running |
| Playtest server (`engine_play_server`) | authoritative scene, input map, a line buffer | accept, snapshot, tick loop, stop | client over TCP, scripts, supervisor |
| Playtest client (`engine_play_client`) | replica of the scene, input map, a line buffer | connect, snapshot, frame loop | server over TCP, window, scripts, supervisor |
| Protocol (`engine_play_protocol`) | none | encode and decode of one-line packets | both |
| Playtest supervisor (`engine_process_win32`) and manifest | two children with a pipe each, `active` | start, poll, stop, drain of the pipes | the editor's frame loop, the output log |
| Output log (`engine_output_log`) | a ring of lines, filter and scroll | push, line, clear, filter, scroll | the supervisor, the editor, the engine |
| Play-mode runtime (`engine_runtime`, `engine_scripts`) | snapshot of the scene, accumulator | begin, stop, frame tick | scene, Lua registry |
| Editor (`engine_editor`, `engine_editor_ui`, `engine_viewport`) | focus, drags, camera | one frame after the other | everything below |
| Scene, terrains and their files (`engine_scene`, `engine_terrain_store`, `engine_scene_io`) | a fixed array of entities, ids, parents, selection; heightmaps by id, with a dirty flag | add, remove, reparent, edit, create heightmap, sculpt, save, load | editor, server, client |
| Code editor (`engine_game_tree`) | buffer, caret, selection, undo log with its arena, dirty flag | type, erase, clipboard, undo, redo, load, save, Esc | the editor's frame loop, one file |
| Services, game tree (`engine_services`, `engine_services_io`, `engine_game_tree`) | script records, rows | add, rename, delete, save | editor, server, client |
| Lua (`engine_lua`) | slot table of chunks, tick context | load, tick, unload | scene, input, services |
| Assets, explorer, project, meshes, materials | fixed-capacity tables and rings | load, save, rebuild | editor |
| Window and Vulkan (`game_gdi_win32`, `engine_vulkan`, `engine_vk_scene`) | window, capture, swapchain and its objects | poll, resize, create, recreate, present, destroy | editor, client |

Concurrency proper lives in the runtime (threads on a lock, sleepers on
condition variables, wakes from the kernel, faults in the middle of anything)
and between the three processes of a playtest (a byte stream, pipes,
termination at any moment). The rest of the engine is single-threaded and is
hard to test in another way: long sequences of legal edits on fixed-capacity
tables with ids, indices and offsets that go stale.

What makes the parts correct, and where it is hard:

* **Executor**: counters that four code paths keep apart from the facts they
  count; a single condition variable with several kinds of sleepers; waiters
  that run other tasks on their own stack; stops in two critical sections with
  joins between them; restarts while callers are still inside.
* **Coroutines**: addresses that are used again, wakes that arrive during a
  step, a self pipe that is written after the unlock, a destroy in the middle
  of the list.
* **Channel**: signals to one sleeper at a time, growth, close with values left.
* **Crash handler**: it runs while other threads run; what it probed may be
  unmapped when it reads it, the tables may be cleared between two of its
  reads, and it may fault itself. It must end the process all the same, and
  say the right thing first.
* **Heap, threads**: a list and two counters behind a lock, a shutdown among
  allocations, a struct that join frees and the thread still writes.
* **Playtest**: lines cut by `recv` and by `send`, results of calls that are
  not looked at, and ends of every kind, at every point of the other side.
* **Supervisor**: two children that write and end at any moment between two
  calls of a frame; bounded drains of bounded pipes; a client that cannot be
  started when the server runs already.
* **Code editor**: every edit is kept as a difference whose bytes lie in a
  shared arena; undo and redo use positions that were recorded long before.
* **Scene**: rows move, ids stay, and a load goes through ids of its own; a
  heightmap is tied to its terrain by id in memory and by path on disk, and is
  saved before the scene, each in a file that may fail to open or be cut short.

## 2. Modules

| Module | Models | Uses |
|---|---|---|
| `AsyncExecutor` | the pool, its clients and the tasks that they and the tasks start | |
| `AsyncTaskLifecycle` | what the runtime promises about one task, abstractly | implemented by `AsyncExecutor` |
| `MCAsyncExecutor` | the programs the runs execute | `AsyncExecutor` |
| `AsyncExecutorProofs` | theorems and proofs: types, control state, lifecycle, wake-ups, counters; the ring | `AsyncExecutor`, `AsyncTaskLifecycle`, `TaskRing` |
| `TaskRing` | the slots of the ready queue | implements `TaskQueue` |
| `TaskQueue` | the bounded FIFO that `AsyncExecutor` uses as `queue` | |
| `MethChannel`, `MCMethChannel` | the channel; its instance | |
| `MethChannelProofs` | theorems and proofs | `MethChannel` |
| `CoroScheduler`, `MCCoroScheduler` | scheduler and reactor; its instance | |
| `CoroSchedulerProofs` | theorems and proofs | `CoroScheduler` |
| `CrashHandler`, `MCCrashHandler` | faults, the handler and its walk; its instance | |
| `CrashHandlerProofs` | theorems and proofs; induction and folds | `CrashHandler` |
| `RuntimeHeap` | the tracked heap, read by read | |
| `MethThread`, `MCMethThread` | threads, mutexes, atomics in a program with the heap; its instance | composes `RuntimeHeap` |
| `MethThreadProofs` | theorems and proofs, of the heap and of the threads | `MethThread`, `RuntimeHeap` |
| `PlaySession` | server, client, and the connection | |
| `PlaySessionProofs` | theorems and proofs | `PlaySession` |
| `OutputLog` | the ring of lines, as a value | |
| `PlaytestSupervisor`, `MCPlaytestSupervisor` | the editor's frame loop, the supervisor and the two children; its instance | composes `OutputLog` |
| `PlaytestSupervisorProofs` | theorems and proofs | `PlaytestSupervisor` |
| `UndoHistory` | what undo and redo promise, abstractly | implemented by `CodeEditor` |
| `CodeEditor`, `MCCodeEditor` | the code editor; its instance | |
| `SceneModel` | the scene, the heightmaps of its terrains, and the files of both | |
| `MCEditor` | the instance for the editor's two documents, script and scene | `MCCodeEditor`, `SceneModel` |
| `EditorProofs` | theorems and proofs, of the script and of the scene | `MCEditor` |

### AsyncExecutor

A *context* is a thread outside the pool, a pool worker, or a task whose body
some worker executes. `pc` says where it is in the entry point it called; one
action is one critical section of the executor lock, together with the
unlocked code next to it that touches nothing shared. `stack[w]` is the C stack
of worker `w` as far as it matters: which task bodies are on it, because
`meth_async_wait` and a blocked `meth_async_executor_enqueue` run other tasks
on top of the one that called them. Only the innermost task of a stack moves.
Thread-local storage (`g_meth_async_current_header`, the pool-thread flag)
follows from the context. A program is a member of `Scripts`: the set of calls
each context may make, in any order, each once.

The functions of the code are found again by name: `EnqueueRefused`,
`EnqueuePush`, `EnqueueAssist` and `EnqueueWait` are the ways through
`meth_async_executor_enqueue`; `WaitReturn`, `WaitAssist`, `WaitPassCancel` and
`WaitPark` those through the loop of `meth_async_wait`; `ShutdownCall`,
`ShutdownWake` and `ShutdownFinal` are the two critical sections of
`meth_async_runtime_shutdown` and its sleep; `WorkerPop`, `WorkerPark` and
`WorkerLeave` are the loop of `meth_async_worker_main`; `ExecBegin`,
`BodyReturn`, `BodyFinish` and `ExecEnd` are `meth_async_execute_task` and
`meth_async_finish`. Creation of the pool may fail, or give fewer threads than
asked for. Any sleeper may wake for no reason.

### TaskRing

`AsyncExecutor` treats the ready queue as a sequence. `TaskRing` keeps it as
the code does, as slots with a head and a count, and is shown to implement
`TaskQueue`, the sequence with the same three operations.

### MethChannel

`SendWait`, `SendClosed`, `SendStore` (with `meth_chan_grow`) and
`SendNoMemory` are the outcomes of one turn of `__meth_chan_send`, and so on for
the others. `sent` and `got` record the accepted and the received values in the
order of their critical sections.

### CoroScheduler

Both ports share the scheduler; `backend` says which reactor is below it. The
step function that the compiler generates is external: it may start up to
`MaxOps` operations, each of which wakes the coroutine through a bound token,
the task's handle, a direct call of `meth_coro_task_schedule`, or a file
descriptor, and the last of its `Steps` steps completes the header. `at` and
`owner` relate a coroutine to the address of its task, and a freed address is
used again. What a wake carries (its kind and result) is left out: a later wake
replaces it in the code and nothing in the scheduler reads it.

### CrashHandler

A thread is in the program (`run`) or somewhere in the handler. `Fault` and
`Trap` enter it with an address and a frame pointer; what the frame pointer
leads to is a member of `Memories`, stacks in which a frame may be half
readable, be the caller of itself or have no caller. Every read that another
thread can get in front of is a step: the flag (one exchange on Windows, test
and store on POSIX), each count and each table, the probe and the two words of
a frame. `Unmap` takes a page away in between, `ShutdownStore` clears one
global after the other. A fault inside the handler (`FaultInside`) is an event
of its own: the kernel ends the process if the signal is blocked, and otherwise
the handler is entered again and finds its flag set. `FindFunction` and
`FindLocation` are the two searches. The text of the report is left out, but
not which symbol it gives each frame (`shown`).

### RuntimeHeap and MethThread

`RuntimeHeap` has one action per access to what the spin lock protects:
`AllocRead` makes the checks and reads the counters, `AllocLink` links the
block and stores the sums, `ShutdownWalk`, `ShutdownFree` and `ShutdownReset`
are the loop of `gc_shutdown` block by block, `Get` is each of the getters. The
overflow checks are the code's, in integers of the width `SizeMax`; a refused
allocation frees its block and ends the process (`gc_fatal_error`).
`MethThread` puts threads on top: the main thread spawns workers, uses or shuts
down the heap, and joins; each worker runs `meth_thread_entry` around a function
that allocates, adds one to a cell under a mutex, takes a ticket by
`fetch_add` and adds one by a compare-and-swap loop. The function is the
program's and external; every other step is one of `meth_thread.c`. A spawn
or the creation of the mutex may fail, and `lock`, `unlock` and `join` accept a
handle of 0; the atomics, whose operations do not (they dereference it), are
there.
"Collect" and the root and frame entry points of `gc.h` do nothing in the
code and are left out.

### PlaySession

One direction of the connection is a sequence of half lines; `recv` takes one
half, so that lines are split everywhere the code can see a difference. Sends
are blocking during the snapshot and non-blocking afterwards, when a full
connection may lose a line or cut it. A line that was cut runs into the next
one; what the decoder makes of the mixture is any value of the fields behind
the type, for any entity or action. An end of a side is a FIN, or a RST if it
left input unread; a send to an ended side may turn the FIN into a RST. `Applied`
and `ApplyRuntime` are the packet handlers of the client, `ApplyInput` that of
the server. All that an `XFORM` carries is one number per entity, the sixteen
actions are one, and scripts are what they do to the scene: move an entity.
The client has scripts too (`lua_vm_tick` at the end of its frame): they may put
any of the entities `Placed` somewhere of their own (`Scripted`), of which the
server hears nothing and which its next `XFORM` overwrites.
Neither side sends while the other one drains: a line that arrives during a
drain is as good as one that arrived before it or stays for the next one.

### PlaytestSupervisor and OutputLog

The editor is one thread, but its children are not: `todo` is the list of the
calls that the frame has still to make, and each call that reads a pipe, looks
at a process or ends one is a step, so that the children write and end between
any two. `PollCalls`, `ExitCalls`, `StopCalls` and `UndoServer` are the
sequences of calls in `playtest_poll`, its branch for a child that has ended,
`playtest_stop` and the failure branch of `playtest_start`. A pipe is two
numbers (bytes written, bytes taken), byte *n* of a child is *n* itself, and
`Newlines` and `Returns` say which bytes end a line or are dropped. `Drain` is
one `ReadFile` of `proc_drain` with the bytes split by `Split`. `Terminate`
returns before the process has ended, as `TerminateProcess` does. `OutputLog` is
the ring of lines as a value with its functions; the severity of a line, the
filter tabs and the scroll offset only choose what is drawn and are left out.

### CodeEditor and UndoHistory

Every operation of `engine_game_tree.mettle` on the `CodeEditor` struct is a
function from one value of the struct to the next, and an action is a frame
with one key. Records and arena are kept as in the code, with offsets and the
high-water mark; `arena` bytes that no record owns are `Nil` after a truncation,
which the code never reads. A caret motion leads to any position of the text.
`Load` opens a file as `gt_editor_load_file` does: it takes any number of its bytes
up to `CodeCap - 1` (`Reads`), none if the file cannot be opened and fewer than there
are if it cannot be read to the end, and the buffer counts as saved all the same.
Two fields the code has not: `lost` says that the last frame gave the history
up, `missed` that the list of records was full when a deletion should have been
recorded (`gt_undo_push_delete` returns without one, 529). From there on the log
and the text do not belong together, and the code's `length` may even become
negative; the runs stop there (`Next`, `Beyond`), unless they are about it. A
paste is a loop over the bytes of the clipboard, as in the code. `Back` and
`Forth` are the texts that undo and redo would show from here; with them as
`past` and `future`, `CodeEditor` is to implement `UndoHistory`, where an edit
pushes a text, or belongs to the one before it, and never changes one that is
already in the past.

### SceneModel

`rows` is the table of `engine_scene.mettle` in its order, because removal
(the last row moves into the hole) and loading depend on it; `patches` is the
terrain store, `file` the scene file and `maps` the heightmap files. Of an
entity's properties the parent, the kind, the colour, the rotation and `bound`
(its path names its own heightmap file) are kept. `LoadEntity` is
what `scene_io_load` does for one entity of the file: `scene_add` appends a row
with a temporary id, `scene_find` looks that id up, and the fields of the file,
the id among them, are read over those of the row that was found (`Read`). For most
fields that is an assignment. A colour is set component by component, and all
zeros become ones on the way (`SetComp`, `ReadColour`); a rotation is normalised
after each of its four components, and what that gives is a function of the row's
rotation and the saved one (`Renormalised`), of which only the type is assumed.
`Save` writes any subset of the dirty heightmaps and may or may not reach the
scene; any file it writes may be cut short, as no result of a write is looked at
(`Nil` in `maps` and `file`). A heightmap that was cut short cannot be loaded; what
a load makes of a scene file that was cut short is not modelled. A snapshot for a
playtest is the same function. `terrain_store_create_grid` and `LoadMaps`
may fail for want of room, memory or a file. The editor's start is `Init` or
`Load`, its end a `Save` of which nobody reads the result.

## 3. Runs

| Run | Question | Result |
|---|---|---|
| `exec_safety` | do counters, queue, stacks and states stay consistent under every interleaving of a task tree, cancellation, stops, a reset and a restart, and does the pool implement `AsyncTaskLifecycle`? | holds |
| `exec_progress` | do fork-join programs finish, and do aborts and timed drains return? | holds |
| `exec_drain_waiting` | does a drain without deadline return? | violated: finding 1 |
| `task_ring` | is the ring a FIFO with removal, through every wrap-around? | holds |
| `channel` | FIFO, nothing lost at close, no sleeper left behind, progress | holds |
| `coro` | ready list, wakes, restarts, freed tasks, completion, on both ports | holds |
| `crash` | does every fault end the process, are undisturbed reports complete, unmixed (Windows) and right about each frame? | holds |
| `threads` | are the heap's list and its byte counts exact, does join free too early, is an update lost, does every join return? | holds |
| `play` | whole scene, single presses, settling of scene and input, clean ends | holds |
| `playtest` | log in order, little lost at an exit, no child or handle left over, every full pipe read and every end noticed | holds |
| `editor` | script: is the history exact while stashes are apart, is everything inside the text, is a clean buffer what was last saved or loaded? scene: do all references hold, is a clean heightmap what its file holds, what does a load bring back? | holds |
| `editor_undo` | is the history exact without that condition? | violated: finding 2 |

Every passing run was also checked to take every action of its module, and for
every property there is a mutant, a small plausible error in the modelled code
under which TLC finds the property violated (operators commented as *Mutant*).

What the properties of the newer modules say, and what they exempt:

* `OneReporter` (crash) is stated for Windows. The POSIX handler tests and sets
  its flag in two steps, so there two reports can mix. `DeathIsReported`
  exempts a report that another thread's fault cuts short, a walk into a page or
  a table that went away meanwhile, and an overflow on a thread without a signal
  stack: in each of these cases the code does end the process without a full
  report. `FramesNamed` compares the two loops with a definition by order, for
  addresses inside a function.
* `NoLostUpdate` (threads) exempts a program whose mutex could not be created:
  its lock succeeds at once, and it does lose updates.
* `ExitLosesLittle` (playtest) is the arithmetic behind the comment "Drain
  stdout before checking exit so output emitted right before the process ended
  isn't lost": when the pipe is closed at most `PipeSize - Chunk * DrainGuard`
  bytes are unread, 64 in the build. It does not say zero. A stop, unlike an
  exit, loses whatever is written after its one drain.
* `HistoryExact` (editor) is `ReplaysExactly` with the condition that no two
  stashes overlap in the arena and no deletion is missing in the log
  (`LogReplays`); the run leaves out what follows (`Beyond`), which is what
  `editor_undo` shows of the first and finding 3 is about for the second.
* `InsideText` (editor) says nothing once a deletion is missing in the log: the
  positions of the older records are then for another text.
* `CleanIsSaved` (editor): a buffer that counts as saved is what the last save
  wrote or the last load *got*. It is not always what the file holds: a file that
  cannot be opened, or only in part be read, leaves a clean buffer too. It exempts
  a write that was cut short, which the code does not notice.
* `CleanIsOnDisk` (editor) exempts a heightmap file whose writing was cut short,
  which the code does not notice either: what it guards is the file that could
  not be opened.
* `LoadKeepsIds` (editor) says of each entity of the file what it comes back as:
  with its id, its parent, its kind and its heightmap, and a colour and rotation
  that are read over those of a new cube; or, if its id is the number of a later
  row, as a new cube, which is a loss, see below. Of an entity that is read over
  another one's row it leaves colour and rotation open.
* `ReferencesHold` (editor) includes that no entity is its own ancestor within
  `Guard` steps (`NoShortCycle`). The search for a descendant is shorter than the
  longest chain of parents in the run (2 against 3) as in the code (256 against
  512), and longer cycles do form, see below.

### The bounds, and why they suffice

* `exec_*`: three tasks, two workers (one in `exec_drain_waiting`), two
  clients, a queue of one or two slots. Three tasks give a task that waits for
  a child while an unrelated task is queued, the smallest case in which
  assisting, blocking on a full queue and cancelling interact; a second worker
  gives two threads in every critical section; two clients give a stop or a
  restart against a caller. Each program is run with every order of its calls.
* `task_ring`: capacity four and three tasks, which may be queued more than
  once: every head position, fill and removal offset occurs.
* `channel`: capacities 0, 1, 2, growth from 0 to 2 slots, two senders with two
  values each, two receivers and a closer: sleepers of both kinds, two of a
  kind for one signal, wrap-around and growth.
* `coro`: two coroutines of two steps, two addresses, so that an address is
  used again; at most two operations for each step; one waker, whose posts
  interleave with everything.
* `crash`: two threads, both platforms, a walk of at most 3 frames (32 in the
  code), one page that goes away (`MaxGone`). The stacks of `SmallMemories`
  are a chain that ends in half a frame, one that turns back and one that is
  longer than the limit; the tables of `SmallImages` have two adjacent functions
  in descending order, unsorted locations, two of them with one address, and an
  address outside every function. Two threads suffice, since a third
  one finds the flag as the second does.
* `threads`: two workers and the main thread, two blocks, sizes of which one
  just fits below `SizeMax` and one does not, one heap call of the main thread
  (`MaxCalls`) at any moment. One call is a shutdown, a getter or a threshold
  against two allocations.
* `play`: two entities and room for two lines, so that a tick just fits and a
  line may be cut at a full connection; one move, one press, one cut
  (`MaxMoves`, `MaxPresses`, `MaxCuts`); the scripts of the client may put one of
  the entities somewhere in every frame (`Placed`). Lost lines are not bounded. Ticks are
  not counted: the server may reach its last tick (10000) at the end of any.
* `playtest`: two playtests, a pipe of 5 bytes read at most twice by 2, so that
  one byte may be lost as 64 may be in the code (65536 - 64 * 1023); 7 bytes of
  the first server, with a line longer than the line buffer (2), a return and a
  newline at the end; a log of 3 lines of 1 character and a NUL, so that the
  ring wraps and cuts. Each constant is the smallest that keeps the order of
  sizes in the code: chunk below pipe, guard times chunk below pipe.
* `editor`: a buffer of 3 characters (`CodeCap` 5 with the NUL and the one that
  the code keeps free), 3 records and 3 arena bytes, so that each runs full in
  a few keys, in every order; one typed byte, and a clipboard with a carriage
  return. `editor_undo` has room for 5 bytes and 6 records, so that nothing is
  full when the history goes wrong.
* `editor`, the scene: three rows and ids up to 4, so that rows and ids part
  and come together again in a load; a store for one heightmap and two
  terrains; heightmaps that are procedural or not; at most five changes, saves
  and loads (`MaxChanges`), of which the inspector makes the first two at most
  (`MaxEdits`). Five are enough to remove, edit, add, save and load,
  to create, sculpt, save without success, save and load, or to close a
  chain of three parents, save and load. A search for a descendant of two steps
  (`Guard`) refuses a cycle of two and misses one of three. One component of
  colour is set to 0 (`Painted`, `Shades`), which gives black and a colour without
  red beside no colour at all; of two rotations the turned one comes back upright
  (`Angles`, `Unturned`), which stands for coming back turned less.
  Script and scene share no state, so a session of `MCEditor` works on one.

`CHECK_DEADLOCK FALSE` stands where the modelled program really ends: when
every call has been made, the process has ended, or the editor has been left;
and in `editor`, which stops where the log cannot replay any more.

### Fairness

Weak fairness of every thread of the executor, the channel and the runner:
each runs and takes a lock that is free again and again. Bodies of tasks
return, deadlines pass. Nothing asks that anybody calls stop, cancel or close.
`crash`: a thread in the handler is scheduled like any other; faults are not
fair. `threads`: every thread runs. A spin lock promises a single thread
nothing under weak fairness; it is enough here because the program makes
finitely many calls. `playtest`: the frame loop of the editor goes on until its
window is closed (which nothing forces), and a process that was terminated
ends; the children need neither write nor end. `editor` has no liveness: it is
a loop of one thread that waits for nothing.

For `PlaySession` it is strong fairness of each process, since a process is
disabled while the other drains, which lasts for a bounded number of steps;
both loops sleep (16 ms and 8 ms), so the other one runs in between. Kills,
losses and cuts are never fair. `SessionSettles` is stated for sessions that go
on; it holds because every tick sends every entity and every frame sends the
whole input map, whatever was lost before. An entity that scripts of the client
go on placing stays where either side has put it last; the scenes agree in whole
once these scripts rest. All this provided that the lines of a tick
fit in the connection (`Room >= Cardinality(Ids)`): with less room the entities
at the end of the scene would never get through.

The progress properties of the executor are stated for fork-join programs, in
which a task waits only for tasks it has started. A task that waits for one
further down on the same stack waits for ever.

## 4. Findings

1. `exec_drain_waiting`: `meth_async_wait` assists only while the state is
   RUNNING, so a drain hangs when the last worker waits for a queued task.
2. `editor_undo`: `gt_undo_truncate` (`engine_game_tree.mettle:440`) sets the
   arena back to the last stash of a surviving *deletion*. The stash of a
   surviving insertion may lie behind it, and the next edit is written over
   it. Type `x` and `y`, Backspace, undo, Backspace, undo, undo: the redo
   brings `yy`.
3. `gt_undo_push_delete` (`engine_game_tree.mettle:529`)
   returns without a record when the list is full, and the text is cut all the
   same; `gt_undo_push_insert` starts anew in that case. The next undo applies an
   older record to a text it was not made for.
4. A load takes 65535 bytes, and `gt_buf_insert_raw` (563)
   refuses what would make 65535. In a script of that size a deletion cannot be
   undone: the text stays, the caret goes behind it, and a redo deletes again.

Findings 3 and 4 came out of the proof of `InsideText`, which failed at these two
places. They have no run of their own: `editor_undo` with `Beyond = FALSE`, which
leaves finding 2 out, shows finding 3 with `RecCap = 1` and `Files <- TwoBytes`,
and finding 4 with `CodeCap = 4` and `Files <- FullFile`.

### Noticed without a run

Runtime:

* Two threads that stop the executor: the second critical section of a
  shutdown does not look at the state again and, after a reset and a start in
  the meantime, stops the new pool straight from RUNNING (1953); a second drain
  during a drain takes the branch of the abort (1889); a second shutdown that
  wakes when the first has already set STOPPED sleeps for ever (1925); a start
  that sleeps in the old pool over a reset sleeps for ever.
* A waiter that passes its own cancellation on does not look at its target
  again before it sleeps (2123-2135); a shutdown without deadline from within
  a task waits for itself (1866).
* A stepped task is looked up by its address after the step; with two threads
  in `meth_async_wait` the other may have freed it, and the address may be a
  new task (1083).
* The newest registered descriptor is looked at first and none is ever
  unregistered: one that is always ready starves the older ones (799,
  `Starved`).
* A channel of capacity 0 gets a ring of 16 on its first send and blocks from
  then on, although it is documented as unbounded (`meth_thread.c:337`, 268).
* A mutex that cannot be allocated is a handle of 0, which `lock` and `unlock`
  accept without effect; an atomic that cannot be allocated is a handle of 0 that
  every operation dereferences (`meth_thread.c:207-261`).
* Crash handler: a second faulting thread ends the process in the middle of the
  first one's report (`gc.c:371`, against "Each fatal fault gets the same
  treatment", 552); on POSIX both may report at once (450); the alternate
  signal stack belongs to the installing thread only, so an overflow on any
  other ends the process without a word; a segmentation fault inside the POSIX
  handler of one does the same; an address outside every function gets the
  nearest location below it; shutdown clears the pointer of a table before its
  count (760-763).
* `posix_helpers.c` contains its text twice; the second copy lacks the opening
  of its comment (57), so the file does not compile.

Engine:

* Loading a scene loses entities: `scene_io_load` looks each new row up by its
  temporary id (`engine_scene_io.mettle:311`), which an earlier row may have
  been given from the file. From rows 1 and 2, remove 1, add 3, save and load:
  the fields of 3 go to the row of 2, and 2 is a default cube at the origin.
  (`LoadKeepsIds` says which entities are lost.) A
  fresh editor's six entities do the same when the first is removed and one is
  added: 6 becomes a default cube. What the file has no line for (`lua_script`
  is written only if there is one) stays as it was in the row that is read over.
* A rotation does not come back as it was saved: `scene_prop_set_num` normalises
  it after each of the four components (`engine_scene.mettle:1610-1613`), and a
  yaw of 90 degrees comes back as one of about 78, with every load less. Nor
  does a colour without red: (0, g, b) comes back as (1, g, b), and an entity
  without a colour (`color_rgba` 0) as (1, 0, 0) (1588-1602).
* Heights that the brush creates are never saved: it binds the terrain to the
  empty path (`engine_viewport.mettle:2739`), which the save skips, although
  the comment above says "so saved sculpts load cleanly later". It also takes
  the path away from a terrain whose heightmap could not be loaded.
* `scene_is_descendant` gives up after 256 steps and answers no
  (`engine_scene.mettle:1103`); the editor's scene holds 512 entities, so the
  root of a chain of 257 can be hung under its end. "cycles can't form", says
  `engine_scene_io.mettle:255`; in the instance of `editor`, with a search of two
  steps and three entities, one is closed in four changes.
* `terrain_store_save_file` marks a heightmap clean without a look at what its two
  calls of `fwrite` answer (`engine_terrain_store.mettle:446-450`): after a write
  that was cut short the next save skips it, and the next load refuses the file.
* The snapshot for a playtest writes the dirty heightmaps over the saved ones
  and marks them clean; a load afterwards brings back the old scene with the
  new heights. The results of `fputs`, and of the save when the editor ends,
  are not looked at.
* `README.md:15` says that Stop "restores the scene"; `playtest_stop` restores
  nothing, and `runtime_begin_play` and `runtime_stop_play` are called by no
  program.
* Two frames in one drain of the server lose the first one's press
  (`ApplyInput` replaces what is known of an action); the client connects once
  and exits if the server does not listen yet, whereupon the server waits in
  `accept` for ever; the check of `recv` in the snapshot phase is the one that
  a comment further down describes as the cause of a crash
  (`engine_play_client.mettle:302`); `recv` of -1 is always taken for "nothing
  to read", so that a reset connection is never noticed (566).
* `playtest_poll` can lose up to 64 bytes of a child that has ended, in spite
  of its comment; `playtest_stop` loses what is written after its drain; when
  the client cannot be started the server's pipe is closed without a drain.
* The output log's `count` is commented as "total lines ever written
  (monotonic)" (`engine_output_log.mettle:46`) and saturates at the capacity;
  the editor compares it with the last count to see whether something is new
  (`engine_editor.mettle:366`), which stops working at 256 lines.
* Code editor: a script that exists and cannot be opened, or not be read to its
  end, is an empty or a shorter buffer without "*unsaved"
  (`engine_game_tree.mettle:643-656`), and a save writes that over it; the results
  of `fwrite` and of the implicit cut at 65535 bytes on load are not looked at, so
  that a file that was cut is saved cut; the
  double click that opens a script starts a selection from a stale anchor.

## 5. Proofs

`AsyncExecutorProofs` proves, for every number of tasks, workers and clients,
every program and every default size, from the named assumptions of
`AsyncExecutor` (the kinds of contexts are disjoint, tasks and workers are
finite, the defaults are positive, a header is started by one context):

* `TypeCorrect`: `Spec => []TypeOK`.
* `ControlInvariant`: `Spec => []ControlInv`.

`TypeOK` is not inductive: that `ExecEnd` finds somebody to return to needs the
shape of the stacks. `ControlInv` adds `ArgOK` (a header between the entry and
the return of `meth_async_start` belongs to one context), `TodoOK` (nobody else
will start it), `QueueOK` (a queued task does not execute and is queued once)
and `StackOK` (an executing task is in one place of one stack, and all but the
innermost are inside a wait or an enqueue that assists). These are stated as
`Shape` of any control state, because a critical section often ends with a
broadcast: `Shape` is proved of the state before the broadcast and carried over
it by one lemma, `WakeShape`. `NextControlInv` has one lemma for each action.

On top of it the module proves the executor's promises, the properties of the
runs `exec_safety` and `exec_drain_waiting`:

* `HeaderInvariant`: `HeaderInv` ties the state of a header to the place where
  its task is. The header of a task whose start has not returned is untouched,
  although the start writes it without the lock; that of a queued task is
  QUEUED, of an executing one EXECUTING, of one whose body is over not QUEUED.
* `ExecutorImplementsLifecycle`: with `HeaderInv` every step moves a header by
  one of the five steps of `AsyncTaskLifecycle` or leaves it alone. All steps
  have this shape (`HeaderMoves`), also the shutdown that cancels the whole
  queue; the refinement then follows header by header.
* `NoWakeupIsLost`: `NoLostWakeup` is inductive relative to `ControlInv` and
  `HeaderInv`. Most critical sections end in a broadcast, after which nobody
  sleeps; the others must not make true what a sleeper waits for. The one
  exception is the task that has finished and not yet returned to
  `meth_async_execute_task`, whose broadcast is still to come.
  Any number of stoppers may sleep: a second one that waits for a state that is
  over (section 4) waits for the wrong thing, but has lost no wake-up.
* `PoolInvariant`, `CountersAreExact`, `StoppedMeansQuiet`, `DrainWaits`:
  under `OneStopper`, that one context makes the calls to
  `meth_async_runtime_shutdown`, as often as it likes. `StopInv` says what the
  stopper finds when it takes the lock again after it slept or joined;
  `CountInv` says that `outstanding` and `live` are cardinalities of two sets,
  and that a task that is not terminal is in the queue or on a stack. The
  hypothesis is needed: with two stoppers one of them may find the pool
  stopped, reset and started again between its two critical sections, and
  clears what is no longer its own (section 4). `exec_safety` has one stopper,
  which TLC checks as an assumption of `MCAsyncExecutor`.

Of the ring it proves, for every capacity and any tasks:
`RingTypes` (head and offsets stay inside the slots), `RingUsedSlots` (exactly
the slots from the head on hold a task) and `RingImplementsQueue`, the
refinement that the run `task_ring` checks for four slots. The work is in the
arithmetic of `%` (`SlotsApart`, `NextSlot`) and in the loop that closes the gap
of a removed task (`RemovedSlots`), which is a function of the offset.

`MethChannelProofs` proves, for any finite number of senders, receivers and
closers, any values, capacities and size of the first ring (a thread either
sends, receives or closes, see `ChannelAssumption`), all four safety properties
of the run `channel`: `ChannelTypes`, `ChannelInOrder`,
`ChannelCloseLosesNothing` and `ChannelNobodyLeftBehind`.

`ChanInv` adds three things to `TypeOK` and `InOrder`. `WokenEnough` counts:
with a receiver asleep there are at least as many woken receivers as values,
with a sender asleep at least as many woken senders as free slots. Without the
count `NobodyLeftBehind` is not inductive: with two values, one receiver woken
and one asleep, the woken one takes a value and nobody is awake for the other.
`EndSeen` says that a receiver was told the end only of a closed and drained
channel, `ItemsLeft` that a sender inside a call has a value. The order rests on
two lemmas about the ring: a store behind the last value appends it to the
contents (`StoreContents`), a take moves their head to the received values
(`TakeOrder`). `StoreCases` shows on the way that `meth_chan_grow` is only ever
called for a channel without slots: its loop that moves values to a larger ring
is never entered, which is why a channel of capacity 0 blocks at 16.

`CoroSchedulerProofs` proves, for any coroutines, addresses, wakers and plans
and both ports:

* `ReadyListIsExact`, for any number of runners: the links of the ready list are
  those of a sequence that holds each queued task once (`IsReadyList`). One
  lemma for each of the three operations, `ListAppend`, the pop of the head and
  the unlink from the middle; every other step leaves the list alone.
* `StepsOnlyLiveTasks` and `NoWakeIsLost` under `SingleRunner`, that one thread
  is in `meth_async_wait`: between the pop, which clears `queued`, and the step
  the runner holds a bare pointer, and a second runner may complete and free the
  task meanwhile. `WakeInv` says that a coroutine woken since its last step
  began is in the list or in the hands of the runner that popped it. `PipeInv`
  counts for the posix port: the wakes in the queue are no more than the bytes
  in the pipe and the bytes owed by wakers between the unlock and the write; the
  runner that has taken a wake and not read its byte counts as one. Without it
  `NoWakeLost` is not inductive, because a runner that drains a byte must know
  that the next wake has its own.

`MethThreadProofs` proves of the heap, for any threads, blocks, sizes and calls:
`HeapLockExcludes` and `HeapBlocksExact`, that no block is lost, linked twice or
left on the list after it was freed. `BlocksExact` is not inductive: that
`AllocLink` puts its block in front of the list it *read* needs `CallOK` (what
was read under the lock is still so), that the block is not there yet needs
`BlocksOK` (a block belongs to one call until it is linked), and that a shutdown
frees nothing twice needs `ListOK` (it has freed exactly what it has walked).
`HeapBytesExact` says that the byte total is the sum of the sizes on the list
and never wraps. The sum is stated by a witness (`SumsTo`): a function that gives
for every position the total from there to the end. A new block in front shifts
the witness by one, the head that is freed shifts it back; `LinkFits` keeps what
`gc_add_overflows` has established until the block is linked.

Of the threads it proves, for any finite set of them, `JoinIsSafeAlways` and
`NoUpdateIsLost`. `LifeOK` ties the struct to the thread's last use of it, and
the result to the thread's ticket; `CountOK` counts: `total` is the number of
functions that have returned, `cell` the number of workers behind their store,
no two tickets are equal. `ProgramUsesHeap` shows that the program of threads
implements the heap's own specification, which carries the heap's theorems over:
`ProgramBlocksExact` and `ProgramBytesExact`.

`PlaytestSupervisorProofs` proves, for any output of the children, any sizes of
pipe, chunk, line and log, any number of playtests, and children that write and
end at any moment, `ChildrenSupervised`, `ExitLossIsBounded` and `LinesInOrder`,
from `SupervisorAssumption` (what one drain reads at most fits in the pipe, as 64
times 1023 does in 65536; a slot is not the name of a process). What the editor knows of its children depends on the
calls that the frame still has to make, so that `SupInv` is a table: for every
list of calls that can be left (`PollPlan`, `ExitPlan`, `StopPlan`,
`StoppedPlan`, `StartPlan`, `FramePlan`) what is true of both slots. While a
child runs, its slot holds it with its handles and its pipe (`Runs`); when it
does not, nothing of it is left (`Gone`); the plans name the moments in between.
`LeftAfter` counts the loss: after `n` reads of a child that has ended its pipe
is empty or at most `Chunk * n` short of full. Each list is decoded by its first
call (`FlushCall`, `CloseCall`, ...), then one lemma for each action.

`LinesInOrder` follows the bytes. `LogInOrder` is a conjunct of its inductive
invariant, `LogInv`, which needs `SupInv` beside it: a process that is still to
be started has written nothing and has no line in the log (`Births`; otherwise a
second playtest would inherit the lines of the first), a slot without a pipe has
an empty `line_buf` (`Tails`), nobody writes more than its output (`Writes`), and
the ring starts at slot 0 until it is full (`ValidLog`). One push into the ring
is an append, and a drop of the first line when it is full (`ShownPushed`);
`MovedSet` counts the lines of one sender through the shift, `LatestGrows` and
`KeptPush` conclude for the sender and for everybody else. `LinesGrow` says what
the next byte does to the lines and to the rest. One read is these, byte after
byte: an induction over the places of the chunk (`SetInduction`, as below).

`CrashHandlerProofs` proves, for any finite set of threads, any stacks, tables
and addresses and both platforms, `CrashTypeOK`, `OneReports`, `DeathsReported`
and `NamesAreNearest`. `DataAssumption` says what a compiler's tables are:
addresses are numbers and the ranges of two functions do not overlap (with
overlapping ranges the code gives the first function of the table, and no
better answer exists). `WalkInv` is what each place of a walk knows: a frame
that is about to be read was probed, and its page is there or was taken away.
`FlagInv` says who set the flag, without which "the flag is set, so somebody
reports" does not follow. `ReporterInv` needs the exchange on Windows;
`NamedInv` keeps for every place of the walk the function that was found and,
later, the symbol.

The two searches through the tables are loops, in the model a minimum and a
left fold. That the fold gives the nearest location is an induction over the
table. The library's induction theorems take an operator as a parameter, which
the provers cannot instantiate, but the well-foundedness of `<` on the naturals
is stated with a set: `SetInduction` (a set that has 0 and with every number the
next one has them all) follows from it, `FoldExists` from that (the recursive
function behind a fold has a solution, so the `CHOOSE` of its definition is
one), and then the fold is computed place by place.

`PlaySessionProofs` proves, for any finite set of entities, any room on the
connection and any number of moves, presses and cut lines, with either process
killed at any moment, `PlayTypeOK` and all three safety properties of the run
`play`. Each speaks of what one side knows and rests on what is on its way:

* `PressesSeenOnce`: `PressInv` is an account. `Owed(q, n)` says by a witness
  that at most `n` pressed edges are on the connection; with the one that the
  input map holds and no tick has counted yet (`Unticked`), and with those the
  scripts have seen, they are no more than the player's presses. `ClearEdges`
  before the drain is what closes it.
* `ShownWasSent`: what is shown is a position the server has had, or one that a
  script of the client has given. `FreshInv` says that every line in the outbox, on the way and
  in the buffer tells of no position newer than the server's, and, as long as
  nothing was cut, that every first half is followed by its second one
  (`Orderly`, `Follows`). What `LoadScene` throws away may begin in the middle of
  a line: the half that is left completes to nothing.
* `SceneArrivesWhole`: `SnapInv` says how many halves `c` of the snapshot the
  client has read: the half at place `c + i` is at place `i` of the connection
  (`InPlace`), what comes behind the snapshot is of ticks or the end (`Beyond`),
  the buffer is empty or has the half before (`Buffered`), the entities of the
  lines read are known (`Known`), and the server has sent a whole number of lines
  and holds the others (`ToCome`). At SCENE_END `c` is all of it.

`EditorProofs` proves of the code editor, for any bytes, files and clipboards
and any sizes of the buffer, the record list and the arena (the first two
with stashes that overlap or not):

* `CleanScriptIsSaved`: a text without the mark of an unsaved one is what was
  saved, or as much as was read of the file. No operation changes the text and leaves `dirty` as it was
  (`Proper`); one lemma for each operation, and `EveryStep` says what a frame
  can be.
* `CaretAndLogInsideText`, for files that leave room for what an undo puts
  back (`FilesFit`; without it finding 4 is a counterexample). What a record does
  to the text depends on the text's length alone, so the invariant `Within` has
  a *chain of lengths*: a length for every place in the list of records, that of
  the text at the cursor, each two neighbours as the record between them says
  (`Fits`), all of them within the buffer. An edit cuts the chain at the cursor
  (`ChainCut`) and adds a link (`ChainAppend`) or makes the last one longer
  (`ChainJoin`), an undo and a redo move along it. What is in the arena does not
  matter to it, which is why `InsideText` survives an overlap of stashes
  (finding 2) and `HistoryExact` does not. The texts that a row of undos goes
  through have the lengths of the chain by induction (`TextsFit`), a paste is an
  induction over the bytes of the clipboard (`PasteIsProper`).
* `EditsReplay`: `HistoryExact`, the refinement of `UndoHistory`. The lengths do
  not suffice, so the invariant (`HistInv`) has a *chain of texts*: as long as the
  log replays there is a text for every place in the list of records, each record
  with the bytes of its stash leads from one to the next and back (`Leads`,
  `Stands`, `Tells`), and the one at the cursor is the buffer (`Shows`). By
  induction over the undos and the redos `Back` is the front part of the chain and
  `Forth` the rest (`BackIsPast`, `ForthIsFuture`); an undo and a redo only move
  the cursor along it (`UndoTurns`, `RedoTurns`). An edit cuts the chain off and
  makes one more text, or another last one: a record that is appended touches no
  stash in front of it and one that grows leaves its own first bytes alone
  (`RecordedTells`, `JoinedTells`), *if* the stashes lie apart after the edit,
  which is where an overlap would break it. Within a frame the steps are
  followed one by one, since a paste may cut, type, reset and type on
  (`InFrame`: untouched, `Trimmed` or `Typing`; `Grown` says what became of the
  past); at its end the past is one that `UndoHistory` allows (`InFrameTurns`).
  Hypotheses (`LogFits`): the files leave room for what an undo puts back; the
  model stops where the log cannot replay any more (`Beyond = FALSE`, as in the
  run); and the arena holds a script (`CodeCap - 2 <= ArenaCap`, 262144 against
  65536 in the code): when `gt_undo_push_delete` resets the log for want of room
  it does not look whether the empty arena has enough.

Of the scene it proves, for tables, stores, ids and heights of any size and with
every file that may fail to open or be cut short (`SceneAssumption`: the two sizes
are numbers, the table has room for two rows, the ones a new scene starts with
in the model, and a rotation that is read is some rotation):

* `SceneReferences`: all of `ReferencesHold`, for a search of any length
  (`Guard`), longer or shorter than the chains of parents. `TableInv` says
  that ids are different and smaller than the next one, that the parent of a row
  is a row, that there is no way of at most `Guard` parents from an entity back
  to it (`NoRing`), and that the file holds such a table too. A removal and a load
  keep that, because they only take parents away (`FewerParents`). A change of
  parent keeps it because a new ring through the child is a way from the new
  parent to the child with one step less than the ring has, and on such a way
  the search would have met it (`SetParentNoRing`). Nothing more is true: in the
  code, with 512 rows and 256 steps, a ring of 257 can be closed (section 4).
* `SceneLoadKeepsIds`: `scene_io_load` is a left fold over the rows of the file.
  `FoldSteps` turns it into the tables after each row; `Taken` says what the
  table after `k` rows has of the file: `k` rows, no two with one id, with the ids
  of the file's first `k`, their parents or none; and what each of these entities
  is by now (`Back`): read into a row of its own, over that of an earlier one, or
  overwritten.
* `CleanHeightsOnDisk`: `MapInv`, that a clean heightmap is what its file holds
  unless its writing was cut short, step by step; a save opens *some* of the files
  of the dirty ones and marks those clean, and a load reads the files that are
  whole one after the other (`LoadMapsFacts`, a fold again).

Only model-checked:

* the progress properties of every module, since liveness under fairness is out
  of the prover's reach (`exec_progress`, `channel`, `coro`, `crash`, `play`,
  `playtest`, `threads`);
* what two stoppers do to the executor and two runners to the scheduler, beyond
  the theorems above that do not need the hypothesis.

## 6. Not modelled

Every other part is listed in `PROJECT.json` with its reason. Left out for
good: thin wrappers of the operating system, geometry, drawing, parsing of
formats, generated shaders, built executables. Left out of modelled parts: the
play manifest and the text of the command lines in the supervisor; severities,
filter and scrolling in the output log; the rows of the game tree, the making
of a script, and keys pressed in the middle of a mouse drag in the code editor;
all properties of entities but parent, kind, colour, rotation and heightmap, what
a load makes of a scene file that was cut short, the import of meshes, and the
hover id in the scene; what a wake carries in the coroutine scheduler; fifteen of the sixteen input
actions in the play session. The rest is planned.

## 7. Plan

1. *Done*: executor with ring and lifecycle, channel, coroutine scheduler, play
   session; crash handler, heap with threads, supervisor with output log, code
   editor with history, scene with terrains and files.
2. Proofs. *Done*: executor, ring, channel, scheduler, heap, threads,
   supervisor, crash handler, play session, code editor with its history, scene.
3. `runtime_begin_play` and `stop_play` on top of the scene, once a program
   calls them.
4. The mouse in the code editor, between keys; the rows of the tree with
   `ServiceModel`: rows against records after deletes.
5. The fixed-capacity stores: `LuaRegistry` slots and meshes, each against its
   abstract map.
6. `VulkanLifetime`: creation, recreation after a resize, destruction order,
   fences against command buffers.
