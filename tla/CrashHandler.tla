---------------------------- MODULE CrashHandler ----------------------------
(***************************************************************************)
(* The crash diagnostics of the native runtime (src/bin/runtime/gc.c): the *)
(* handler that a fault or a trap of generated code enters, the walk over  *)
(* the saved frame pointers, the lookup of each frame in the registered    *)
(* debug tables, and the end of the process.                               *)
(*                                                                         *)
(* Several threads may fault, a fault may happen inside the handler, pages *)
(* may be unmapped by other threads while the handler reads them, and      *)
(* gc_shutdown clears the debug tables store by store.  The text that is   *)
(* written is left out; what each line says is kept: the frame's symbol.   *)
(* Code and stack addresses are small naturals, 0 is the null pointer.     *)
(***************************************************************************)
EXTENDS Integers, Sequences, FiniteSets, SequencesExt

CONSTANTS
    Threads,
    Main,           \* the thread that starts the program and shuts it down
    Platforms,      \* a subset of {"win32", "posix"}
    FrameLimit,     \* a trace has at most this many frames (32)
    CodeAddrs,      \* where a fault may happen
    FramePointers,  \* what the frame pointer may hold then
    Memories,       \* stacks: address -> [next, ret, words], words the readable ones
    MaxGone,        \* bound: pages given back while the program runs
    Images,         \* debug tables: [functions, locations], sequences
    None

ASSUME CrashAssumption ==
    /\ IsFiniteSet(Threads) /\ Main \in Threads
    /\ FrameLimit \in Nat \ {0}
    /\ Platforms \subseteq {"win32", "posix"}
    /\ None \notin Threads

FunctionInfo == [start : Nat, end : Nat, name : STRING]
LocationInfo == [address : Nat, name : STRING]

\* Addresses are naturals; the debug tables are what a compiler writes: the
\* ranges of two functions do not overlap.
ASSUME DataAssumption ==
    /\ CodeAddrs \subseteq Nat /\ FramePointers \subseteq Nat
    /\ \A m \in Memories : m \in [DOMAIN m -> [next : Nat, ret : Nat, words : Nat]]
    /\ None \notin FunctionInfo \cup LocationInfo
    /\ \A i \in Images :
          /\ i.functions \in Seq(FunctionInfo) /\ i.locations \in Seq(LocationInfo)
          /\ \A j, k \in DOMAIN i.functions : j < k =>
                \/ i.functions[j].end <= i.functions[k].start
                \/ i.functions[k].end <= i.functions[j].start

Signals == {"SEGV", "FPE", "overflow"}    \* an overflow of the stack is a SEGV

(***************************************************************************)
(* The four globals that meth_runtime_debug_register_image stores, in that *)
(* order, and gc_shutdown clears in the same order.                        *)
(***************************************************************************)
Globals == <<"functions", "functionCount", "locations", "locationCount">>

VARIABLES
    platform, image,
    installed,      \* the handler is installed
    pipe,           \* POSIX: the pipe of the readability probe was created
    started,        \* the program runs: threads exist and may fault
    known,          \* how many of Globals hold the registered value
    clearing,       \* how many of them gc_shutdown has cleared
    memory,         \* the stack memory as it is now
    gone,           \* pages given back since the start
    in_handler,
    pc, sig,        \* where each thread is, and what it entered the handler with
    at,             \* program counter of the frame being printed
    frame, index,   \* loop variables of the walk
    function,       \* result of find_function for that frame
    shown,          \* the frame a thread printed last: [at, symbol]
    exit            \* "no", or how the process ended

image_vars == <<known, clearing>>
memory_vars == <<memory, gone>>
walk_vars == <<at, frame, index, function, shown>>
env_vars == <<platform, image, installed, pipe, started>>
vars == <<env_vars, image_vars, memory_vars, in_handler, pc, sig, walk_vars, exit>>

IsSet(g) == \E i \in 1..Len(Globals) : Globals[i] = g /\ clearing < i /\ i <= known

Alive == exit = "no"
Dead  == ~Alive

Init ==
    /\ platform \in Platforms
    /\ image \in Images
    /\ memory \in Memories
    /\ installed = FALSE /\ pipe = FALSE /\ started = FALSE
    /\ known = 0 /\ clearing = 0 /\ gone = {}
    /\ in_handler = FALSE
    /\ pc = [t \in Threads |-> "run"]
    /\ sig = [t \in Threads |-> None]
    /\ at = [t \in Threads |-> 0]
    /\ frame = [t \in Threads |-> 0]
    /\ index = [t \in Threads |-> 0]
    /\ function = [t \in Threads |-> None]
    /\ shown = [t \in Threads |-> None]
    /\ exit = "no"

-----------------------------------------------------------------------------
(***************************************************************************)
(* Symbols.  Both searches are loops over a table, as in the source.       *)
(***************************************************************************)
Inside(f, addr) == f.start <= addr /\ addr < f.end

\* The first entry whose range holds the address.
FindFunction(addr) ==
    LET hits == {i \in DOMAIN image.functions : Inside(image.functions[i], addr)}
    IN  IF hits = {} THEN None ELSE image.functions[Min(hits)]

\* Mutant: of equal addresses the first.
FindLocationFirst(addr, f) ==
    LET Better(best, l) ==
            IF (f # None => Inside(f, l.address)) /\ l.address <= addr
               /\ (best = None \/ l.address > best.address)
            THEN l ELSE best
    IN  FoldLeft(Better, None, image.locations)

\* Of the entries in the function's range (in any range, without a function)
\* at or below the address, the highest; of equal ones the last.
FindLocation(addr, f) ==
    LET Better(best, l) ==
            IF (f # None => Inside(f, l.address)) /\ l.address <= addr
               /\ (best = None \/ l.address >= best.address)
            THEN l ELSE best
    IN  FoldLeft(Better, None, image.locations)

Symbol(f, l) == IF l # None THEN l.name ELSE IF f # None THEN f.name ELSE "<unknown>"

-----------------------------------------------------------------------------
(***************************************************************************)
(* Start and end of the program, on the main thread.                       *)
(***************************************************************************)
Starting == Alive /\ ~started

\* meth_runtime_debug_install_crash_handler.  The pipe may fail to open,
\* which only shortens the traces.
Install ==
    /\ Starting /\ ~installed
    /\ installed' = TRUE
    /\ pipe' \in IF platform = "posix" THEN BOOLEAN ELSE {FALSE}
    /\ UNCHANGED <<platform, image, started, image_vars, memory_vars, in_handler, pc, sig, walk_vars, exit>>

\* One store of meth_runtime_debug_register_image.
Register ==
    /\ Starting /\ known < Len(Globals)
    /\ known' = known + 1
    /\ UNCHANGED <<env_vars, clearing, memory_vars, in_handler, pc, sig, walk_vars, exit>>

\* The program proper begins; it may have been built without debug tables.
Start ==
    /\ Starting /\ known \in {0, Len(Globals)}
    /\ started' = TRUE
    /\ UNCHANGED <<platform, image, installed, pipe, image_vars, memory_vars, in_handler, pc, sig, walk_vars, exit>>

Running(t) == Alive /\ started /\ pc[t] = "run"

\* One store of gc_shutdown's clearing of the tables.
ShutdownStore ==
    /\ Running(Main) /\ clearing < Len(Globals)
    /\ clearing' = clearing + 1
    /\ UNCHANGED <<env_vars, known, memory_vars, in_handler, pc, sig, walk_vars, exit>>

\* A running thread gives a page back: a stack of a joined thread, a large block.
Unmap(t, a) ==
    /\ Running(t) /\ memory[a].words # 0
    /\ Cardinality(gone) < MaxGone
    /\ memory' = [memory EXCEPT ![a].words = 0]
    /\ gone' = gone \cup {a}
    /\ UNCHANGED <<env_vars, image_vars, in_handler, pc, sig, walk_vars, exit>>

-----------------------------------------------------------------------------
(***************************************************************************)
(* Entering the handler.                                                   *)
(***************************************************************************)
Terminate(how) ==
    /\ exit' = how
    /\ UNCHANGED <<env_vars, image_vars, memory_vars, in_handler, pc, sig, walk_vars>>

Goto(t, label) == pc' = [pc EXCEPT ![t] = label]

EnterHandler(t, s, addr, fp) ==
    /\ Goto(t, "guard")
    /\ sig' = [sig EXCEPT ![t] = s]
    /\ at' = [at EXCEPT ![t] = addr]
    /\ frame' = [frame EXCEPT ![t] = fp]
    /\ UNCHANGED <<env_vars, image_vars, memory_vars, in_handler, index, function, shown, exit>>

\* sigaltstack holds for the thread that calls it: on any other a handler
\* has no stack left to run on after an overflow.
CanHandle(t, s) == s = "overflow" /\ platform = "posix" => t = Main

\* A signal or an exception of generated code; without a handler, or without
\* a stack for it, the system ends the process.
Fault(t, s, addr, fp) ==
    /\ Running(t)
    /\ CASE ~installed -> Terminate("default")
         [] installed /\ ~CanHandle(t, s) -> Terminate("overflow")
         [] installed /\ CanHandle(t, s) -> EnterHandler(t, s, addr, fp)

\* meth_runtime_debug_trap is called by generated code, installed or not.
Trap(t, addr, fp) ==
    /\ Running(t)
    /\ EnterHandler(t, "trap", addr, fp)

\* Mutant: the handler returns, and the instruction faults again.
GuardReturns(t) == pc[t] = "guard" /\ in_handler /\ UNCHANGED vars

\* InterlockedExchange on Windows: one step tests and sets the flag.
GuardTaken(t) ==
    /\ pc[t] = "guard" /\ in_handler
    /\ Terminate("guard")

\* Mutant: a test and a store on Windows too.
GuardTwoSteps(t) ==
    /\ pc[t] = "guard" /\ ~in_handler
    /\ Goto(t, "claim")
    /\ UNCHANGED <<env_vars, image_vars, memory_vars, in_handler, sig, walk_vars, exit>>

Guard(t) ==
    /\ pc[t] = "guard" /\ ~in_handler
    /\ Goto(t, IF platform = "win32" THEN "frame" ELSE "claim")
    /\ in_handler' = (platform = "win32")
    /\ UNCHANGED <<env_vars, image_vars, memory_vars, sig, walk_vars, exit>>

\* The plain store of the POSIX handler, a step after its test.
Claim(t) ==
    /\ pc[t] = "claim"
    /\ in_handler' = TRUE
    /\ Goto(t, "frame")
    /\ UNCHANGED <<env_vars, image_vars, memory_vars, sig, walk_vars, exit>>

\* A fault inside the handler.  A signal that is being handled is blocked
\* (sa_mask is empty, but SA_NODEFER is not set), so that the kernel ends the
\* process; any other enters the handler again and finds the flag set.
FaultInside(t) ==
    IF ~installed \/ (platform = "posix" /\ sig[t] \in {"SEGV", "overflow"})
    THEN Terminate("default")
    ELSE /\ Goto(t, "guard")
         /\ sig' = [sig EXCEPT ![t] = "SEGV"]
         /\ UNCHANGED <<env_vars, image_vars, memory_vars, in_handler, walk_vars, exit>>

-----------------------------------------------------------------------------
(***************************************************************************)
(* One frame: find_function, then find_location, each the read of a count  *)
(* and the reads of the table behind it.  A table that is cleared between  *)
(* the two reads is a null pointer with a positive count.                  *)
(***************************************************************************)
FunctionCount(t) ==
    /\ pc[t] = "frame"
    /\ Goto(t, IF IsSet("functionCount") THEN "functions" ELSE "place")
    /\ UNCHANGED <<env_vars, image_vars, memory_vars, in_handler, sig, walk_vars, exit>>

FunctionTable(t) ==
    /\ pc[t] = "functions"
    /\ IF IsSet("functions")
       THEN /\ function' = [function EXCEPT ![t] = FindFunction(at[t])]
            /\ Goto(t, "place")
            /\ UNCHANGED <<env_vars, image_vars, memory_vars, in_handler, sig, at, frame, index, shown, exit>>
       ELSE FaultInside(t)

PrintFrame(t, location) ==
    /\ shown' = [shown EXCEPT ![t] = [at |-> at[t], symbol |-> Symbol(function[t], location)]]
    /\ index' = [index EXCEPT ![t] = @ + 1]
    /\ function' = [function EXCEPT ![t] = None]
    /\ Goto(t, "probe")
    /\ UNCHANGED <<env_vars, image_vars, memory_vars, in_handler, sig, at, frame, exit>>

LocationCount(t) ==
    /\ pc[t] = "place"
    /\ IF IsSet("locationCount")
       THEN /\ Goto(t, "locations")
            /\ UNCHANGED <<env_vars, image_vars, memory_vars, in_handler, sig, walk_vars, exit>>
       ELSE PrintFrame(t, None)

LocationTable(t) ==
    /\ pc[t] = "locations"
    /\ IF IsSet("locations")
       THEN PrintFrame(t, FindLocation(at[t], function[t]))
       ELSE FaultInside(t)

-----------------------------------------------------------------------------
(***************************************************************************)
(* The walk: a frame is two words, the caller's frame and the return       *)
(* address.                                                                *)
(***************************************************************************)
FrameWords == 2

\* Mutant: one word is probed and two are read.
ReadableWord(a) ==
    /\ platform = "win32" \/ pipe
    /\ a \in DOMAIN memory /\ memory[a].words >= 1

\* meth_runtime_address_is_readable: VirtualQuery, or a write to the pipe;
\* the null pointer never is.
Readable(a) ==
    /\ platform = "win32" \/ pipe
    /\ a \in DOMAIN memory /\ memory[a].words >= FrameWords

Probe(t) ==
    /\ pc[t] = "probe"
    /\ Goto(t, IF index[t] < FrameLimit /\ Readable(frame[t]) THEN "deref" ELSE "end")
    /\ UNCHANGED <<env_vars, image_vars, memory_vars, in_handler, sig, walk_vars, exit>>

\* The two reads; the page may be gone since it was probed.
Deref(t) ==
    /\ pc[t] = "deref"
    /\ LET f == memory[frame[t]]
       IN  IF f.words < 2
           THEN FaultInside(t)
           ELSE /\ IF f.next <= frame[t] \/ f.ret = 0
                   THEN /\ Goto(t, "end")
                        /\ UNCHANGED <<at, frame>>
                   ELSE /\ Goto(t, "frame")
                        /\ at' = [at EXCEPT ![t] = f.ret - 1]
                        /\ frame' = [frame EXCEPT ![t] = f.next]
                /\ UNCHANGED <<env_vars, image_vars, memory_vars, in_handler, sig, index, function, shown, exit>>

Finish(t) ==
    /\ pc[t] = "end"
    /\ Terminate("report")

Handle(t) ==
    /\ Alive
    /\ \/ GuardTaken(t) \/ Guard(t) \/ Claim(t)
       \/ FunctionCount(t) \/ FunctionTable(t) \/ LocationCount(t) \/ LocationTable(t)
       \/ Probe(t) \/ Deref(t) \/ Finish(t)

Next ==
    \/ Install \/ Register \/ Start \/ ShutdownStore
    \/ \E t \in Threads :
        \/ \E a \in DOMAIN memory : Unmap(t, a)
        \/ \E addr \in CodeAddrs, fp \in FramePointers :
            \/ \E s \in Signals : Fault(t, s, addr, fp)
            \/ Trap(t, addr, fp)
        \/ Handle(t)

Spec == Init /\ [][Next]_vars
\* A thread in the handler is scheduled like any other.
FairSpec == Spec /\ \A t \in Threads : WF_vars(Handle(t))

-----------------------------------------------------------------------------
Labels == {"run", "guard", "claim", "frame", "functions", "place", "locations",
           "probe", "deref", "end"}

TypeOK ==
    /\ known \in 0..Len(Globals) /\ clearing \in 0..Len(Globals)
    /\ pc \in [Threads -> Labels]
    /\ sig \in [Threads -> Signals \cup {"trap", None}]
    /\ exit \in {"no", "report", "guard", "default", "overflow"}
    /\ \A t \in Threads : index[t] \in 0..FrameLimit

Handling(t) == pc[t] \notin {"run", "guard", "claim"} \/ shown[t] # None

(* On Windows the reports of two threads never mix: the exchange of gc.c:370 *)
(* and gc.c:565 lets one thread in.  (On POSIX the test and the store are    *)
(* two steps and two may enter.)                                             *)
OneReporter ==
    platform = "win32" => Cardinality({t \in Threads : Handling(t)}) <= 1

(* A process with the handler installed dies with a whole report, unless a   *)
(* second thread faulted, a page or a table went away under the walk, or the *)
(* stack of a thread without an alternative one overflowed: the walk itself  *)
(* never faults on what the chain of frames holds (gc.c:330-356).            *)
DeathIsReported ==
    (Dead /\ installed /\ exit # "report") =>
        \/ exit = "overflow"
        \/ Cardinality({t \in Threads : pc[t] # "run"}) > 1
        \/ \E t \in Threads : pc[t] # "run" /\ (frame[t] \in gone \/ clearing > 0)

(* With the tables in place a frame inside a function is reported at the     *)
(* nearest location of that function at or below it, or else by the name of  *)
(* the function (gc.c:244-279).                                              *)
NearestIn(f, addr) ==
    LET below == {i \in DOMAIN image.locations :
                    Inside(f, image.locations[i].address) /\ image.locations[i].address <= addr}
        Before(i, j) == \/ image.locations[i].address < image.locations[j].address
                        \/ image.locations[i].address = image.locations[j].address /\ i < j
    IN  IF below = {} THEN f.name
        ELSE image.locations[CHOOSE i \in below : \A j \in below \ {i} : Before(j, i)].name

FramesNamed ==
    (known = Len(Globals) /\ clearing = 0) =>
        \A t \in Threads : \A f \in Range(image.functions) :
            (shown[t] # None /\ Inside(f, shown[t].at)) =>
                shown[t].symbol = NearestIn(f, shown[t].at)

(* Whatever happens, a thread that has faulted ends the process: the walk    *)
(* terminates on every chain and no fault is taken for ever (gc.c:447-485).  *)
FaultEndsProcess == \A t \in Threads : pc[t] # "run" ~> Dead
=============================================================================
