------------------------------ MODULE OutputLog ------------------------------
(***************************************************************************)
(* The ring of lines behind the editor's Output panel,                     *)
(* src/engine/engine_output_log.mettle, as a value and the functions on    *)
(* it.  A line is a record [from, text]: who produced it and the sequence  *)
(* of its characters.  The severity guessed from the words of a line, the  *)
(* filter tabs and the scroll offset only choose what is drawn; they are   *)
(* left out.                                                               *)
(***************************************************************************)
EXTENDS Integers, Sequences

CONSTANTS
    Engine,     \* OUT_SRC_ENGINE
    LogLines,   \* OUT_LOG_LINES, 256
    LogCols     \* OUT_LOG_COLS, 200, with the NUL

ASSUME LogAssumption == LogLines \in Nat \ {0} /\ LogCols \in Nat \ {0}

\* output_log_init: a zeroed slot is an empty line of the engine
Blank == [from |-> Engine, text |-> <<>>]
EmptyLog == [slots |-> [i \in 0..(LogLines - 1) |-> Blank], head |-> 0, count |-> 0]

Upto(s, n) == SubSeq(s, 1, IF Len(s) < n THEN Len(s) ELSE n)

\* output_log_push_src.  Once the ring is full the newest line takes the
\* place of the oldest one and head moves on; count stays at the capacity.
Pushed(lg, line) ==
    LET full == lg.count >= LogLines
        slot == IF full THEN lg.head ELSE (lg.head + lg.count) % LogLines
    IN  [slots |-> [lg.slots EXCEPT
                      ![slot] = [line EXCEPT !.text = Upto(@, LogCols - 1)]],
         head  |-> IF full THEN (lg.head + 1) % LogLines ELSE lg.head,
         count |-> IF full THEN lg.count ELSE lg.count + 1]

\* output_log_line for every i: the live lines, oldest first
Shown(lg) == [i \in 1..lg.count |-> lg.slots[(lg.head + i - 1) % LogLines]]
=============================================================================
