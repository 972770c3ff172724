----------------------------- MODULE CodeEditor -----------------------------
(***************************************************************************)
(* The modal code editor of src/engine/engine_game_tree.mettle: the buffer *)
(* with its caret and selection, the undo log with its arena, load, save   *)
(* and Esc.  Every operation of the code is a function from the CodeEditor *)
(* struct to the CodeEditor struct; an action is a frame with one key.     *)
(*                                                                         *)
(* A buffer is the sequence of its first `length` bytes; positions count   *)
(* from 0 as in the code.  Scrolling, the blinking caret and the pixels    *)
(* are left out, and so is where a caret motion leads: to any position of  *)
(* the text.  A press, a drag and a release of the mouse do what a motion  *)
(* and motions with Shift do, as long as no key comes in between.          *)
(***************************************************************************)
EXTENDS Integers, Sequences

CONSTANTS
    Chars,          \* the bytes of a script
    Typed,          \*   ... of which these are typed
    CR,             \* the carriage return, which only the clipboard brings
    Clips,          \* what may be on the clipboard
    Files,          \* what may be in a file that is opened
    Nil,            \* a byte of the arena that no record owns
    CodeCap,        \* GT_CODE_CAP, 65536
    RecCap,         \* rec_cap, 2048
    ArenaCap,       \* arena_cap, 262144
    Beyond          \* the model goes on where the log cannot replay any more

ASSUME EditorAssumption ==
    /\ Typed \subseteq Chars /\ CR \notin Chars /\ Nil \notin Chars
    /\ Files \subseteq Seq(Chars) /\ Clips \subseteq Seq(Chars \cup {CR})
    /\ {CodeCap, RecCap, ArenaCap} \subseteq Nat \ {0}
    /\ Beyond \in BOOLEAN

VARIABLES
    ed,             \* the CodeEditor struct with its UndoLog, and two fields
                    \* that the code has not: lost, the last frame gave the
                    \* history up, and missed, the log lacks a deletion
    disk            \* what the last load got of the file, or the last save put
                    \* in it, followed while the buffer counts as saved; Nil
                    \* once it does not, or a write was cut short

vars == <<ed, disk>>

Upto(s, n) == SubSeq(s, 1, IF Len(s) < n THEN Len(s) ELSE n)
Least(m, n) == IF m < n THEN m ELSE n
Biggest(S) == CHOOSE m \in S : \A n \in S : n <= m

NoBytes == [k \in 0..(ArenaCap - 1) |-> Nil]

-----------------------------------------------------------------------------
(***************************************************************************)
(* The undo log.  count is the length of recs.                             *)
(***************************************************************************)
Insertion == 1
Deletion == 2

\* gt_undo_reset; what is left in the arena is not read any more.
Reset(e) == [e EXCEPT !.recs = <<>>, !.cursor = 0, !.used = 0, !.arena = NoBytes,
                      !.lost = TRUE]

Stash(rec) == rec.off..(rec.off + rec.len - 1)

\* gt_undo_truncate: the records at the cursor and behind it go.  If there
\* are any, the arena is used up to the end of the last stash that a
\* remaining DELETION owns.
Truncate(e) ==
    LET kept == SubSeq(e.recs, 1, e.cursor)
        ends == {kept[i].off + kept[i].len : i \in {j \in DOMAIN kept : kept[j].kind = Deletion}}
    IN  [e EXCEPT !.recs = kept,
                  !.used = IF e.cursor < Len(e.recs) THEN Biggest(ends \cup {0}) ELSE @,
                  !.arena = [k \in DOMAIN @ |->
                               IF \E i \in DOMAIN kept : k \in Stash(kept[i])
                               THEN @[k] ELSE Nil]]

\* A new record with its bytes at the end of the arena
Recorded(e, kind, pos, bytes) ==
    LET off == e.used
        n == Len(bytes)
    IN  [e EXCEPT !.arena = [k \in DOMAIN @ |->
                               IF k \in off..(off + n - 1) THEN bytes[k - off + 1] ELSE @[k]],
                  !.used = off + n,
                  !.recs = Append(@, [kind |-> kind, pos |-> pos, len |-> n, off |-> off]),
                  !.cursor = Len(e.recs) + 1]

\* Mutant: any insertion joins the one before it.
CoalescesAnywhere(e, pos) ==
    /\ e.recs # <<>> /\ e.recs[Len(e.recs)].kind = Insertion
    /\ e.used < ArenaCap

\* Single insertions carry coalesce = 1: the next one may join if it goes on
\* where the record ends and the arena has room.
Coalesces(e, pos) ==
    /\ e.recs # <<>>
    /\ LET prev == e.recs[Len(e.recs)]
       IN  prev.kind = Insertion /\ prev.pos + prev.len = pos
    /\ e.used < ArenaCap

\* The byte goes behind the record's stash, and used grows by one.
Joined(e, byte) ==
    LET last == Len(e.recs)
        prev == e.recs[last]
    IN  [e EXCEPT !.arena = [k \in DOMAIN @ |->
                               IF k = prev.off + prev.len THEN byte ELSE @[k]],
                  !.used = @ + 1,
                  !.recs[last].len = @ + 1,
                  !.cursor = last]

\* gt_undo_push_insert, for the one byte that every caller inserts
PushInsert(e, pos, byte) ==
    LET t == Truncate(e)
        r == IF Len(t.recs) >= RecCap THEN Reset(t) ELSE t
    IN  IF Coalesces(t, pos) THEN Joined(t, byte)
        ELSE IF r.used + 1 > ArenaCap THEN Reset(r)
        ELSE Recorded(r, Insertion, pos, <<byte>>)

\* gt_undo_push_delete: without room in the arena the history is given up;
\* a full list of records takes no more, and what was recorded stays.
PushDelete(e, pos, bytes) ==
    LET t == Truncate(e)
        r == IF t.used + Len(bytes) > ArenaCap THEN Reset(t) ELSE t
    IN  IF Len(r.recs) >= RecCap THEN [r EXCEPT !.missed = TRUE]
        ELSE Recorded(r, Deletion, pos, bytes)

\* gt_buf_delete_raw and gt_buf_insert_raw
Without(buf, pos, n) == SubSeq(buf, 1, pos) \o SubSeq(buf, pos + n + 1, Len(buf))
With(buf, pos, bytes) ==
    IF Len(buf) + Len(bytes) >= CodeCap - 1 THEN buf
    ELSE SubSeq(buf, 1, pos) \o bytes \o SubSeq(buf, pos + 1, Len(buf))

Saved(e, rec) == [i \in 1..rec.len |-> e.arena[rec.off + i - 1]]

\* The text after a record is undone in buf, and after it is done again
Undone(e, buf, rec) ==
    IF rec.kind = Insertion THEN Without(buf, rec.pos, rec.len)
    ELSE With(buf, rec.pos, Saved(e, rec))
Redone(e, buf, rec) ==
    IF rec.kind = Insertion THEN With(buf, rec.pos, Saved(e, rec))
    ELSE Without(buf, rec.pos, rec.len)

DirtiedByEdits(e) == [e EXCEPT !.sel = FALSE]   \* mutant
Dirtied(e) == [e EXCEPT !.sel = FALSE, !.dirty = TRUE]

\* gt_editor_undo and gt_editor_redo; neither disarms Esc.
UndoOne(e) ==
    IF e.cursor = 0 THEN e
    ELSE LET rec == e.recs[e.cursor]
         IN  Dirtied([e EXCEPT !.cursor = @ - 1,
                               !.buf = Undone(e, @, rec),
                               !.caret = IF rec.kind = Insertion THEN rec.pos
                                         ELSE rec.pos + rec.len])

RedoOne(e) ==
    IF e.cursor = Len(e.recs) THEN e
    ELSE LET rec == e.recs[e.cursor + 1]
         IN  Dirtied([e EXCEPT !.cursor = @ + 1,
                               !.buf = Redone(e, @, rec),
                               !.caret = IF rec.kind = Insertion THEN rec.pos + rec.len
                                         ELSE rec.pos])

-----------------------------------------------------------------------------
(***************************************************************************)
(* Selection and edits.                                                    *)
(***************************************************************************)
HasSelection(e) == e.sel /\ e.anchor # e.caret
Lo(e) == Least(e.anchor, e.caret)
Hi(e) == e.anchor + e.caret - Lo(e)

Edited(e) == [e EXCEPT !.sel = FALSE, !.dirty = TRUE, !.warned = FALSE]

\* Mutant: the caret stays where it was.
CutKeepsCaret(e, pos, n) ==
    LET r == PushDelete(e, pos, SubSeq(e.buf, pos + 1, pos + n))
    IN  Edited([r EXCEPT !.buf = Without(@, pos, n)])

\* The bytes from pos on go, into the log and out of the buffer.
Cut(e, pos, n) ==
    LET r == PushDelete(e, pos, SubSeq(e.buf, pos + 1, pos + n))
    IN  Edited([r EXCEPT !.buf = Without(@, pos, n), !.caret = pos])

\* gt_editor_delete_selection
DeleteSelection(e) ==
    IF HasSelection(e) THEN Cut(e, Lo(e), Hi(e) - Lo(e)) ELSE [e EXCEPT !.sel = FALSE]

\* gt_editor_insert: a full buffer takes nothing, but the selection is gone.
Insert(e, byte) ==
    LET d == DeleteSelection(e)
        placed == [d EXCEPT !.buf = With(@, d.caret, <<byte>>), !.caret = @ + 1]
    IN  IF Len(d.buf) + 1 >= CodeCap - 1 THEN d
        ELSE Edited(PushInsert(placed, d.caret, byte))

\* gt_editor_backspace
Backspace(e) ==
    IF HasSelection(e) THEN DeleteSelection(e)
    ELSE IF e.caret > 0 THEN Cut(e, e.caret - 1, 1)
    ELSE [e EXCEPT !.sel = FALSE]

\* The Delete key steps over the byte and takes it back.
ForwardDelete(e) ==
    IF HasSelection(e) THEN DeleteSelection(e)
    ELSE IF e.caret < Len(e.buf) THEN Backspace([e EXCEPT !.caret = @ + 1])
    ELSE e

\* gt_editor_clipboard_paste: byte by byte, without the carriage returns
Paste(e, clip) ==
    LET pasted[k \in 0..Len(clip)] ==
            IF k = 0 THEN DeleteSelection(e)
            ELSE IF clip[k] = CR THEN pasted[k - 1]
            ELSE Insert(pasted[k - 1], clip[k])
    IN  pasted[Len(clip)]

SelectAll(e) == [e EXCEPT !.anchor = 0, !.caret = Len(e.buf), !.sel = TRUE]

\* A caret motion leads to n; with Shift it opens or extends the selection.
Moved(e, n, shift) ==
    LET from == IF shift /\ ~e.sel THEN e.caret ELSE e.anchor
    IN  [e EXCEPT !.caret = n, !.anchor = from, !.sel = shift /\ n # from]

-----------------------------------------------------------------------------
(***************************************************************************)
(* Frames.                                                                 *)
(***************************************************************************)
Closed == [buf |-> <<>>, caret |-> 0, anchor |-> 0, sel |-> FALSE, dirty |-> FALSE,
           warned |-> FALSE, open |-> FALSE,
           recs |-> <<>>, cursor |-> 0, used |-> 0, arena |-> NoBytes,
           lost |-> FALSE, missed |-> FALSE]

Init ==
    /\ ed = Closed
    /\ disk = Nil

Positions(e) == 0..Len(e.buf)

\* game_tree_editor_drag_end, which follows in every frame; the anchor of no
\* selection is ignored, and kept at 0 here.
Ended(e) == IF HasSelection(e) THEN e ELSE [e EXCEPT !.sel = FALSE, !.anchor = 0]

\* A frame in which game_tree_editor_input turns ed into e
Frame(e) ==
    /\ ed.open
    /\ ed' = Ended(e)
    /\ disk' = IF e.dirty THEN Nil ELSE disk

Fresh == [ed EXCEPT !.lost = FALSE]

Type == \E byte \in Typed : Frame(Insert(Fresh, byte))
Erase == Frame(Backspace(Fresh)) \/ Frame(ForwardDelete(Fresh))
PasteClip == \E clip \in Clips : Frame(Paste(Fresh, clip))
CutClip == HasSelection(ed) /\ Frame(DeleteSelection(Fresh))
Undo == Frame(UndoOne(Fresh))
Redo == Frame(RedoOne(Fresh))
Select == Frame(SelectAll(Fresh))
Move == \E n \in Positions(ed), shift \in BOOLEAN : Frame(Moved(Fresh, n, shift))

\* The first Esc on a dirty buffer warns, the next one closes; nothing that
\* is left in the struct outlives the next load.
Escape ==
    IF ed.dirty /\ ~ed.warned THEN Frame([Fresh EXCEPT !.warned = TRUE])
    ELSE Frame(Closed)

\* gt_editor_save: fopen may fail, and then nothing changes; fwrite may stop
\* early, and nobody looks.
Save ==
    /\ ed.open
    /\ ed' = [Fresh EXCEPT !.dirty = FALSE, !.warned = FALSE]
    /\ disk' \in {ed.buf, Nil}

\* What fopen and fread may give of a file: nothing when it cannot be opened,
\* and otherwise as much as is read before the end, an error or the limit.
Reads(text) == {Upto(text, n) : n \in 0..(CodeCap - 1)}

\* A script is opened from the tree: gt_editor_load_file, which opens the
\* editor, and takes the mark away, whatever it could read.
Loaded(bytes) == [Closed EXCEPT !.buf = bytes, !.open = TRUE]

Load ==
    /\ ~ed.open
    /\ \E text \in Files : \E bytes \in Reads(text) :
          ed' = Loaded(bytes) /\ disk' = bytes

\* No two stashes overlap, and all lie in the part of the arena that is used.
StashesApart ==
    /\ \A i, j \in DOMAIN ed.recs : i < j => ed.recs[i].off + ed.recs[i].len <= ed.recs[j].off
    /\ \A i \in DOMAIN ed.recs : ed.recs[i].off + ed.recs[i].len <= ed.used

\* The log can replay what it has recorded.
LogReplays == StashesApart /\ ~ed.missed

Next ==
    /\ Beyond \/ LogReplays
    /\ \/ Type \/ Erase \/ PasteClip \/ CutClip \/ Undo \/ Redo
       \/ Select \/ Move \/ Escape \/ Save \/ Load

Spec == Init /\ [][Next]_vars

-----------------------------------------------------------------------------
(***************************************************************************)
(* Properties.                                                             *)
(***************************************************************************)
\* The texts that Ctrl+Z and Ctrl+Y go through from here
Back == LET t[k \in 0..ed.cursor] ==
              IF k = 0 THEN ed.buf
              ELSE Undone(ed, t[k - 1], ed.recs[ed.cursor - k + 1])
        IN  [i \in 1..ed.cursor |-> t[ed.cursor - i + 1]]
Forth == LET n == Len(ed.recs) - ed.cursor
             t[k \in 0..n] == IF k = 0 THEN ed.buf
                              ELSE Redone(ed, t[k - 1], ed.recs[ed.cursor + k])
         IN  [i \in 1..n |-> t[i]]

History == INSTANCE UndoHistory WITH text <- ed.buf, past <- Back, future <- Forth,
                                lost <- ed.lost

\* "Both kinds stash the affected bytes in the arena so undo AND redo can
\* replay exactly": whatever is typed, pasted, cut, undone and redone, the
\* texts in the past stay what they were.
ReplaysExactly == [][History!Next]_<<ed.buf, Back, Forth>>

\* The same for as long as no two stashes overlap and no deletion has found
\* the list of records full; most frames touch neither the text nor the log.
HistoryExact ==
    [][\/ UNCHANGED <<ed.buf, ed.recs, ed.cursor>>
       \/ LogReplays' => [History!Next]_<<ed.buf, Back, Forth>>]_ed

\* The caret and the selection are inside the text, and no undo removes
\* bytes that are not there, as long as no deletion is missing in the log:
\* length and caret can be used as indices without a check, as every operation
\* does (gt_editor_undo, gt_buf_delete_raw, gt_editor_backspace).
InsideText ==
    ~ed.missed =>
      /\ Len(ed.buf) < CodeCap
      /\ ed.caret \in Positions(ed)
      /\ ed.sel => ed.anchor \in Positions(ed)
      /\ \A i \in 1..ed.cursor : ed.recs[i].kind = Insertion =>
            LET after == IF i = ed.cursor THEN ed.buf ELSE Back[i + 1]
            IN  ed.recs[i].pos + ed.recs[i].len <= Len(after)

\* The files leave room for what an undo puts back: gt_editor_load_file takes
\* one byte more than gt_buf_insert_raw.
FilesFit == \A text \in Files : Len(text) < CodeCap - 1

\* A buffer without the mark "*unsaved" is what the last save wrote, or as much
\* of the file as the last load got, which is nothing of a file that cannot be
\* opened, unless the last write was cut short (dirty, gt_editor_save,
\* gt_editor_load_file).
CleanIsSaved ==
    ed.open /\ ~ed.dirty /\ disk # Nil => ed.buf = disk
=============================================================================
