---------------------------- MODULE EditorProofs ----------------------------
(***************************************************************************)
(* Proofs about the editor's script (CodeEditor), for any bytes, files,    *)
(* clipboards and sizes of the buffer, the list of records and the arena,  *)
(* and about the scene it edits with its files (SceneModel), for tables of *)
(* any size.                                                               *)
(*                                                                         *)
(* What a record does to the text depends on the text's length only, so    *)
(* InsideText rests on a chain of lengths: Chain gives for every place in  *)
(* the list of records the length of the text there.                       *)
(*                                                                         *)
(* HistoryExact rests on the texts themselves: Tells says that the records *)
(* with their stashes lead from text to text.  A frame is followed edit by *)
(* edit (InFrame): untouched, trimmed by a cut, or typing.                 *)
(*                                                                         *)
(* ReferencesHold rests on TableInv: the rows have different ids, the      *)
(* parent of each is one of them or none, and no way up the parents comes  *)
(* back in as many steps as the search for a descendant takes (NoRing).    *)
(* The rows of a file are followed one by one into the table they load     *)
(* into; a patch of the terrain that is clean holds its file (MapInv).     *)
(***************************************************************************)
EXTENDS MCEditor, SequenceTheorems, FiniteSetTheorems, WellFoundedInduction, TLAPS

-----------------------------------------------------------------------------
(* The struct *)

\* An editor's fields, whatever is in them
EditorSet(S) ==
  [buf : S, caret : S, anchor : S, sel : BOOLEAN, dirty : BOOLEAN, warned : BOOLEAN,
   open : BOOLEAN, recs : S, cursor : S, used : S, arena : S, lost : BOOLEAN,
   missed : BOOLEAN]
IsEditor(e) == \E S : e \in EditorSet(S)

\* The log may have changed, the text has not.
SameText(e, r) ==
  /\ IsEditor(r)
  /\ r.buf = e.buf /\ r.caret = e.caret /\ r.anchor = e.anchor /\ r.sel = e.sel
  /\ r.dirty = e.dirty /\ r.open = e.open

LogSet(e, a, b, c, d) ==
  [e EXCEPT !.recs = a, !.cursor = b, !.used = c, !.arena = d]

\* A field at a time: the records, the cursor, the arena
LEMMA SetLog ==
  ASSUME NEW e, IsEditor(e), NEW a, NEW b, NEW c, NEW d
  PROVE  LET r == LogSet(e, a, b, c, d)
         IN  SameText(e, r) /\ r.recs = a /\ r.cursor = b /\ r.missed = e.missed
<1>1. PICK S : e \in EditorSet(S)
  BY DEF IsEditor
<1> DEFINE T == S \cup {a, b, c, d}
           r == LogSet(e, a, b, c, d)
<1>2. r \in EditorSet(T)
  BY <1>1 DEF LogSet, EditorSet
<1>3. /\ r.buf = e.buf /\ r.caret = e.caret /\ r.anchor = e.anchor /\ r.sel = e.sel
      /\ r.dirty = e.dirty /\ r.open = e.open
  BY <1>1 DEF LogSet, EditorSet
<1>4. r.recs = a /\ r.cursor = b /\ r.missed = e.missed
  BY <1>1 DEF LogSet, EditorSet
<1> HIDE DEF r
<1>5. IsEditor(r)
  BY <1>2 DEF IsEditor
<1>6. SameText(e, r) /\ r.recs = a /\ r.cursor = b /\ r.missed = e.missed
  BY <1>3, <1>4, <1>5 DEF SameText
<1> QED BY <1>6 DEF r

LostSet(e, a, b, c, d) ==
  [e EXCEPT !.recs = a, !.cursor = b, !.used = c, !.arena = d, !.lost = TRUE]

\* A reset says so.
LEMMA SetLost ==
  ASSUME NEW e, IsEditor(e), NEW a, NEW b, NEW c, NEW d
  PROVE  LET r == LostSet(e, a, b, c, d)
         IN  SameText(e, r) /\ r.recs = a /\ r.cursor = b /\ r.missed = e.missed
<1>1. PICK S : e \in EditorSet(S)
  BY DEF IsEditor
<1> DEFINE T == S \cup {a, b, c, d}
           r == LostSet(e, a, b, c, d)
<1>2. r \in EditorSet(T)
  BY <1>1 DEF LostSet, EditorSet
<1>3. /\ r.buf = e.buf /\ r.caret = e.caret /\ r.anchor = e.anchor /\ r.sel = e.sel
      /\ r.dirty = e.dirty /\ r.open = e.open
  BY <1>1 DEF LostSet, EditorSet
<1>4. r.recs = a /\ r.cursor = b /\ r.missed = e.missed
  BY <1>1 DEF LostSet, EditorSet
<1> HIDE DEF r
<1>5. IsEditor(r)
  BY <1>2 DEF IsEditor
<1>6. SameText(e, r) /\ r.recs = a /\ r.cursor = b /\ r.missed = e.missed
  BY <1>3, <1>4, <1>5 DEF SameText
<1> QED BY <1>6 DEF r

TruncatedSet(e, a, c, d) ==
  [e EXCEPT !.recs = a, !.used = c, !.arena = d]

\* A truncation leaves the cursor.
LEMMA SetTruncated ==
  ASSUME NEW e, IsEditor(e), NEW a, NEW c, NEW d
  PROVE  LET r == TruncatedSet(e, a, c, d)
         IN  SameText(e, r) /\ r.recs = a /\ r.cursor = e.cursor /\ r.missed = e.missed
<1>1. PICK S : e \in EditorSet(S)
  BY DEF IsEditor
<1> DEFINE T == S \cup {a, c, d}
           r == TruncatedSet(e, a, c, d)
<1>2. r \in EditorSet(T)
  BY <1>1 DEF TruncatedSet, EditorSet
<1>3. /\ r.buf = e.buf /\ r.caret = e.caret /\ r.anchor = e.anchor /\ r.sel = e.sel
      /\ r.dirty = e.dirty /\ r.open = e.open
  BY <1>1 DEF TruncatedSet, EditorSet
<1>4. r.recs = a /\ r.cursor = e.cursor
      /\ r.missed = e.missed
  BY <1>1 DEF TruncatedSet, EditorSet
<1> HIDE DEF r
<1>5. IsEditor(r)
  BY <1>2 DEF IsEditor
<1>6. SameText(e, r) /\ r.recs = a /\ r.cursor = e.cursor
      /\ r.missed = e.missed
  BY <1>3, <1>4, <1>5 DEF SameText
<1> QED BY <1>6 DEF r

\* A deletion that finds the list full
LEMMA SetMissed ==
  ASSUME NEW e, IsEditor(e)
  PROVE  LET r == [e EXCEPT !.missed = TRUE]
         IN  SameText(e, r) /\ r.recs = e.recs /\ r.cursor = e.cursor /\ r.missed = TRUE
<1>1. PICK S : e \in EditorSet(S)
  BY DEF IsEditor
<1> DEFINE T == S
           r == [e EXCEPT !.missed = TRUE]
<1>2. r \in EditorSet(T)
  BY <1>1 DEF EditorSet
<1>3. /\ r.buf = e.buf /\ r.caret = e.caret /\ r.anchor = e.anchor /\ r.sel = e.sel
      /\ r.dirty = e.dirty /\ r.open = e.open
  BY <1>1 DEF EditorSet
<1>4. r.recs = e.recs /\ r.cursor = e.cursor /\ r.missed = TRUE
  BY <1>1 DEF EditorSet
<1> HIDE DEF r
<1>5. IsEditor(r)
  BY <1>2 DEF IsEditor
<1>6. SameText(e, r) /\ r.recs = e.recs /\ r.cursor = e.cursor /\ r.missed = TRUE
  BY <1>3, <1>4, <1>5 DEF SameText
<1> QED BY <1>6 DEF r

TextSet(e, a, b) ==
  [e EXCEPT !.buf = a, !.caret = b]

\* An edit of the text
LEMMA SetText ==
  ASSUME NEW e, IsEditor(e), NEW a, NEW b
  PROVE  LET r == TextSet(e, a, b)
         IN  /\ IsEditor(r)
             /\ r.anchor = e.anchor /\ r.sel = e.sel /\ r.dirty = e.dirty /\ r.open = e.open
             /\ r.recs = e.recs /\ r.cursor = e.cursor /\ r.missed = e.missed
             /\ r.buf = a /\ r.caret = b
<1>1. PICK S : e \in EditorSet(S)
  BY DEF IsEditor
<1> DEFINE T == S \cup {a, b}
           r == TextSet(e, a, b)
<1>2. r \in EditorSet(T)
  BY <1>1 DEF TextSet, EditorSet
<1>3. /\ r.anchor = e.anchor /\ r.sel = e.sel /\ r.dirty = e.dirty /\ r.open = e.open
      /\ r.recs = e.recs /\ r.cursor = e.cursor /\ r.missed = e.missed
      /\ r.buf = a /\ r.caret = b
  BY <1>1 DEF TextSet, EditorSet
<1> HIDE DEF r
<1>4. IsEditor(r)
  BY <1>2 DEF IsEditor
<1> QED BY <1>3, <1>4 DEF r

\* ... which marks it as unsaved
LEMMA SetEdited ==
  ASSUME NEW e, IsEditor(e)
  PROVE  LET r == Edited(e)
         IN  /\ IsEditor(r)
             /\ r.buf = e.buf /\ r.caret = e.caret /\ r.anchor = e.anchor /\ r.open = e.open
             /\ r.recs = e.recs /\ r.cursor = e.cursor /\ r.missed = e.missed
             /\ r.sel = FALSE /\ r.dirty = TRUE
<1>1. PICK S : e \in EditorSet(S)
  BY DEF IsEditor
<1> DEFINE T == S
           r == Edited(e)
<1>2. r \in EditorSet(T)
  BY <1>1 DEF Edited, EditorSet
<1>3. /\ r.buf = e.buf /\ r.caret = e.caret /\ r.anchor = e.anchor /\ r.open = e.open
      /\ r.recs = e.recs /\ r.cursor = e.cursor /\ r.missed = e.missed
      /\ r.sel = FALSE /\ r.dirty = TRUE
  BY <1>1 DEF Edited, EditorSet
<1> HIDE DEF r
<1>4. IsEditor(r)
  BY <1>2 DEF IsEditor
<1> QED BY <1>3, <1>4 DEF r

ReplayedSet(e, a, b, c) ==
  [e EXCEPT !.cursor = a, !.buf = b, !.caret = c, !.sel = FALSE, !.dirty = TRUE]

CaretSet(e, a) ==
  [e EXCEPT !.caret = a]

\* A step of the caret
LEMMA SetCaret ==
  ASSUME NEW e, IsEditor(e), NEW a
  PROVE  LET r == CaretSet(e, a)
         IN  /\ IsEditor(r)
             /\ r.buf = e.buf /\ r.anchor = e.anchor /\ r.sel = e.sel /\ r.dirty = e.dirty
             /\ r.open = e.open /\ r.recs = e.recs /\ r.cursor = e.cursor /\ r.missed = e.missed
             /\ r.caret = a
<1>1. PICK S : e \in EditorSet(S)
  BY DEF IsEditor
<1> DEFINE T == S \cup {a}
           r == CaretSet(e, a)
<1>2. r \in EditorSet(T)
  BY <1>1 DEF CaretSet, EditorSet
<1>3. /\ r.buf = e.buf /\ r.anchor = e.anchor /\ r.sel = e.sel /\ r.dirty = e.dirty
      /\ r.open = e.open /\ r.recs = e.recs /\ r.cursor = e.cursor /\ r.missed = e.missed
      /\ r.caret = a
  BY <1>1 DEF CaretSet, EditorSet
<1> HIDE DEF r
<1>4. IsEditor(r)
  BY <1>2 DEF IsEditor
<1> QED BY <1>3, <1>4 DEF r

NoSelectionSet(e) ==
  [e EXCEPT !.sel = FALSE]

\* No selection
LEMMA SetNoSelection ==
  ASSUME NEW e, IsEditor(e)
  PROVE  LET r == NoSelectionSet(e)
         IN  /\ IsEditor(r)
             /\ r.buf = e.buf /\ r.caret = e.caret /\ r.anchor = e.anchor /\ r.dirty = e.dirty
             /\ r.open = e.open /\ r.recs = e.recs /\ r.cursor = e.cursor /\ r.missed = e.missed
             /\ r.sel = FALSE
<1>1. PICK S : e \in EditorSet(S)
  BY DEF IsEditor
<1> DEFINE T == S
           r == NoSelectionSet(e)
<1>2. r \in EditorSet(T)
  BY <1>1 DEF NoSelectionSet, EditorSet
<1>3. /\ r.buf = e.buf /\ r.caret = e.caret /\ r.anchor = e.anchor /\ r.dirty = e.dirty
      /\ r.open = e.open /\ r.recs = e.recs /\ r.cursor = e.cursor /\ r.missed = e.missed
      /\ r.sel = FALSE
  BY <1>1 DEF NoSelectionSet, EditorSet
<1> HIDE DEF r
<1>4. IsEditor(r)
  BY <1>2 DEF IsEditor
<1> QED BY <1>3, <1>4 DEF r

NoAnchorSet(e) ==
  [e EXCEPT !.sel = FALSE, !.anchor = 0]

\* ... and no anchor
LEMMA SetNoAnchor ==
  ASSUME NEW e, IsEditor(e)
  PROVE  LET r == NoAnchorSet(e)
         IN  /\ IsEditor(r)
             /\ r.buf = e.buf /\ r.caret = e.caret /\ r.dirty = e.dirty /\ r.open = e.open
             /\ r.recs = e.recs /\ r.cursor = e.cursor /\ r.missed = e.missed
             /\ r.anchor = 0 /\ r.sel = FALSE
<1>1. PICK S : e \in EditorSet(S)
  BY DEF IsEditor
<1> DEFINE T == S \cup {0}
           r == NoAnchorSet(e)
<1>2. r \in EditorSet(T)
  BY <1>1 DEF NoAnchorSet, EditorSet
<1>3. /\ r.buf = e.buf /\ r.caret = e.caret /\ r.dirty = e.dirty /\ r.open = e.open
      /\ r.recs = e.recs /\ r.cursor = e.cursor /\ r.missed = e.missed
      /\ r.anchor = 0 /\ r.sel = FALSE
  BY <1>1 DEF NoAnchorSet, EditorSet
<1> HIDE DEF r
<1>4. IsEditor(r)
  BY <1>2 DEF IsEditor
<1> QED BY <1>3, <1>4 DEF r

SelectedSet(e, a, b) ==
  [e EXCEPT !.anchor = a, !.caret = b, !.sel = TRUE]

\* A selection
LEMMA SetSelected ==
  ASSUME NEW e, IsEditor(e), NEW a, NEW b
  PROVE  LET r == SelectedSet(e, a, b)
         IN  /\ IsEditor(r)
             /\ r.buf = e.buf /\ r.dirty = e.dirty /\ r.open = e.open /\ r.recs = e.recs
             /\ r.cursor = e.cursor /\ r.missed = e.missed
             /\ r.caret = b /\ r.anchor = a /\ r.sel = TRUE
<1>1. PICK S : e \in EditorSet(S)
  BY DEF IsEditor
<1> DEFINE T == S \cup {a, b}
           r == SelectedSet(e, a, b)
<1>2. r \in EditorSet(T)
  BY <1>1 DEF SelectedSet, EditorSet
<1>3. /\ r.buf = e.buf /\ r.dirty = e.dirty /\ r.open = e.open /\ r.recs = e.recs
      /\ r.cursor = e.cursor /\ r.missed = e.missed
      /\ r.caret = b /\ r.anchor = a /\ r.sel = TRUE
  BY <1>1 DEF SelectedSet, EditorSet
<1> HIDE DEF r
<1>4. IsEditor(r)
  BY <1>2 DEF IsEditor
<1> QED BY <1>3, <1>4 DEF r

UnselectedSet(e, a, b) ==
  [e EXCEPT !.caret = b, !.anchor = a, !.sel = FALSE]

\* A caret with an anchor that does not count
LEMMA SetUnselected ==
  ASSUME NEW e, IsEditor(e), NEW a, NEW b
  PROVE  LET r == UnselectedSet(e, a, b)
         IN  /\ IsEditor(r)
             /\ r.buf = e.buf /\ r.dirty = e.dirty /\ r.open = e.open /\ r.recs = e.recs
             /\ r.cursor = e.cursor /\ r.missed = e.missed
             /\ r.caret = b /\ r.anchor = a /\ r.sel = FALSE
<1>1. PICK S : e \in EditorSet(S)
  BY DEF IsEditor
<1> DEFINE T == S \cup {a, b}
           r == UnselectedSet(e, a, b)
<1>2. r \in EditorSet(T)
  BY <1>1 DEF UnselectedSet, EditorSet
<1>3. /\ r.buf = e.buf /\ r.dirty = e.dirty /\ r.open = e.open /\ r.recs = e.recs
      /\ r.cursor = e.cursor /\ r.missed = e.missed
      /\ r.caret = b /\ r.anchor = a /\ r.sel = FALSE
  BY <1>1 DEF UnselectedSet, EditorSet
<1> HIDE DEF r
<1>4. IsEditor(r)
  BY <1>2 DEF IsEditor
<1> QED BY <1>3, <1>4 DEF r

WarnedSet(e) ==
  [e EXCEPT !.warned = TRUE]

\* The warning before Esc closes
LEMMA SetWarned ==
  ASSUME NEW e, IsEditor(e)
  PROVE  LET r == WarnedSet(e)
         IN  /\ IsEditor(r)
             /\ r.buf = e.buf /\ r.caret = e.caret /\ r.anchor = e.anchor /\ r.sel = e.sel
             /\ r.dirty = e.dirty /\ r.open = e.open /\ r.recs = e.recs /\ r.cursor = e.cursor /\ r.missed = e.missed
<1>1. PICK S : e \in EditorSet(S)
  BY DEF IsEditor
<1> DEFINE T == S
           r == WarnedSet(e)
<1>2. r \in EditorSet(T)
  BY <1>1 DEF WarnedSet, EditorSet
<1>3. /\ r.buf = e.buf /\ r.caret = e.caret /\ r.anchor = e.anchor /\ r.sel = e.sel
      /\ r.dirty = e.dirty /\ r.open = e.open /\ r.recs = e.recs /\ r.cursor = e.cursor
      /\ r.missed = e.missed
  BY <1>1 DEF WarnedSet, EditorSet
<1> HIDE DEF r
<1>4. IsEditor(r)
  BY <1>2 DEF IsEditor
<1> QED BY <1>3, <1>4 DEF r

FreshSet(e) ==
  [e EXCEPT !.lost = FALSE]

\* The next frame
LEMMA SetFresh ==
  ASSUME NEW e, IsEditor(e)
  PROVE  LET r == FreshSet(e)
         IN  /\ IsEditor(r)
             /\ r.buf = e.buf /\ r.caret = e.caret /\ r.anchor = e.anchor /\ r.sel = e.sel
             /\ r.dirty = e.dirty /\ r.open = e.open /\ r.recs = e.recs /\ r.cursor = e.cursor /\ r.missed = e.missed
<1>1. PICK S : e \in EditorSet(S)
  BY DEF IsEditor
<1> DEFINE T == S
           r == FreshSet(e)
<1>2. r \in EditorSet(T)
  BY <1>1 DEF FreshSet, EditorSet
<1>3. /\ r.buf = e.buf /\ r.caret = e.caret /\ r.anchor = e.anchor /\ r.sel = e.sel
      /\ r.dirty = e.dirty /\ r.open = e.open /\ r.recs = e.recs /\ r.cursor = e.cursor
      /\ r.missed = e.missed
  BY <1>1 DEF FreshSet, EditorSet
<1> HIDE DEF r
<1>4. IsEditor(r)
  BY <1>2 DEF IsEditor
<1> QED BY <1>3, <1>4 DEF r

SavedSet(e) ==
  [e EXCEPT !.dirty = FALSE, !.warned = FALSE]

\* A save
LEMMA SetSaved ==
  ASSUME NEW e, IsEditor(e)
  PROVE  LET r == SavedSet(e)
         IN  /\ IsEditor(r)
             /\ r.buf = e.buf /\ r.caret = e.caret /\ r.anchor = e.anchor /\ r.sel = e.sel
             /\ r.open = e.open /\ r.recs = e.recs /\ r.cursor = e.cursor /\ r.missed = e.missed
             /\ r.dirty = FALSE
<1>1. PICK S : e \in EditorSet(S)
  BY DEF IsEditor
<1> DEFINE T == S
           r == SavedSet(e)
<1>2. r \in EditorSet(T)
  BY <1>1 DEF SavedSet, EditorSet
<1>3. /\ r.buf = e.buf /\ r.caret = e.caret /\ r.anchor = e.anchor /\ r.sel = e.sel
      /\ r.open = e.open /\ r.recs = e.recs /\ r.cursor = e.cursor /\ r.missed = e.missed
      /\ r.dirty = FALSE
  BY <1>1 DEF SavedSet, EditorSet
<1> HIDE DEF r
<1>4. IsEditor(r)
  BY <1>2 DEF IsEditor
<1> QED BY <1>3, <1>4 DEF r

\* What no field is set to is what it was.
LEMMA Fields ==
  ASSUME NEW e, IsEditor(e)
  PROVE  /\ e.sel \in BOOLEAN /\ e.dirty \in BOOLEAN /\ e.warned \in BOOLEAN
         /\ e.open \in BOOLEAN /\ e.lost \in BOOLEAN /\ e.missed \in BOOLEAN
BY DEF IsEditor, EditorSet

-----------------------------------------------------------------------------
(* The undo log *)

LEMMA ResetFacts ==
  ASSUME NEW e, IsEditor(e)
  PROVE  LET r == Reset(e)
        
         IN  SameText(e, r) /\ r.recs = <<>> /\ r.cursor = 0 /\ r.missed = e.missed
<1>1. Reset(e) = LostSet(e, <<>>, 0, 0, NoBytes)
  BY DEF Reset, LostSet
<1> QED BY <1>1, SetLost

LEMMA TruncateFacts ==
  ASSUME NEW e, IsEditor(e)
  PROVE  LET r == Truncate(e)
         IN  /\ SameText(e, r) /\ r.recs = SubSeq(e.recs, 1, e.cursor)
             /\ r.cursor = e.cursor /\ r.missed = e.missed
<1> DEFINE kept == SubSeq(e.recs, 1, e.cursor)
           ends == {kept[i].off + kept[i].len :
                      i \in {j \in DOMAIN kept : kept[j].kind = Deletion}}
           c == IF e.cursor < Len(e.recs) THEN Biggest(ends \cup {0}) ELSE e.used
           d == [k \in DOMAIN e.arena |->
                   IF \E i \in DOMAIN kept : k \in Stash(kept[i]) THEN e.arena[k] ELSE Nil]
<1>1. Truncate(e) = TruncatedSet(e, kept, c, d)
  BY DEF Truncate, TruncatedSet
<1> HIDE DEF c, d, kept
<1>2. /\ SameText(e, Truncate(e)) /\ Truncate(e).recs = kept
      /\ Truncate(e).cursor = e.cursor /\ Truncate(e).missed = e.missed
  BY <1>1, SetTruncated
<1> QED BY <1>2 DEF kept

NewRecord(e, kind, pos, bytes) ==
  [kind |-> kind, pos |-> pos, len |-> Len(bytes), off |-> e.used]

LEMMA RecordedFacts ==
  ASSUME NEW e, IsEditor(e), NEW kind, NEW pos, NEW bytes
  PROVE  LET r == Recorded(e, kind, pos, bytes)
         IN  /\ SameText(e, r)
             /\ r.recs = Append(e.recs, NewRecord(e, kind, pos, bytes))
             /\ r.cursor = Len(e.recs) + 1 /\ r.missed = e.missed
<1> DEFINE a == Append(e.recs, NewRecord(e, kind, pos, bytes))
           b == Len(e.recs) + 1
           c == e.used + Len(bytes)
           d == [k \in DOMAIN e.arena |->
                   IF k \in e.used..(e.used + Len(bytes) - 1)
                   THEN bytes[k - e.used + 1] ELSE e.arena[k]]
           r == Recorded(e, kind, pos, bytes)
<1>1. r = [e EXCEPT !.arena = d, !.used = c, !.recs = a, !.cursor = b]
  BY DEF Recorded, NewRecord
<1> HIDE DEF a, b, c, d, r
<1>2. r = LogSet(e, a, b, c, d)
  BY <1>1 DEF IsEditor, EditorSet, LogSet
<1>3. SameText(e, r) /\ r.recs = a /\ r.cursor = b /\ r.missed = e.missed
  BY <1>2, SetLog
<1> QED BY <1>3 DEF a, b, r

LEMMA JoinedFacts ==
  ASSUME NEW e, IsEditor(e), NEW byte
  PROVE  LET r == Joined(e, byte)
         IN  /\ SameText(e, r)
             /\ r.recs = [e.recs EXCEPT ![Len(e.recs)].len = @ + 1]
             /\ r.cursor = Len(e.recs) /\ r.missed = e.missed
<1> DEFINE last == Len(e.recs)
           prev == e.recs[last]
           a == [e.recs EXCEPT ![last].len = @ + 1]
           c == e.used + 1
           d == [k \in DOMAIN e.arena |->
                   IF k = prev.off + prev.len THEN byte ELSE e.arena[k]]
           r == Joined(e, byte)
<1>1. r = [e EXCEPT !.arena = d, !.used = c, !.recs = a, !.cursor = last]
  BY DEF Joined
<1> HIDE DEF a, c, d, r, last
<1>2. r = LogSet(e, a, last, c, d)
  BY <1>1 DEF IsEditor, EditorSet, LogSet
<1>3. SameText(e, r) /\ r.recs = a /\ r.cursor = last /\ r.missed = e.missed
  BY <1>2, SetLog
<1> QED BY <1>3 DEF a, last, r

-----------------------------------------------------------------------------
(* The chain of lengths *)

IsText(s) == \E S : s \in Seq(S)
RecSet(O) == [kind : {Insertion, Deletion}, pos : Nat, len : Nat, off : O]
IsLog(recs) == \E O : recs \in Seq(RecSet(O))

\* A record between two lengths of the text
Fits(rec, m, n) ==
  IF rec.kind = Insertion THEN n = m + rec.len /\ rec.pos <= m
  ELSE m = n + rec.len /\ rec.pos <= n

Sizes(recs, size) ==
  /\ size \in [0..Len(recs) -> 0..(CodeCap - 2)]
  /\ \A i \in 1..Len(recs) : Fits(recs[i], size[i - 1], size[i])
Chain(recs, cursor, n) ==
  cursor \in 0..Len(recs) /\ \E size : Sizes(recs, size) /\ size[cursor] = n

Log(e, n) == IsLog(e.recs) /\ Chain(e.recs, e.cursor, n)

LEMMA NoChain ==
  ASSUME NEW n \in 0..(CodeCap - 2)
  PROVE  IsLog(<<>>) /\ Chain(<<>>, 0, n)
<1>1. IsLog(<<>>)
  BY DEF IsLog
<1> DEFINE size == [i \in 0..0 |-> n]
<1>2. size \in [0..Len(<<>>) -> 0..(CodeCap - 2)] /\ size[0] = n
  OBVIOUS
<1>3. Sizes(<<>>, size)
  BY <1>2 DEF Sizes
<1> HIDE DEF size
<1> QED BY <1>1, <1>2, <1>3 DEF Chain

\* The records that a truncation keeps
LEMMA ChainCut ==
  ASSUME NEW recs, IsLog(recs), NEW cursor, NEW n, Chain(recs, cursor, n)
  PROVE  LET kept == SubSeq(recs, 1, cursor)
         IN  /\ IsLog(kept) /\ Len(kept) = cursor /\ cursor \in Nat
             /\ Chain(kept, cursor, n) /\ n \in 0..(CodeCap - 2)
<1> DEFINE kept == SubSeq(recs, 1, cursor)
<1>1. PICK O : recs \in Seq(RecSet(O))
  BY DEF IsLog
<1>2. PICK size : Sizes(recs, size) /\ size[cursor] = n
  BY DEF Chain
<1>3. cursor \in 0..Len(recs) /\ Len(recs) \in Nat
  BY <1>1 DEF Chain
<1>4. /\ kept \in Seq(RecSet(O))
      /\ Len(kept) = cursor /\ \A i \in 1..cursor : kept[i] = recs[i]
  BY <1>1, <1>3
<1> HIDE DEF kept
<1> DEFINE short == [i \in 0..cursor |-> size[i]]
<1>5. short \in [0..Len(kept) -> 0..(CodeCap - 2)] /\ short[cursor] = n
  <2> DEFINE Lengths == 0..(CodeCap - 2)
  <2>1. size \in [0..Len(recs) -> Lengths] /\ size[cursor] = n
    BY <1>2 DEF Sizes
  <2> HIDE DEF Lengths
  <2>2. \A i \in 0..cursor : size[i] \in Lengths
    BY <1>3, <2>1
  <2>3. short \in [0..cursor -> Lengths] /\ short[cursor] = n
    BY <1>3, <2>1, <2>2
  <2> HIDE DEF short
  <2> QED BY <1>4, <2>3 DEF Lengths
<1>6. ASSUME NEW i \in 1..Len(kept) PROVE Fits(kept[i], short[i - 1], short[i])
  <2>1. i - 1 \in 0..cursor /\ i \in 0..cursor /\ i \in 1..Len(recs) /\ i \in 1..cursor
    BY <1>3, <1>4
  <2>2. Fits(recs[i], size[i - 1], size[i])
    BY <1>2, <2>1 DEF Sizes
  <2> QED BY <1>4, <2>1, <2>2
<1> HIDE DEF short
<1>7. Chain(kept, cursor, n)
  <2>1. Sizes(kept, short)
    BY <1>5, <1>6 DEF Sizes
  <2>2. cursor \in 0..Len(kept)
    BY <1>3, <1>4
  <2> QED BY <1>5, <2>1, <2>2 DEF Chain
<1>8. IsLog(kept)
  BY <1>4 DEF IsLog
<1>9. n \in 0..(CodeCap - 2)
  BY <1>2, <1>3 DEF Sizes
<1> QED BY <1>3, <1>4, <1>7, <1>8, <1>9 DEF kept

\* One more record
LEMMA ChainAppend ==
  ASSUME NEW recs, IsLog(recs), NEW n, Chain(recs, Len(recs), n), NEW m \in 0..(CodeCap - 2),
         NEW kind \in {Insertion, Deletion}, NEW pos \in Nat, NEW len \in Nat, NEW off,
         Fits([kind |-> kind, pos |-> pos, len |-> len, off |-> off], n, m)
  PROVE  LET rec == [kind |-> kind, pos |-> pos, len |-> len, off |-> off]
         IN  IsLog(Append(recs, rec)) /\ Chain(Append(recs, rec), Len(recs) + 1, m)
<1> DEFINE rec == [kind |-> kind, pos |-> pos, len |-> len, off |-> off]
           more == Append(recs, rec)
<1>1. PICK O : recs \in Seq(RecSet(O))
  BY DEF IsLog
<1>2. PICK size : Sizes(recs, size) /\ size[Len(recs)] = n
  BY DEF Chain
<1> DEFINE Recs == RecSet(O \cup {off})
<1>3. recs \in Seq(Recs) /\ rec \in Recs
  <2>1. RecSet(O) \subseteq Recs
    BY DEF RecSet
  <2>2. rec \in Recs
    BY DEF RecSet
  <2> DEFINE Old == RecSet(O)
  <2>3. recs \in Seq(Old) /\ Old \subseteq Recs
    BY <1>1, <2>1
  <2> HIDE DEF Recs, rec, Old
  <2>4. recs \in Seq(Recs)
    BY <2>3
  <2> QED BY <2>2, <2>4
<1>4. Fits(rec, n, m)
  OBVIOUS
<1> HIDE DEF Recs, rec
<1>5. /\ more \in Seq(Recs) /\ Len(more) = Len(recs) + 1 /\ Len(recs) \in Nat
      /\ more[Len(recs) + 1] = rec /\ \A i \in 1..Len(recs) : more[i] = recs[i]
  BY <1>3
<1> HIDE DEF more
<1> DEFINE long == [i \in 0..(Len(recs) + 1) |-> IF i <= Len(recs) THEN size[i] ELSE m]
<1>6. long \in [0..Len(more) -> 0..(CodeCap - 2)] /\ long[Len(recs) + 1] = m
  BY <1>2, <1>5 DEF Sizes
<1>7. ASSUME NEW i \in 1..Len(more) PROVE Fits(more[i], long[i - 1], long[i])
  <2>1. CASE i \in 1..Len(recs)
    <3>1. long[i - 1] = size[i - 1] /\ long[i] = size[i]
      BY <1>5, <2>1
    <3> HIDE DEF long
    <3> QED BY <1>2, <1>5, <2>1, <3>1 DEF Sizes
  <2>2. CASE i = Len(recs) + 1
    <3>1. long[i - 1] = n /\ long[i] = m
      BY <1>2, <1>5, <2>2
    <3> QED BY <1>4, <1>5, <2>2, <3>1
  <2> QED BY <1>5, <2>1, <2>2
<1> HIDE DEF long
<1>8. Chain(more, Len(recs) + 1, m)
  BY <1>5, <1>6, <1>7 DEF Chain, Sizes
<1>9. IsLog(more)
  BY <1>5 DEF IsLog, Recs
<1> QED BY <1>8, <1>9 DEF more, rec

\* A byte that joins the last record
LEMMA ChainJoin ==
  ASSUME NEW recs, IsLog(recs), NEW n, Chain(recs, Len(recs), n), recs # <<>>,
         n + 1 <= CodeCap - 2, recs[Len(recs)].kind = Insertion
  PROVE  LET more == [recs EXCEPT ![Len(recs)].len = @ + 1]
         IN  IsLog(more) /\ Chain(more, Len(recs), n + 1)
<1> DEFINE last == Len(recs)
           more == [recs EXCEPT ![Len(recs)].len = @ + 1]
<1>1. PICK O : recs \in Seq(RecSet(O))
  BY DEF IsLog
<1>2. PICK size : Sizes(recs, size) /\ size[Len(recs)] = n
  BY DEF Chain
<1> DEFINE Recs == RecSet(O)
<1>3. last \in Nat /\ last >= 1 /\ last \in 1..Len(recs) /\ recs[last] \in Recs
  BY <1>1, EmptySeq
<1>4. [recs[last] EXCEPT !.len = @ + 1] \in Recs
  BY <1>3 DEF RecSet
<1>5. more = [recs EXCEPT ![last] = [recs[last] EXCEPT !.len = @ + 1]]
  BY <1>1, <1>3
<1>6. recs \in Seq(Recs)
  BY <1>1
<1>7. /\ [recs[last] EXCEPT !.len = @ + 1].len = recs[last].len + 1
      /\ [recs[last] EXCEPT !.len = @ + 1].kind = recs[last].kind
      /\ [recs[last] EXCEPT !.len = @ + 1].pos = recs[last].pos
      /\ recs[last].len \in Nat /\ recs[last].pos \in Nat
  BY <1>3 DEF RecSet
<1> DEFINE rec == [recs[last] EXCEPT !.len = @ + 1]
<1> HIDE DEF Recs, rec
<1>8. /\ more \in Seq(Recs) /\ Len(more) = last /\ more[last] = rec
      /\ \A i \in 1..last : i # last => more[i] = recs[i]
  BY <1>3, <1>4, <1>5, <1>6 DEF rec
<1> HIDE DEF more
<1> DEFINE long == [i \in 0..last |-> IF i < last THEN size[i] ELSE n + 1]
<1>9. long \in [0..Len(more) -> 0..(CodeCap - 2)] /\ long[last] = n + 1
  BY <1>2, <1>3, <1>8, EditorAssumption DEF Sizes
<1>10. ASSUME NEW i \in 1..Len(more) PROVE Fits(more[i], long[i - 1], long[i])
  <2>1. CASE i < last
    <3>1. long[i - 1] = size[i - 1] /\ long[i] = size[i] /\ i \in 1..Len(recs)
      BY <1>3, <1>8, <2>1
    <3> HIDE DEF long
    <3> QED BY <1>2, <1>8, <2>1, <3>1 DEF Sizes
  <2>2. CASE i = last
    <3>1. long[i - 1] = size[i - 1] /\ long[i] = n + 1 /\ size[i] = n
      BY <1>2, <1>3, <1>8, <2>2
    <3>2. Fits(recs[last], size[last - 1], n)
      BY <1>2, <1>3 DEF Sizes
    <3>3. size[last - 1] \in Nat /\ n \in Nat
      BY <1>2, <1>3, SMTT(30) DEF Sizes
    <3>4. recs[last].kind = Insertion
      OBVIOUS
    <3>5. n = size[last - 1] + recs[last].len /\ recs[last].pos <= size[last - 1]
      BY <3>2, <3>4 DEF Fits
    <3>6. rec.kind = Insertion /\ rec.len = recs[last].len + 1 /\ rec.pos = recs[last].pos
      BY <1>7, <3>4 DEF rec
    <3>7. n + 1 = size[last - 1] + rec.len /\ rec.pos <= size[last - 1]
      BY <1>7, <3>3, <3>5, <3>6
    <3>8. Fits(rec, size[last - 1], n + 1)
      BY <3>6, <3>7 DEF Fits
    <3> HIDE DEF long, last
    <3> QED BY <1>8, <2>2, <3>1, <3>8
  <2> QED BY <1>3, <1>8, <2>1, <2>2
<1> HIDE DEF long
<1>11. Chain(more, last, n + 1)
  BY <1>3, <1>8, <1>9, <1>10 DEF Chain, Sizes
<1>12. IsLog(more)
  BY <1>8 DEF IsLog, Recs
<1> QED BY <1>11, <1>12 DEF more

LEMMA SameTextTrans ==
  ASSUME NEW e, NEW t, NEW r, SameText(e, t), SameText(t, r)
  PROVE  SameText(e, r)
BY DEF SameText

\* A truncated log ends at the cursor.
LEMMA TruncateLog ==
  ASSUME NEW e, IsEditor(e), NEW n, Log(e, n)
  PROVE  LET t == Truncate(e)
         IN  /\ SameText(e, t) /\ t.missed = e.missed /\ IsLog(t.recs)
             /\ t.cursor = Len(t.recs) /\ Chain(t.recs, Len(t.recs), n) /\ n \in 0..(CodeCap - 2)
<1> DEFINE t == Truncate(e)
           kept == SubSeq(e.recs, 1, e.cursor)
<1>1. /\ SameText(e, t) /\ t.recs = kept /\ t.cursor = e.cursor /\ t.missed = e.missed
  BY TruncateFacts
<1>2. /\ IsLog(kept) /\ Len(kept) = e.cursor
      /\ Chain(kept, e.cursor, n) /\ n \in 0..(CodeCap - 2)
  BY ChainCut DEF Log
<1> HIDE DEF t, kept
<1>3. /\ SameText(e, t) /\ t.missed = e.missed /\ IsLog(t.recs)
      /\ t.cursor = Len(t.recs) /\ Chain(t.recs, Len(t.recs), n) /\ n \in 0..(CodeCap - 2)
  BY <1>1, <1>2
<1> QED BY <1>3 DEF t

\* A new record at the end of a log
LEMMA RecordedLog ==
  ASSUME NEW e, IsEditor(e), IsLog(e.recs), NEW n, Chain(e.recs, Len(e.recs), n),
         NEW m \in 0..(CodeCap - 2), NEW kind \in {Insertion, Deletion}, NEW pos \in Nat,
         NEW bytes, Len(bytes) \in Nat,
         \/ kind = Insertion /\ m = n + Len(bytes) /\ pos <= n
         \/ kind = Deletion /\ n = m + Len(bytes) /\ pos <= m
  PROVE  Log(Recorded(e, kind, pos, bytes), m)
<1> DEFINE rec == [kind |-> kind, pos |-> pos, len |-> Len(bytes), off |-> e.used]
           r == Recorded(e, kind, pos, bytes)
<1>1. r.recs = Append(e.recs, rec) /\ r.cursor = Len(e.recs) + 1
  BY RecordedFacts DEF NewRecord
<1>2. rec.kind = kind /\ rec.pos = pos /\ rec.len = Len(bytes)
  OBVIOUS
<1>3. Fits(rec, n, m)
  <2> HIDE DEF rec
  <2> QED BY <1>2 DEF Fits, Insertion, Deletion
<1>4. IsLog(Append(e.recs, rec)) /\ Chain(Append(e.recs, rec), Len(e.recs) + 1, m)
  BY <1>3, ChainAppend
<1> HIDE DEF r, rec
<1>5. Log(r, m)
  BY <1>1, <1>4 DEF Log
<1> QED BY <1>5 DEF r

\* gt_undo_push_delete touches the log only.
LEMMA PushDeleteText ==
  ASSUME NEW e, IsEditor(e), NEW pos, NEW bytes
  PROVE  LET r == PushDelete(e, pos, bytes)
         IN  SameText(e, r) /\ r.missed \in {e.missed, TRUE}
<1> DEFINE t == Truncate(e)
           r == IF t.used + Len(bytes) > ArenaCap THEN Reset(t) ELSE t
           q == PushDelete(e, pos, bytes)
<1>1. SameText(e, t) /\ t.missed = e.missed
  BY TruncateFacts
<1>2. IsEditor(t)
  BY <1>1 DEF SameText
<1>3. SameText(t, t)
  BY <1>2 DEF SameText
<1> HIDE DEF t
<1>4. SameText(t, r) /\ r.missed = t.missed
  BY <1>2, <1>3, ResetFacts
<1>5. IsEditor(r)
  BY <1>4 DEF SameText
<1>6. q = IF Len(r.recs) >= RecCap THEN [r EXCEPT !.missed = TRUE]
          ELSE Recorded(r, Deletion, pos, bytes)
  BY DEF PushDelete, t
<1> HIDE DEF r, q
<1>7. SameText(r, q) /\ (q.missed = r.missed \/ q.missed = TRUE)
  BY <1>5, <1>6, SetMissed, RecordedFacts
<1>8. SameText(e, q) /\ q.missed \in {e.missed, TRUE}
  BY <1>1, <1>4, <1>7, SameTextTrans
<1> QED BY <1>8 DEF q

\* ... which goes on, unless it is full.
LEMMA PushDeleteLog ==
  ASSUME NEW e, IsEditor(e), NEW n, Log(e, n), NEW pos \in Nat,
         NEW bytes, Len(bytes) \in Nat, pos + Len(bytes) <= n
  PROVE  LET r == PushDelete(e, pos, bytes)
         IN  r.missed = TRUE \/ Log(r, n - Len(bytes))
<1> DEFINE t == Truncate(e)
           r == IF t.used + Len(bytes) > ArenaCap THEN Reset(t) ELSE t
           q == PushDelete(e, pos, bytes)
<1>1. /\ SameText(e, t) /\ IsLog(t.recs)
      /\ Chain(t.recs, Len(t.recs), n) /\ n \in 0..(CodeCap - 2)
  BY TruncateLog
<1>2. IsEditor(t)
  BY <1>1 DEF SameText
<1> HIDE DEF t
<1>3. IsEditor(r) /\ IsLog(r.recs) /\ Chain(r.recs, Len(r.recs), n)
  <2>1. SameText(t, Reset(t)) /\ Reset(t).recs = <<>>
    BY <1>2, ResetFacts
  <2>2. IsEditor(Reset(t))
    BY <2>1 DEF SameText
  <2>3. Len(<<>>) = 0
    OBVIOUS
  <2> QED BY <1>1, <1>2, <2>1, <2>2, <2>3, NoChain
<1>4. q = IF Len(r.recs) >= RecCap THEN [r EXCEPT !.missed = TRUE]
          ELSE Recorded(r, Deletion, pos, bytes)
  BY DEF PushDelete, t
<1> HIDE DEF r, q
<1>5. n - Len(bytes) \in 0..(CodeCap - 2) /\ n = (n - Len(bytes)) + Len(bytes)
      /\ pos <= n - Len(bytes)
  BY <1>1, EditorAssumption
<1>6. Log(Recorded(r, Deletion, pos, bytes), n - Len(bytes))
  BY <1>3, <1>5, RecordedLog
<1>7. q.missed = TRUE \/ Log(q, n - Len(bytes))
  BY <1>3, <1>4, <1>6, SetMissed
<1> QED BY <1>7 DEF q

\* gt_undo_push_insert touches the log only.
LEMMA PushInsertText ==
  ASSUME NEW e, IsEditor(e), NEW pos, NEW byte
  PROVE  LET r == PushInsert(e, pos, byte)
         IN  SameText(e, r) /\ r.missed = e.missed
<1> DEFINE t == Truncate(e)
           r == IF Len(t.recs) >= RecCap THEN Reset(t) ELSE t
           q == PushInsert(e, pos, byte)
<1>1. SameText(e, t) /\ t.missed = e.missed
  BY TruncateFacts
<1>2. IsEditor(t)
  BY <1>1 DEF SameText
<1>3. SameText(t, t)
  BY <1>2 DEF SameText
<1> HIDE DEF t
<1>4. SameText(t, r) /\ r.missed = t.missed
  BY <1>2, <1>3, ResetFacts
<1>5. IsEditor(r)
  BY <1>4 DEF SameText
<1>6. q = IF Coalesces(t, pos) THEN Joined(t, byte)
          ELSE IF r.used + 1 > ArenaCap THEN Reset(r)
          ELSE Recorded(r, Insertion, pos, <<byte>>)
  BY DEF PushInsert, t
<1> HIDE DEF r, q
<1>7. CASE Coalesces(t, pos)
  <2>1. SameText(t, q) /\ q.missed = t.missed
    BY <1>2, <1>6, <1>7, JoinedFacts
  <2>2. SameText(e, q) /\ q.missed = e.missed
    BY <1>1, <2>1, SameTextTrans
  <2> QED BY <2>2 DEF q
<1>8. CASE ~Coalesces(t, pos)
  <2> DEFINE bytes == <<byte>>
             d == Recorded(r, Insertion, pos, bytes)
  <2>3. q = Reset(r) \/ q = d
    BY <1>6, <1>8
  <2> HIDE DEF bytes
  <2>4. SameText(r, d) /\ d.missed = r.missed
    BY <1>5, RecordedFacts
  <2>5. SameText(r, Reset(r)) /\ Reset(r).missed = r.missed
    BY <1>5, ResetFacts
  <2> HIDE DEF d
  <2>1. SameText(r, q) /\ q.missed = r.missed
    BY <2>3, <2>4, <2>5
  <2>2. SameText(e, q) /\ q.missed = e.missed
    BY <1>1, <1>4, <2>1, SameTextTrans
  <2> QED BY <2>2 DEF q
<1> QED BY <1>7, <1>8

\* ... which goes on.
LEMMA PushInsertLog ==
  ASSUME NEW e, IsEditor(e), NEW n, Log(e, n), NEW pos \in Nat, NEW byte,
         pos <= n, n + 1 <= CodeCap - 2
  PROVE  Log(PushInsert(e, pos, byte), n + 1)
<1> DEFINE t == Truncate(e)
           r == IF Len(t.recs) >= RecCap THEN Reset(t) ELSE t
           q == PushInsert(e, pos, byte)
<1>1. /\ SameText(e, t) /\ IsLog(t.recs)
      /\ Chain(t.recs, Len(t.recs), n) /\ n \in 0..(CodeCap - 2)
  BY TruncateLog
<1>2. IsEditor(t)
  BY <1>1 DEF SameText
<1>3. n + 1 \in 0..(CodeCap - 2)
  BY <1>1, EditorAssumption
<1> HIDE DEF t
<1>4. IsEditor(r) /\ IsLog(r.recs) /\ Chain(r.recs, Len(r.recs), n)
  <2>1. SameText(t, Reset(t)) /\ Reset(t).recs = <<>>
    BY <1>2, ResetFacts
  <2>2. IsEditor(Reset(t))
    BY <2>1 DEF SameText
  <2>3. Len(<<>>) = 0
    OBVIOUS
  <2> QED BY <1>1, <1>2, <2>1, <2>2, <2>3, NoChain
<1>5. q = IF Coalesces(t, pos) THEN Joined(t, byte)
          ELSE IF r.used + 1 > ArenaCap THEN Reset(r)
          ELSE Recorded(r, Insertion, pos, <<byte>>)
  BY DEF PushInsert, t
<1> HIDE DEF r, q
<1>6. CASE Coalesces(t, pos)
  <2>1. t.recs # <<>> /\ t.recs[Len(t.recs)].kind = Insertion
    BY <1>6 DEF Coalesces
  <2> DEFINE more == [t.recs EXCEPT ![Len(t.recs)].len = @ + 1]
  <2>2. q.recs = more /\ q.cursor = Len(t.recs)
    BY <1>2, <1>5, <1>6, JoinedFacts
  <2>3. IsLog(more) /\ Chain(more, Len(t.recs), n + 1)
    BY <1>1, <2>1, ChainJoin
  <2> HIDE DEF more
  <2>4. Log(q, n + 1)
    BY <2>2, <2>3 DEF Log
  <2> QED BY <2>4 DEF q
<1>7. CASE ~Coalesces(t, pos) /\ r.used + 1 > ArenaCap
  <2>1. q.recs = <<>> /\ q.cursor = 0
    BY <1>4, <1>5, <1>7, ResetFacts
  <2>2. Log(q, n + 1)
    BY <1>3, <2>1, NoChain DEF Log
  <2> QED BY <2>2 DEF q
<1>8. CASE ~Coalesces(t, pos) /\ ~(r.used + 1 > ArenaCap)
  <2>1. q = Recorded(r, Insertion, pos, <<byte>>)
    BY <1>5, <1>8
  <2> DEFINE bytes == <<byte>>
  <2>2. Len(bytes) = 1
    OBVIOUS
  <2> HIDE DEF bytes
  <2>3. Insertion \in {Insertion, Deletion} /\ Len(bytes) \in Nat /\ n + 1 = n + Len(bytes)
    BY <2>2
  <2>4. Log(Recorded(r, Insertion, pos, bytes), n + 1)
    BY <1>3, <1>4, <2>3, RecordedLog
  <2> QED BY <2>1, <2>4 DEF q, bytes
<1> QED BY <1>6, <1>7, <1>8

-----------------------------------------------------------------------------
(* The text *)

LEMMA TextLength ==
  ASSUME NEW s, IsText(s)
  PROVE  Len(s) \in Nat
BY DEF IsText

LEMMA PartIsText ==
  ASSUME NEW s, IsText(s), NEW m \in Nat, NEW n \in Nat, m <= n + 1, n <= Len(s), 1 <= m
  PROVE  IsText(SubSeq(s, m, n)) /\ Len(SubSeq(s, m, n)) = n - m + 1
<1>1. PICK S : s \in Seq(S)
  BY DEF IsText
<1>2. SubSeq(s, m, n) \in Seq(S) /\ Len(SubSeq(s, m, n)) = n - m + 1
  BY <1>1
<1> QED BY <1>2 DEF IsText

LEMMA JointIsText ==
  ASSUME NEW s, IsText(s), NEW t, IsText(t)
  PROVE  IsText(s \o t) /\ Len(s \o t) = Len(s) + Len(t)
<1>1. PICK S : s \in Seq(S)
  BY DEF IsText
<1>2. PICK T : t \in Seq(T)
  BY DEF IsText
<1> DEFINE U == S \cup T
<1>3. s \in Seq(U) /\ t \in Seq(U)
  <2>1. S \subseteq U /\ T \subseteq U
    OBVIOUS
  <2> HIDE DEF U
  <2> QED BY <1>1, <1>2, <2>1
<1> HIDE DEF U
<1>4. s \o t \in Seq(U) /\ Len(s \o t) = Len(s) + Len(t)
  BY <1>3
<1> QED BY <1>4 DEF IsText

\* gt_buf_delete_raw
LEMMA WithoutText ==
  ASSUME NEW s, IsText(s), NEW pos \in Nat, NEW n \in Nat, pos + n <= Len(s)
  PROVE  IsText(Without(s, pos, n)) /\ Len(Without(s, pos, n)) = Len(s) - n
<1> DEFINE a == SubSeq(s, 1, pos)
           b == SubSeq(s, pos + n + 1, Len(s))
<1>1. Len(s) \in Nat
  BY TextLength
<1>2. IsText(a) /\ Len(a) = pos
  BY <1>1, PartIsText
<1>3. IsText(b) /\ Len(b) = Len(s) - (pos + n)
  BY <1>1, PartIsText
<1>4. Without(s, pos, n) = a \o b
  BY DEF Without
<1> HIDE DEF a, b
<1>5. IsText(a \o b) /\ Len(a \o b) = Len(s) - n
  BY <1>1, <1>2, <1>3, JointIsText
<1> QED BY <1>4, <1>5

\* gt_buf_insert_raw, when there is room
LEMMA WithText ==
  ASSUME NEW s, IsText(s), NEW pos \in 0..Len(s), NEW bytes, IsText(bytes),
         Len(s) + Len(bytes) <= CodeCap - 2
  PROVE  IsText(With(s, pos, bytes)) /\ Len(With(s, pos, bytes)) = Len(s) + Len(bytes)
<1> DEFINE a == SubSeq(s, 1, pos)
           b == SubSeq(s, pos + 1, Len(s))
<1>1. Len(s) \in Nat /\ Len(bytes) \in Nat
  BY TextLength
<1>2. IsText(a) /\ Len(a) = pos
  BY <1>1, PartIsText
<1>3. IsText(b) /\ Len(b) = Len(s) - pos
  BY <1>1, PartIsText
<1>4. With(s, pos, bytes) = (a \o bytes) \o b
  <2>1. ~(Len(s) + Len(bytes) >= CodeCap - 1)
    BY <1>1, EditorAssumption
  <2> QED BY <2>1 DEF With
<1> HIDE DEF a, b
<1>5. IsText(a \o bytes) /\ Len(a \o bytes) = pos + Len(bytes)
  BY <1>2, JointIsText
<1>6. IsText((a \o bytes) \o b) /\ Len((a \o bytes) \o b) = pos + Len(bytes) + (Len(s) - pos)
  BY <1>3, <1>5, JointIsText
<1> QED BY <1>1, <1>4, <1>6

LEMMA ByteIsText ==
  ASSUME NEW byte
  PROVE  IsText(<<byte>>) /\ Len(<<byte>>) = 1
<1>1. <<byte>> \in Seq({byte}) /\ Len(<<byte>>) = 1
  OBVIOUS
<1> QED BY <1>1 DEF IsText

-----------------------------------------------------------------------------
(* The operations *)

\* The caret, the selection and the log fit the text, unless a deletion is
\* missing in the log.
Within(e) ==
  /\ IsText(e.buf) /\ e.caret \in 0..Len(e.buf)
  /\ e.sel => e.anchor \in 0..Len(e.buf)
  /\ Log(e, Len(e.buf))
Inside(e) == e.missed = TRUE \/ Within(e)

\* What an operation makes of the struct: it stays open, a change of the text
\* marks it as unsaved, and what fits still fits.
Proper(e, r) ==
  /\ IsEditor(r) /\ r.open = e.open
  /\ r.dirty = TRUE \/ (r.buf = e.buf /\ r.dirty = e.dirty)
  /\ Inside(e) => Inside(r)

LEMMA ProperTrans ==
  ASSUME NEW e, NEW t, NEW r, Proper(e, t), Proper(t, r)
  PROVE  Proper(e, r)
BY DEF Proper

\* An editor in which no field that counts is another
LEMMA SameIsProper ==
  ASSUME NEW e, NEW r, IsEditor(r), r.buf = e.buf, r.caret = e.caret,
         r.sel = e.sel \/ r.sel = FALSE, r.sel = TRUE => r.anchor = e.anchor,
         r.open = e.open, r.dirty = TRUE \/ r.dirty = e.dirty,
         r.recs = e.recs, r.cursor = e.cursor, r.missed = e.missed
  PROVE  Proper(e, r)
<1>1. r.sel \in BOOLEAN
  BY Fields
<1>2. ASSUME Within(e) PROVE Within(r)
  <2>1. Log(r, Len(r.buf))
    BY <1>2 DEF Within, Log
  <2>2. r.sel => r.anchor \in 0..Len(r.buf)
    BY <1>1, <1>2 DEF Within
  <2> QED BY <1>2, <2>1, <2>2 DEF Within
<1> QED BY <1>2 DEF Proper, Inside

\* gt_buf_delete_raw with its record
LEMMA CutIsProper ==
  ASSUME NEW e, IsEditor(e), NEW pos, NEW n,
         Within(e) => pos \in Nat /\ n \in Nat /\ pos + n <= Len(e.buf)
  PROVE  Proper(e, Cut(e, pos, n))
<1> DEFINE bytes == SubSeq(e.buf, pos + 1, pos + n)
           p == PushDelete(e, pos, bytes)
           c == TextSet(p, Without(p.buf, pos, n), pos)
           r == Edited(c)
<1>1. SameText(e, p) /\ p.missed \in {e.missed, TRUE}
  BY PushDeleteText
<1>2. IsEditor(p) /\ p.buf = e.buf /\ p.open = e.open
  BY <1>1 DEF SameText
<1>3. ASSUME Within(e)
      PROVE  /\ p.missed = TRUE \/ Log(p, Len(e.buf) - n)
             /\ IsText(Without(e.buf, pos, n)) /\ Len(Without(e.buf, pos, n)) = Len(e.buf) - n
             /\ pos \in 0..(Len(e.buf) - n)
  <2>1. pos \in Nat /\ n \in Nat /\ pos + n <= Len(e.buf) /\ IsText(e.buf)
    BY <1>3 DEF Within
  <2>2. Len(e.buf) \in Nat
    BY <2>1, TextLength
  <2>3. Len(bytes) = n
    <3>1. pos + 1 \in Nat /\ pos + n \in Nat /\ pos + 1 <= (pos + n) + 1 /\ 1 <= pos + 1
      BY <2>1
    <3>2. Len(bytes) = (pos + n) - (pos + 1) + 1
      BY <2>1, <3>1, PartIsText
    <3> HIDE DEF bytes
    <3> QED BY <2>1, <3>2
  <2>4. Log(e, Len(e.buf))
    BY <1>3 DEF Within
  <2> HIDE DEF bytes
  <2>5. p.missed = TRUE \/ Log(p, Len(e.buf) - n)
    BY <2>1, <2>3, <2>4, PushDeleteLog
  <2> HIDE DEF p
  <2>6. IsText(Without(e.buf, pos, n)) /\ Len(Without(e.buf, pos, n)) = Len(e.buf) - n
    BY <2>1, WithoutText
  <2> QED BY <2>1, <2>2, <2>5, <2>6
<1>4. Cut(e, pos, n) = r
  <2>1. Cut(e, pos, n) = Edited([p EXCEPT !.buf = Without(@, pos, n), !.caret = pos])
    BY DEF Cut
  <2> HIDE DEF p
  <2>2. [p EXCEPT !.buf = Without(@, pos, n), !.caret = pos] = c
    BY DEF TextSet
  <2> QED BY <2>1, <2>2
<1> HIDE DEF p
<1>5. /\ IsEditor(c) /\ c.open = p.open /\ c.recs = p.recs /\ c.cursor = p.cursor
      /\ c.missed = p.missed /\ c.buf = Without(e.buf, pos, n) /\ c.caret = pos
  BY <1>2, SetText
<1> HIDE DEF c
<1>6. /\ IsEditor(r) /\ r.open = e.open /\ r.recs = p.recs /\ r.cursor = p.cursor
      /\ r.missed = p.missed /\ r.buf = Without(e.buf, pos, n) /\ r.caret = pos
      /\ r.sel = FALSE /\ r.dirty = TRUE
  BY <1>2, <1>5, SetEdited
<1> HIDE DEF r
<1>7. ASSUME Inside(e) PROVE Inside(r)
  <2>1. CASE e.missed = TRUE
    BY <1>1, <1>6, <2>1 DEF Inside
  <2>2. CASE Within(e) /\ p.missed # TRUE
    <3>1. Log(p, Len(r.buf)) /\ IsText(r.buf) /\ r.caret \in 0..Len(r.buf)
      BY <1>3, <1>6, <2>2
    <3>2. Log(r, Len(r.buf))
      BY <1>6, <3>1 DEF Log
    <3> QED BY <1>6, <3>1, <3>2 DEF Inside, Within
  <2>3. CASE p.missed = TRUE
    BY <1>6, <2>3 DEF Inside
  <2> QED BY <1>7, <2>1, <2>2, <2>3 DEF Inside
<1> QED BY <1>4, <1>6, <1>7 DEF Proper

\* gt_editor_delete_selection
LEMMA DeleteSelectionIsProper ==
  ASSUME NEW e, IsEditor(e)
  PROVE  Proper(e, DeleteSelection(e))
<1>1. CASE HasSelection(e)
  <2>1. DeleteSelection(e) = Cut(e, Lo(e), Hi(e) - Lo(e))
    BY <1>1 DEF DeleteSelection
  <2>2. ASSUME Within(e)
        PROVE  Lo(e) \in Nat /\ Hi(e) - Lo(e) \in Nat /\ Lo(e) + (Hi(e) - Lo(e)) <= Len(e.buf)
    <3>1. e.sel
      BY <1>1 DEF HasSelection
    <3>2. e.anchor \in 0..Len(e.buf) /\ e.caret \in 0..Len(e.buf) /\ Len(e.buf) \in Nat
      BY <2>2, <3>1, TextLength DEF Within
    <3> QED BY <3>2 DEF Lo, Hi, Least
  <2> QED BY <2>1, <2>2, CutIsProper
<1>2. CASE ~HasSelection(e)
  <2>1. DeleteSelection(e) = NoSelectionSet(e)
    BY <1>2 DEF DeleteSelection, NoSelectionSet
  <2> DEFINE r == NoSelectionSet(e)
  <2>2. /\ IsEditor(r)
        /\ r.buf = e.buf /\ r.caret = e.caret /\ r.anchor = e.anchor /\ r.dirty = e.dirty
        /\ r.open = e.open /\ r.recs = e.recs /\ r.cursor = e.cursor /\ r.missed = e.missed
        /\ r.sel = FALSE
    BY SetNoSelection
  <2> HIDE DEF r
  <2>3. Proper(e, r)
    BY <2>2, SameIsProper
  <2> QED BY <2>1, <2>3 DEF r
<1> QED BY <1>1, <1>2

\* ... after which the caret is the only thing left to check.
LEMMA ProperEditor ==
  ASSUME NEW e, NEW r, Proper(e, r)
  PROVE  IsEditor(r) /\ (Inside(e) => Inside(r))
BY DEF Proper

\* gt_editor_insert
LEMMA InsertIsProper ==
  ASSUME NEW e, IsEditor(e), NEW byte
  PROVE  Proper(e, Insert(e, byte))
<1> DEFINE d == DeleteSelection(e)
           bytes == <<byte>>
           placed == TextSet(d, With(d.buf, d.caret, bytes), d.caret + 1)
           p == PushInsert(placed, d.caret, byte)
           r == Edited(p)
<1>1. Proper(e, d)
  BY DeleteSelectionIsProper
<1>2. Insert(e, byte) = IF Len(d.buf) + 1 >= CodeCap - 1 THEN d ELSE r
  <2>1. Insert(e, byte) =
          IF Len(d.buf) + 1 >= CodeCap - 1 THEN d
          ELSE Edited(PushInsert([d EXCEPT !.buf = With(@, d.caret, <<byte>>), !.caret = @ + 1],
                                 d.caret, byte))
    BY DEF Insert
  <2> HIDE DEF d
  <2>2. [d EXCEPT !.buf = With(@, d.caret, <<byte>>), !.caret = @ + 1] = placed
    BY DEF TextSet
  <2> QED BY <2>1, <2>2
<1> HIDE DEF d
<1>3. IsEditor(d)
  BY <1>1 DEF Proper
<1>4. IsText(bytes) /\ Len(bytes) = 1
  BY ByteIsText
<1> HIDE DEF bytes
<1>5. /\ IsEditor(placed) /\ placed.open = d.open /\ placed.recs = d.recs
      /\ placed.cursor = d.cursor /\ placed.missed = d.missed
      /\ placed.buf = With(d.buf, d.caret, bytes) /\ placed.caret = d.caret + 1
  BY <1>3, SetText
<1> HIDE DEF placed
<1>6. SameText(placed, p) /\ p.missed = placed.missed
  BY <1>5, PushInsertText
<1>7. ASSUME Within(d), ~(Len(d.buf) + 1 >= CodeCap - 1)
      PROVE  /\ IsText(placed.buf) /\ Len(placed.buf) = Len(d.buf) + 1
             /\ placed.caret \in 0..Len(placed.buf)
             /\ Log(p, Len(placed.buf))
  <2>1. Len(d.buf) \in Nat /\ IsText(d.buf) /\ d.caret \in 0..Len(d.buf) /\ Log(d, Len(d.buf))
    BY <1>7, TextLength DEF Within
  <2>2. Len(d.buf) + Len(bytes) <= CodeCap - 2 /\ Len(d.buf) + 1 <= CodeCap - 2
    BY <1>4, <1>7, <2>1, EditorAssumption
  <2>3. IsText(placed.buf) /\ Len(placed.buf) = Len(d.buf) + 1
    <3> DEFINE buf == d.buf
               caret == d.caret
    <3>1. IsText(buf) /\ caret \in 0..Len(buf) /\ Len(buf) + Len(bytes) <= CodeCap - 2
      BY <2>1, <2>2
    <3> HIDE DEF buf, caret
    <3>2. IsText(With(buf, caret, bytes)) /\ Len(With(buf, caret, bytes)) = Len(buf) + Len(bytes)
      BY <1>4, <3>1, WithText
    <3>3. placed.buf = With(buf, caret, bytes)
      BY <1>5 DEF buf, caret
    <3> QED BY <1>4, <3>2, <3>3 DEF buf
  <2>4. Log(placed, Len(d.buf))
    BY <1>5, <2>1 DEF Log
  <2>5. d.caret \in Nat /\ d.caret <= Len(d.buf)
    BY <2>1
  <2>6. Log(p, Len(d.buf) + 1)
    BY <1>5, <2>2, <2>4, <2>5, PushInsertLog
  <2> QED BY <1>5, <2>1, <2>3, <2>6
<1> HIDE DEF p
<1>8. IsEditor(p) /\ p.buf = placed.buf /\ p.caret = placed.caret /\ p.open = d.open
  BY <1>5, <1>6 DEF SameText
<1>9. /\ IsEditor(r) /\ r.open = d.open /\ r.recs = p.recs /\ r.cursor = p.cursor
      /\ r.missed = d.missed /\ r.buf = placed.buf /\ r.caret = placed.caret
      /\ r.sel = FALSE /\ r.dirty = TRUE
  BY <1>5, <1>6, <1>8, SetEdited
<1> HIDE DEF r
<1>10. ASSUME Inside(d), ~(Len(d.buf) + 1 >= CodeCap - 1) PROVE Inside(r)
  <2>1. CASE Within(d)
    <3>1. Log(r, Len(r.buf))
      BY <1>7, <1>9, <1>10, <2>1 DEF Log
    <3> QED BY <1>7, <1>9, <1>10, <2>1, <3>1 DEF Inside, Within
  <2> QED BY <1>9, <1>10, <2>1 DEF Inside
<1>11. CASE Len(d.buf) + 1 >= CodeCap - 1
  BY <1>1, <1>2, <1>11
<1>12. CASE ~(Len(d.buf) + 1 >= CodeCap - 1)
  <2>1. Proper(d, r)
    BY <1>9, <1>10, <1>12 DEF Proper
  <2> QED BY <1>1, <1>2, <1>12, <2>1, ProperTrans
<1> QED BY <1>11, <1>12

\* gt_editor_backspace
LEMMA BackspaceIsProper ==
  ASSUME NEW e, IsEditor(e)
  PROVE  Proper(e, Backspace(e))
<1>1. CASE HasSelection(e)
  BY <1>1, DeleteSelectionIsProper DEF Backspace
<1>2. CASE ~HasSelection(e) /\ e.caret > 0
  <2>1. Backspace(e) = Cut(e, e.caret - 1, 1)
    BY <1>2 DEF Backspace
  <2>2. ASSUME Within(e)
        PROVE  e.caret - 1 \in Nat /\ 1 \in Nat /\ (e.caret - 1) + 1 <= Len(e.buf)
    <3>1. e.caret \in 0..Len(e.buf) /\ Len(e.buf) \in Nat
      BY <2>2, TextLength DEF Within
    <3> QED BY <1>2, <3>1
  <2> QED BY <2>1, <2>2, CutIsProper
<1>3. CASE ~HasSelection(e) /\ ~(e.caret > 0)
  <2>1. Backspace(e) = NoSelectionSet(e)
    BY <1>3 DEF Backspace, NoSelectionSet
  <2> DEFINE r == NoSelectionSet(e)
  <2>2. /\ IsEditor(r)
        /\ r.buf = e.buf /\ r.caret = e.caret /\ r.anchor = e.anchor /\ r.dirty = e.dirty
        /\ r.open = e.open /\ r.recs = e.recs /\ r.cursor = e.cursor /\ r.missed = e.missed
        /\ r.sel = FALSE
    BY SetNoSelection
  <2> HIDE DEF r
  <2>3. Proper(e, r)
    BY <2>2, SameIsProper
  <2> QED BY <2>1, <2>3 DEF r
<1> QED BY <1>1, <1>2, <1>3

\* A caret that goes to another place of the text, with whatever selection
LEMMA PlacedIsProper ==
  ASSUME NEW e, NEW r, IsEditor(r), r.buf = e.buf, r.open = e.open, r.dirty = e.dirty,
         r.recs = e.recs, r.cursor = e.cursor, r.missed = e.missed,
         Within(e) => /\ r.caret \in 0..Len(e.buf)
                      /\ r.sel => r.anchor \in 0..Len(e.buf)
  PROVE  Proper(e, r)
<1>1. ASSUME Within(e) PROVE Within(r)
  <2>1. Log(r, Len(r.buf))
    BY <1>1 DEF Within, Log
  <2> QED BY <1>1, <2>1 DEF Within
<1> QED BY <1>1 DEF Proper, Inside

\* The Delete key
LEMMA ForwardDeleteIsProper ==
  ASSUME NEW e, IsEditor(e)
  PROVE  Proper(e, ForwardDelete(e))
<1>1. CASE HasSelection(e)
  BY <1>1, DeleteSelectionIsProper DEF ForwardDelete
<1>2. CASE ~HasSelection(e) /\ e.caret < Len(e.buf)
  <2> DEFINE r == CaretSet(e, e.caret + 1)
  <2>1. ForwardDelete(e) = Backspace(r)
    BY <1>2 DEF ForwardDelete, CaretSet
  <2>2. /\ IsEditor(r)
        /\ r.buf = e.buf /\ r.anchor = e.anchor /\ r.sel = e.sel /\ r.dirty = e.dirty
        /\ r.open = e.open /\ r.recs = e.recs /\ r.cursor = e.cursor /\ r.missed = e.missed
        /\ r.caret = e.caret + 1
    BY SetCaret
  <2> HIDE DEF r
  <2>3. ASSUME Within(e)
        PROVE  r.caret \in 0..Len(e.buf) /\ (r.sel => r.anchor \in 0..Len(e.buf))
    <3>1. e.caret \in 0..Len(e.buf) /\ Len(e.buf) \in Nat
      BY <2>3, TextLength DEF Within
    <3>2. r.caret \in 0..Len(e.buf)
      BY <1>2, <2>2, <3>1
    <3>3. r.sel => r.anchor \in 0..Len(e.buf)
      BY <2>2, <2>3 DEF Within
    <3> QED BY <3>2, <3>3
  <2>4. Proper(e, r)
    BY <2>2, <2>3, PlacedIsProper
  <2>5. Proper(r, Backspace(r))
    BY <2>2, BackspaceIsProper
  <2>6. Proper(e, Backspace(r))
    BY <2>4, <2>5, ProperTrans
  <2> QED BY <2>1, <2>6
<1>3. CASE ~HasSelection(e) /\ ~(e.caret < Len(e.buf))
  <2>1. ForwardDelete(e) = e
    BY <1>3 DEF ForwardDelete
  <2>2. Proper(e, e)
    BY DEF Proper
  <2> QED BY <2>1, <2>2
<1> QED BY <1>1, <1>2, <1>3

\* Ctrl+A
LEMMA SelectAllIsProper ==
  ASSUME NEW e, IsEditor(e)
  PROVE  Proper(e, SelectAll(e))
<1> DEFINE n == Len(e.buf)
           r == SelectedSet(e, 0, n)
<1>1. SelectAll(e) = r
  BY DEF SelectAll, SelectedSet
<1> HIDE DEF n
<1>2. /\ IsEditor(r)
      /\ r.buf = e.buf /\ r.dirty = e.dirty /\ r.open = e.open /\ r.recs = e.recs
      /\ r.cursor = e.cursor /\ r.missed = e.missed
      /\ r.caret = n /\ r.anchor = 0 /\ r.sel = TRUE
  BY SetSelected
<1> HIDE DEF r
<1>3. ASSUME Within(e)
      PROVE  r.caret \in 0..Len(e.buf) /\ (r.sel => r.anchor \in 0..Len(e.buf))
  <2>1. Len(e.buf) \in Nat
    BY <1>3, TextLength DEF Within
  <2> QED BY <1>2, <2>1 DEF n
<1>4. Proper(e, r)
  BY <1>2, <1>3, PlacedIsProper
<1> QED BY <1>1, <1>4

\* A caret without a selection
LEMMA UnselectedIsProper ==
  ASSUME NEW e, IsEditor(e), NEW a, NEW b, Within(e) => b \in 0..Len(e.buf)
  PROVE  Proper(e, UnselectedSet(e, a, b))
<1> DEFINE r == UnselectedSet(e, a, b)
<1>1. /\ IsEditor(r)
      /\ r.buf = e.buf /\ r.dirty = e.dirty /\ r.open = e.open /\ r.recs = e.recs
      /\ r.cursor = e.cursor /\ r.missed = e.missed
      /\ r.caret = b /\ r.anchor = a /\ r.sel = FALSE
  BY SetUnselected, ZenonT(60)
<1> HIDE DEF r
<1>2. Proper(e, r)
  BY <1>1, PlacedIsProper
<1> QED BY <1>2 DEF r

\* A motion of the caret
LEMMA MovedIsProper ==
  ASSUME NEW e, IsEditor(e), NEW n \in 0..Len(e.buf), NEW shift \in BOOLEAN
  PROVE  Proper(e, Moved(e, n, shift))
<1> DEFINE from == IF shift /\ ~e.sel THEN e.caret ELSE e.anchor
           to == n
           r == Moved(e, n, shift)
<1>1. r = [e EXCEPT !.caret = n, !.anchor = from, !.sel = shift /\ n # from]
  BY DEF Moved
<1> HIDE DEF from
<1>2. CASE shift /\ n # from
  <2> DEFINE s == SelectedSet(e, from, n)
  <2>1. (shift /\ n # from) = TRUE
    BY <1>2
  <2>2. r = [e EXCEPT !.caret = n, !.anchor = from, !.sel = TRUE]
    BY <1>1, <2>1
  <2> HIDE DEF r
  <2>3. r = s
    BY <2>2 DEF SelectedSet, IsEditor, EditorSet
  <2>4. /\ IsEditor(s)
        /\ s.buf = e.buf /\ s.dirty = e.dirty /\ s.open = e.open /\ s.recs = e.recs
        /\ s.cursor = e.cursor /\ s.missed = e.missed
        /\ s.caret = n /\ s.anchor = from /\ s.sel = TRUE
    BY SetSelected
  <2> HIDE DEF s
  <2>5. ASSUME Within(e)
        PROVE  s.caret \in 0..Len(e.buf) /\ (s.sel => s.anchor \in 0..Len(e.buf))
    <3>1. e.sel \in BOOLEAN
      BY Fields
    <3>2. from \in 0..Len(e.buf)
      BY <1>2, <2>5, <3>1 DEF from, Within
    <3> QED BY <2>4, <3>2
  <2>6. Proper(e, s)
    BY <2>4, <2>5, PlacedIsProper
  <2> QED BY <2>3, <2>6 DEF r
<1>3. CASE ~(shift /\ n # from)
  <2> DEFINE s == UnselectedSet(e, from, to)
  <2>1. (shift /\ n # from) = FALSE
    BY <1>3
  <2>2. r = [e EXCEPT !.caret = n, !.anchor = from, !.sel = FALSE]
    BY <1>1, <2>1
  <2> HIDE DEF r
  <2>3. r = s
    BY <2>2 DEF UnselectedSet, to
  <2> HIDE DEF to
  <2>4. Within(e) => to \in 0..Len(e.buf)
    BY DEF to
  <2> HIDE DEF s
  <2>6. Proper(e, s)
    BY <2>4, UnselectedIsProper DEF s
  <2> QED BY <2>3, <2>6 DEF r
<1> QED BY <1>2, <1>3

\* The end of a frame
LEMMA EndedIsProper ==
  ASSUME NEW e, IsEditor(e)
  PROVE  Proper(e, Ended(e))
<1>1. CASE HasSelection(e)
  <2>1. Ended(e) = e
    BY <1>1 DEF Ended
  <2>2. Proper(e, e)
    BY DEF Proper
  <2> QED BY <2>1, <2>2
<1>2. CASE ~HasSelection(e)
  <2> DEFINE r == NoAnchorSet(e)
  <2>1. Ended(e) = r
    BY <1>2 DEF Ended, NoAnchorSet
  <2>2. /\ IsEditor(r)
        /\ r.buf = e.buf /\ r.caret = e.caret /\ r.dirty = e.dirty /\ r.open = e.open
        /\ r.recs = e.recs /\ r.cursor = e.cursor /\ r.missed = e.missed
        /\ r.anchor = 0 /\ r.sel = FALSE
    BY SetNoAnchor
  <2> HIDE DEF r
  <2>3. Proper(e, r)
    BY <2>2, SameIsProper
  <2> QED BY <2>1, <2>3
<1> QED BY <1>1, <1>2

-----------------------------------------------------------------------------
(* Undo and redo *)

IsRecord(rec) == rec.kind \in {Insertion, Deletion} /\ rec.pos \in Nat /\ rec.len \in Nat

LEMMA RecordsOfLog ==
  ASSUME NEW recs, IsLog(recs), NEW i \in 1..Len(recs)
  PROVE  IsRecord(recs[i]) /\ Len(recs) \in Nat
<1>1. PICK O : recs \in Seq(RecSet(O))
  BY DEF IsLog
<1>2. recs[i] \in RecSet(O) /\ Len(recs) \in Nat
  BY <1>1
<1> QED BY <1>2 DEF RecSet, IsRecord

LEMMA SavedText ==
  ASSUME NEW e, NEW rec, IsRecord(rec)
  PROVE  IsText(Saved(e, rec)) /\ Len(Saved(e, rec)) = rec.len
<1> DEFINE S == {e.arena[rec.off + i - 1] : i \in 1..rec.len}
           n == rec.len
           at == [i \in 1..n |-> e.arena[rec.off + i - 1]]
<1>1. n \in Nat
  BY DEF IsRecord
<1>2. Saved(e, rec) = at
  BY DEF Saved
<1>3. \A i \in 1..n : e.arena[rec.off + i - 1] \in S
  OBVIOUS
<1> HIDE DEF S, n
<1>4. at \in Seq(S) /\ Len(at) = n
  BY <1>1, <1>3
<1> HIDE DEF at
<1>5. IsText(at)
  BY <1>4 DEF IsText
<1> QED BY <1>2, <1>4, <1>5 DEF n

\* The text in front of a record, from the one behind it
LEMMA UndoneText ==
  ASSUME NEW e, NEW buf, IsText(buf), NEW rec, IsRecord(rec), NEW m \in 0..(CodeCap - 2),
         Fits(rec, m, Len(buf))
  PROVE  IsText(Undone(e, buf, rec)) /\ Len(Undone(e, buf, rec)) = m
<1>1. Len(buf) \in Nat /\ rec.pos \in Nat /\ rec.len \in Nat
  BY TextLength DEF IsRecord
<1>2. CASE rec.kind = Insertion
  <2>1. Undone(e, buf, rec) = Without(buf, rec.pos, rec.len)
    BY <1>2 DEF Undone
  <2>2. Len(buf) = m + rec.len /\ rec.pos <= m
    BY <1>2 DEF Fits
  <2>3. rec.pos + rec.len <= Len(buf) /\ Len(buf) - rec.len = m
    BY <1>1, <2>2
  <2>4. IsText(Without(buf, rec.pos, rec.len)) /\ Len(Without(buf, rec.pos, rec.len)) = m
    BY <1>1, <2>3, WithoutText
  <2> QED BY <2>1, <2>4
<1>3. CASE rec.kind # Insertion
  <2> DEFINE bytes == Saved(e, rec)
             pos == rec.pos
  <2>1. Undone(e, buf, rec) = With(buf, pos, bytes)
    BY <1>3 DEF Undone
  <2>2. m = Len(buf) + rec.len /\ rec.pos <= Len(buf)
    BY <1>3 DEF Fits
  <2>3. IsText(bytes) /\ Len(bytes) = rec.len
    BY SavedText
  <2>4. pos \in 0..Len(buf) /\ m <= CodeCap - 2
    BY <1>1, <2>2, EditorAssumption
  <2> HIDE DEF bytes, pos
  <2>5. Len(buf) + Len(bytes) <= CodeCap - 2
    BY <2>2, <2>3, <2>4
  <2>6. IsText(With(buf, pos, bytes)) /\ Len(With(buf, pos, bytes)) = Len(buf) + Len(bytes)
    BY <2>3, <2>4, <2>5, WithText
  <2> QED BY <2>1, <2>2, <2>3, <2>6
<1> QED BY <1>2, <1>3

\* ... and the one behind it, from the one in front
LEMMA RedoneText ==
  ASSUME NEW e, NEW buf, IsText(buf), NEW rec, IsRecord(rec), NEW m \in 0..(CodeCap - 2),
         Fits(rec, Len(buf), m)
  PROVE  IsText(Redone(e, buf, rec)) /\ Len(Redone(e, buf, rec)) = m
<1>1. Len(buf) \in Nat /\ rec.pos \in Nat /\ rec.len \in Nat
  BY TextLength DEF IsRecord
<1>2. CASE rec.kind # Insertion
  <2>1. Redone(e, buf, rec) = Without(buf, rec.pos, rec.len)
    BY <1>2 DEF Redone
  <2>2. Len(buf) = m + rec.len /\ rec.pos <= m
    BY <1>2 DEF Fits
  <2>3. rec.pos + rec.len <= Len(buf) /\ Len(buf) - rec.len = m
    BY <1>1, <2>2
  <2>4. IsText(Without(buf, rec.pos, rec.len)) /\ Len(Without(buf, rec.pos, rec.len)) = m
    BY <1>1, <2>3, WithoutText
  <2> QED BY <2>1, <2>4
<1>3. CASE rec.kind = Insertion
  <2> DEFINE bytes == Saved(e, rec)
             pos == rec.pos
  <2>1. Redone(e, buf, rec) = With(buf, pos, bytes)
    BY <1>3 DEF Redone
  <2>2. m = Len(buf) + rec.len /\ rec.pos <= Len(buf)
    BY <1>3 DEF Fits
  <2>3. IsText(bytes) /\ Len(bytes) = rec.len
    BY SavedText
  <2>4. pos \in 0..Len(buf) /\ m <= CodeCap - 2
    BY <1>1, <2>2, EditorAssumption
  <2> HIDE DEF bytes, pos
  <2>5. Len(buf) + Len(bytes) <= CodeCap - 2
    BY <2>2, <2>3, <2>4
  <2>6. IsText(With(buf, pos, bytes)) /\ Len(With(buf, pos, bytes)) = Len(buf) + Len(bytes)
    BY <2>3, <2>4, <2>5, WithText
  <2> QED BY <2>1, <2>2, <2>3, <2>6
<1> QED BY <1>2, <1>3

\* A step of an undo or a redo over the record between places c - 1 and c
LEMMA ChainStep ==
  ASSUME NEW recs, IsLog(recs), NEW size, Sizes(recs, size), NEW c \in 1..Len(recs)
  PROVE  /\ IsRecord(recs[c]) /\ Fits(recs[c], size[c - 1], size[c])
         /\ size[c - 1] \in 0..(CodeCap - 2) /\ size[c] \in 0..(CodeCap - 2)
         /\ size[c - 1] \in Nat /\ size[c] \in Nat
         /\ c - 1 \in 0..Len(recs) /\ c \in 0..Len(recs)
         /\ Chain(recs, c - 1, size[c - 1]) /\ Chain(recs, c, size[c])
<1>1. IsRecord(recs[c]) /\ Len(recs) \in Nat
  BY RecordsOfLog
<1>2. c - 1 \in 0..Len(recs) /\ c \in 0..Len(recs)
  BY <1>1
<1>3. Fits(recs[c], size[c - 1], size[c])
  BY DEF Sizes
<1>4. size[c - 1] \in 0..(CodeCap - 2) /\ size[c] \in 0..(CodeCap - 2)
  BY <1>2 DEF Sizes
<1>5. Chain(recs, c - 1, size[c - 1]) /\ Chain(recs, c, size[c])
  BY <1>2 DEF Chain
<1> QED BY <1>1, <1>2, <1>3, <1>4, <1>5

LEMMA ReplayedIsProper ==
  ASSUME NEW e, IsEditor(e), NEW c, NEW buf, NEW caret,
         NEW r, r = ReplayedSet(e, c, buf, caret),
         Within(e) => /\ IsText(buf) /\ caret \in 0..Len(buf) /\ Chain(e.recs, c, Len(buf))
  PROVE  Proper(e, r)
<1>1. /\ IsEditor(r)
      /\ r.cursor = c /\ r.buf = buf /\ r.caret = caret /\ r.sel = FALSE /\ r.dirty = TRUE
      /\ r.anchor = e.anchor /\ r.open = e.open /\ r.recs = e.recs /\ r.missed = e.missed
  <2>1. PICK S : e \in EditorSet(S)
    BY DEF IsEditor
  <2> DEFINE T == S \cup {c, buf, caret}
  <2>2. r \in EditorSet(T)
    BY <2>1 DEF ReplayedSet, EditorSet
  <2>3. /\ r.cursor = c /\ r.buf = buf /\ r.caret = caret /\ r.sel = FALSE /\ r.dirty = TRUE
        /\ r.anchor = e.anchor /\ r.open = e.open /\ r.recs = e.recs /\ r.missed = e.missed
    BY <2>1 DEF ReplayedSet, EditorSet
  <2>4. IsEditor(r)
    BY <2>2 DEF IsEditor
  <2> QED BY <2>3, <2>4
<1>2. ASSUME Within(e) PROVE Within(r)
  <2>1. IsLog(e.recs)
    BY <1>2 DEF Within, Log
  <2>2. Log(r, Len(r.buf))
    BY <1>1, <1>2, <2>1 DEF Log
  <2> QED BY <1>1, <1>2, <2>2 DEF Within
<1> QED BY <1>1, <1>2 DEF Proper, Inside

\* gt_editor_undo
LEMMA UndoIsProper ==
  ASSUME NEW e, IsEditor(e)
  PROVE  Proper(e, UndoOne(e))
<1>1. CASE e.cursor = 0
  <2>1. UndoOne(e) = e
    BY <1>1 DEF UndoOne
  <2>2. Proper(e, e)
    BY DEF Proper
  <2> QED BY <2>1, <2>2
<1>2. CASE e.cursor # 0
  <2> DEFINE rec == e.recs[e.cursor]
             c == e.cursor - 1
             buf == Undone(e, e.buf, rec)
             caret == IF rec.kind = Insertion THEN rec.pos ELSE rec.pos + rec.len
             r == ReplayedSet(e, c, buf, caret)
  <2>1. UndoOne(e) = r
    <3>1. UndoOne(e) = Dirtied([e EXCEPT !.cursor = @ - 1, !.buf = Undone(e, @, rec),
                                         !.caret = caret])
      BY <1>2 DEF UndoOne
    <3> HIDE DEF caret, rec
    <3>2. Dirtied([e EXCEPT !.cursor = @ - 1, !.buf = Undone(e, @, rec), !.caret = caret]) = r
      BY DEF Dirtied, ReplayedSet
    <3> QED BY <3>1, <3>2
  <2>2. ASSUME Within(e)
        PROVE  IsText(buf) /\ caret \in 0..Len(buf) /\ Chain(e.recs, c, Len(buf))
    <3>1. IsText(e.buf) /\ IsLog(e.recs) /\ Chain(e.recs, e.cursor, Len(e.buf))
      BY <2>2 DEF Within, Log
    <3>2. PICK size : Sizes(e.recs, size) /\ size[e.cursor] = Len(e.buf)
      BY <3>1 DEF Chain
    <3>3. e.cursor \in 1..Len(e.recs)
      <4>1. e.cursor \in 0..Len(e.recs)
        BY <3>1 DEF Chain
      <4> QED BY <1>2, <4>1
    <3>4. /\ IsRecord(rec) /\ Fits(rec, size[c], Len(e.buf)) /\ size[c] \in 0..(CodeCap - 2)
          /\ size[c] \in Nat /\ Chain(e.recs, c, size[c])
      BY <3>1, <3>2, <3>3, ChainStep
    <3> HIDE DEF c, rec, caret
    <3>5. IsText(buf) /\ Len(buf) = size[c]
      BY <3>1, <3>4, UndoneText
    <3>6. caret \in 0..size[c]
      BY <3>1, <3>4, TextLength DEF caret, Fits, IsRecord
    <3> QED BY <3>4, <3>5, <3>6
  <2> HIDE DEF rec, c, buf, caret
  <2>3. Proper(e, r)
    BY <2>2, ReplayedIsProper
  <2> QED BY <2>1, <2>3
<1> QED BY <1>1, <1>2

\* gt_editor_redo
LEMMA RedoIsProper ==
  ASSUME NEW e, IsEditor(e)
  PROVE  Proper(e, RedoOne(e))
<1>1. CASE e.cursor = Len(e.recs)
  <2>1. RedoOne(e) = e
    BY <1>1 DEF RedoOne
  <2>2. Proper(e, e)
    BY DEF Proper
  <2> QED BY <2>1, <2>2
<1>2. CASE e.cursor # Len(e.recs)
  <2> DEFINE c == e.cursor + 1
             rec == e.recs[c]
             buf == Redone(e, e.buf, rec)
             caret == IF rec.kind = Insertion THEN rec.pos + rec.len ELSE rec.pos
             r == ReplayedSet(e, c, buf, caret)
  <2>1. RedoOne(e) = r
    <3>1. RedoOne(e) = Dirtied([e EXCEPT !.cursor = @ + 1, !.buf = Redone(e, @, rec),
                                         !.caret = caret])
      BY <1>2 DEF RedoOne
    <3> HIDE DEF caret, rec
    <3>2. Dirtied([e EXCEPT !.cursor = @ + 1, !.buf = Redone(e, @, rec), !.caret = caret]) = r
      BY DEF Dirtied, ReplayedSet
    <3> QED BY <3>1, <3>2
  <2>2. ASSUME Within(e)
        PROVE  IsText(buf) /\ caret \in 0..Len(buf) /\ Chain(e.recs, c, Len(buf))
    <3>1. IsText(e.buf) /\ IsLog(e.recs) /\ Chain(e.recs, e.cursor, Len(e.buf))
      BY <2>2 DEF Within, Log
    <3>2. PICK size : Sizes(e.recs, size) /\ size[e.cursor] = Len(e.buf)
      BY <3>1 DEF Chain
    <3>3. c \in 1..Len(e.recs) /\ c - 1 = e.cursor
      <4>1. e.cursor \in 0..Len(e.recs) /\ Len(e.recs) \in Nat
        BY <3>1 DEF Chain, IsLog
      <4> QED BY <1>2, <4>1
    <3>4. /\ IsRecord(rec) /\ Fits(rec, size[c - 1], size[c]) /\ size[c] \in 0..(CodeCap - 2)
          /\ size[c] \in Nat /\ Chain(e.recs, c, size[c])
      <4> HIDE DEF c
      <4> QED BY <3>1, <3>2, <3>3, ChainStep
    <3> HIDE DEF c, rec, caret
    <3>5. Fits(rec, Len(e.buf), size[c])
      BY <3>2, <3>3, <3>4
    <3>6. IsText(buf) /\ Len(buf) = size[c]
      BY <3>1, <3>4, <3>5, RedoneText
    <3>7. caret \in 0..size[c]
      BY <3>1, <3>4, <3>5, TextLength DEF caret, Fits, IsRecord
    <3> QED BY <3>4, <3>6, <3>7
  <2> HIDE DEF rec, c, buf, caret
  <2>3. Proper(e, r)
    BY <2>2, ReplayedIsProper
  <2> QED BY <2>1, <2>3
<1> QED BY <1>1, <1>2

-----------------------------------------------------------------------------
(* Induction without an operator parameter, from the well-foundedness of   *)
(* the naturals                                                            *)

LEMMA NatMin ==
  ASSUME NEW T \in SUBSET Nat, T # {}
  PROVE  \E m \in T : \A n \in T : m <= n
<1> DEFINE R == {ss \in Nat \X Nat : ss[1] < ss[2]}
<1>1. IsWellFoundedOn(R, Nat)
  BY NatLessThanWellFounded DEF OpToRel
<1>2. \A m, n \in Nat : n < m => <<n, m>> \in R
  OBVIOUS
<1> HIDE DEF R
<1>3. PICK m \in T : \A n \in T : ~ (<<n, m>> \in R)
  BY <1>1, WFMin
<1>4. ASSUME NEW n \in T PROVE m <= n
  <2>1. m \in Nat /\ n \in Nat
    OBVIOUS
  <2>2. ~ (n < m)
    BY <1>2, <1>3, <2>1
  <2> QED BY <2>1, <2>2
<1> QED BY <1>4

LEMMA SetInduction ==
  ASSUME NEW S, 0 \in S, \A n \in Nat : n \in S => n + 1 \in S
  PROVE  Nat \subseteq S
<1> SUFFICES ASSUME Nat \ S # {} PROVE FALSE
  OBVIOUS
<1>1. PICK m \in Nat \ S : \A n \in Nat \ S : m <= n
  BY NatMin
<1>2. m - 1 \in Nat /\ m - 1 \notin S
  BY <1>1
<1> QED BY <1>1, <1>2

-----------------------------------------------------------------------------
(* The clipboard *)

\* The editor after the first n bytes of the clipboard
Pastes(e, bytes, f, n) ==
  f = [k \in 0..n |-> IF k = 0 THEN DeleteSelection(e)
                      ELSE IF bytes[k] = CR THEN f[k - 1] ELSE Insert(f[k - 1], bytes[k])]

LEMMA PastesExist ==
  ASSUME NEW e, NEW bytes, NEW n \in Nat
  PROVE  \E f : Pastes(e, bytes, f, n)
<1> DEFINE S == {m \in Nat : \E f : Pastes(e, bytes, f, m)}
           b == DeleteSelection(e)
           Op(a, i) == IF bytes[i] = CR THEN a ELSE Insert(a, bytes[i])
<1>1. 0 \in S
  <2> DEFINE f == [i \in 0..0 |-> b]
  <2>1. \A i \in 0..0 : i = 0
    OBVIOUS
  <2>2. Pastes(e, bytes, f, 0)
    BY <2>1 DEF Pastes
  <2> QED BY <2>2
<1>2. ASSUME NEW m \in Nat, m \in S PROVE m + 1 \in S
  <2>1. PICK f : f = [i \in 0..m |-> IF i = 0 THEN b ELSE Op(f[i - 1], i)]
    BY <1>2 DEF Pastes
  <2> DEFINE h == [i \in 0..(m + 1) |-> IF i = m + 1 THEN Op(f[m], m + 1) ELSE f[i]]
  <2> HIDE DEF b, Op
  <2>2. \A i \in 0..m : h[i] = f[i] /\ f[i] = IF i = 0 THEN b ELSE Op(f[i - 1], i)
    <3> TAKE i \in 0..m
    <3>1. i \in 0..(m + 1) /\ i # m + 1
      OBVIOUS
    <3>2. f[i] = IF i = 0 THEN b ELSE Op(f[i - 1], i)
      BY <2>1
    <3> QED BY <3>1, <3>2
  <2>3. \A i \in 0..(m + 1) : h[i] = IF i = 0 THEN b ELSE Op(h[i - 1], i)
    <3> TAKE i \in 0..(m + 1)
    <3>1. CASE i = m + 1
      <4>1. h[i] = Op(f[m], i) /\ i # 0 /\ i - 1 = m /\ m \in 0..m
        BY <3>1
      <4>2. h[i - 1] = f[m]
        BY <2>2, <4>1
      <4> HIDE DEF h
      <4> QED BY <4>1, <4>2
    <3>2. CASE i = 0
      <4>1. i \in 0..m
        BY <3>2
      <4> HIDE DEF h
      <4> QED BY <2>2, <3>2, <4>1
    <3>3. CASE i \in 1..m
      <4>1. i \in 0..m /\ i - 1 \in 0..m /\ i # 0
        BY <3>3
      <4>2. h[i] = Op(f[i - 1], i) /\ h[i - 1] = f[i - 1]
        BY <2>2, <4>1
      <4> HIDE DEF h
      <4> QED BY <4>1, <4>2
    <3>4. i = m + 1 \/ i = 0 \/ i \in 1..m
      OBVIOUS
    <3> HIDE DEF h
    <3> QED BY <3>1, <3>2, <3>3, <3>4
  <2>4. h = [i \in 0..(m + 1) |-> h[i]]
    OBVIOUS
  <2> HIDE DEF h
  <2>5. h = [i \in 0..(m + 1) |-> IF i = 0 THEN b ELSE Op(h[i - 1], i)]
    BY <2>3, <2>4
  <2>6. Pastes(e, bytes, h, m + 1)
    BY <2>5 DEF Pastes, b, Op
  <2> QED BY <2>6
<1>3. Nat \subseteq S
  <2> HIDE DEF S
  <2> QED BY <1>1, <1>2, SetInduction
<1> QED BY <1>3

\* gt_editor_clipboard_paste
LEMMA PasteIsProper ==
  ASSUME NEW e, IsEditor(e), NEW clip \in Clips
  PROVE  Proper(e, Paste(e, clip))
<1> DEFINE n == Len(clip)
           pasted == CHOOSE f : Pastes(e, clip, f, n)
<1>1. n \in Nat
  <2>1. clip \in Seq(Chars \cup {CR})
    BY EditorAssumption
  <2> QED BY <2>1
<1>2. Paste(e, clip) = pasted[n]
  BY DEF Paste, Pastes
<1> HIDE DEF n
<1>3. Pastes(e, clip, pasted, n)
  <2>1. \E f : Pastes(e, clip, f, n)
    BY <1>1, PastesExist
  <2> QED BY <2>1
<1> HIDE DEF pasted
<1>4. pasted[0] = DeleteSelection(e)
      /\ \A i \in 1..n : pasted[i] = IF clip[i] = CR THEN pasted[i - 1]
                                     ELSE Insert(pasted[i - 1], clip[i])
  <2>1. \A i \in 0..n : pasted[i] = IF i = 0 THEN DeleteSelection(e)
                                    ELSE IF clip[i] = CR THEN pasted[i - 1]
                                    ELSE Insert(pasted[i - 1], clip[i])
    BY <1>3 DEF Pastes
  <2>2. 0 \in 0..n
    BY <1>1
  <2>3. \A i \in 1..n : i \in 0..n /\ i # 0
    OBVIOUS
  <2> QED BY <2>1, <2>2, <2>3
<1> DEFINE S == {i \in Nat : i <= n => Proper(e, pasted[i])}
<1>5. 0 \in S
  <2>1. Proper(e, DeleteSelection(e))
    BY DeleteSelectionIsProper
  <2> QED BY <1>4, <2>1
<1>6. ASSUME NEW i \in Nat, i \in S PROVE i + 1 \in S
  <2> SUFFICES ASSUME i + 1 <= n PROVE Proper(e, pasted[i + 1])
    OBVIOUS
  <2>1. Proper(e, pasted[i])
    BY <1>1, <1>6
  <2>2. pasted[i + 1] = IF clip[i + 1] = CR THEN pasted[i] ELSE Insert(pasted[i], clip[i + 1])
    <3>1. i + 1 \in 1..n /\ (i + 1) - 1 = i
      BY <1>1
    <3> QED BY <1>4, <3>1
  <2> DEFINE t == pasted[i]
             byte == clip[i + 1]
  <2>3. IsEditor(t)
    BY <2>1 DEF Proper
  <2> HIDE DEF t, byte
  <2>4. Proper(t, Insert(t, byte))
    BY <2>3, InsertIsProper
  <2>5. Proper(e, Insert(t, byte))
    BY <2>1, <2>4, ProperTrans DEF t
  <2> QED BY <2>1, <2>2, <2>5 DEF t, byte
<1>7. Nat \subseteq S
  <2> HIDE DEF S
  <2> QED BY <1>5, <1>6, SetInduction
<1> QED BY <1>1, <1>2, <1>7

-----------------------------------------------------------------------------
(* Frames *)

LEMMA EndedFields ==
  ASSUME NEW e, IsEditor(e), NEW r, r = Ended(e)
  PROVE  r.dirty = e.dirty /\ r.buf = e.buf
<1>1. CASE HasSelection(e)
  BY <1>1 DEF Ended
<1>2. CASE ~HasSelection(e)
  <2>1. r = NoAnchorSet(e)
    BY <1>2 DEF Ended, NoAnchorSet
  <2> QED BY <2>1, SetNoAnchor
<1> QED BY <1>1, <1>2

LEMMA FreshIsProper ==
  ASSUME IsEditor(ed)
  PROVE  Proper(ed, Fresh) /\ IsEditor(Fresh) /\ Fresh.buf = ed.buf
<1> DEFINE r == FreshSet(ed)
<1>1. Fresh = r
  BY DEF Fresh, FreshSet
<1>2. /\ IsEditor(r)
      /\ r.buf = ed.buf /\ r.caret = ed.caret /\ r.anchor = ed.anchor /\ r.sel = ed.sel
      /\ r.dirty = ed.dirty /\ r.open = ed.open /\ r.recs = ed.recs /\ r.cursor = ed.cursor
      /\ r.missed = ed.missed
  BY SetFresh
<1> HIDE DEF r
<1>3. Proper(ed, r)
  BY <1>2, SameIsProper
<1> QED BY <1>1, <1>2, <1>3

\* What a frame does to the struct and to what counts as the file
Follows ==
  /\ Proper(ed, ed')
  /\ ed.open = TRUE
  /\ disk' = IF ed'.dirty THEN Nil ELSE disk

LEMMA FrameFollows ==
  ASSUME IsEditor(ed), NEW e, Proper(Fresh, e), Frame(e)
  PROVE  Follows
<1>1. Proper(ed, e)
  BY FreshIsProper, ProperTrans
<1>2. IsEditor(e)
  BY <1>1 DEF Proper
<1>3. ed.open /\ ed' = Ended(e) /\ disk' = IF e.dirty THEN Nil ELSE disk
  BY DEF Frame
<1>4. Proper(e, ed')
  BY <1>2, <1>3, EndedIsProper
<1>5. ed'.dirty = e.dirty
  BY <1>2, <1>3, EndedFields
<1>6. Proper(ed, ed')
  BY <1>1, <1>4, ProperTrans
<1>7. ed.open = TRUE
  BY <1>3, Fields
<1>8. disk' = IF ed'.dirty THEN Nil ELSE disk
  BY <1>3, <1>5
<1> QED BY <1>6, <1>7, <1>8 DEF Follows

LEMMA ClosedFacts ==
  /\ IsEditor(Closed) /\ Closed.open = FALSE /\ Closed.missed = FALSE
  /\ Closed.buf = <<>> /\ Closed.caret = 0 /\ Closed.sel = FALSE /\ Closed.cursor = 0
  /\ Closed.recs = <<>> /\ Closed.dirty = FALSE
  /\ Ended(Closed) = Closed
<1>1. Closed \in EditorSet({<<>>, 0, NoBytes})
  BY DEF Closed, EditorSet
<1>2. IsEditor(Closed)
  <2> HIDE DEF EditorSet
  <2> QED BY <1>1 DEF IsEditor
<1>3. /\ Closed.open = FALSE /\ Closed.missed = FALSE
      /\ Closed.buf = <<>> /\ Closed.caret = 0 /\ Closed.sel = FALSE /\ Closed.cursor = 0
      /\ Closed.recs = <<>> /\ Closed.dirty = FALSE
  BY DEF Closed
<1>4. Ended(Closed) = [Closed EXCEPT !.sel = FALSE, !.anchor = 0]
  <2>1. ~HasSelection(Closed)
    BY <1>3 DEF HasSelection
  <2> QED BY <2>1 DEF Ended
<1>5. [Closed EXCEPT !.sel = FALSE, !.anchor = 0] = Closed
  <2>1. Closed.sel = FALSE /\ Closed.anchor = 0
    BY DEF Closed
  <2>2. [Closed EXCEPT !.sel = FALSE] = Closed
    BY <1>1, <2>1 DEF EditorSet
  <2>3. [Closed EXCEPT !.anchor = 0] = Closed
    BY <1>1, <2>1 DEF EditorSet
  <2> QED BY <2>2, <2>3
<1> QED BY <1>2, <1>3, <1>4, <1>5

LoadedFacts(r, bytes) ==
  /\ IsEditor(r) /\ r.open = TRUE /\ r.buf = bytes /\ r.caret = 0
  /\ r.sel = FALSE /\ r.cursor = 0 /\ r.recs = <<>> /\ r.missed = FALSE /\ r.dirty = FALSE

LEMMA LoadFacts ==
  ASSUME NEW buf
  PROVE  LoadedFacts(Loaded(buf), buf)
<1> DEFINE r == Loaded(buf)
<1>1. r = [Closed EXCEPT !.buf = buf, !.open = TRUE]
  BY DEF Loaded
<1> HIDE DEF r
<1>2. r \in EditorSet({<<>>, 0, NoBytes, buf})
  BY <1>1 DEF Closed, EditorSet
<1>3. IsEditor(r)
  <2> HIDE DEF EditorSet
  <2> QED BY <1>2 DEF IsEditor
<1>4. /\ r.open = TRUE /\ r.buf = buf /\ r.caret = 0
      /\ r.sel = FALSE /\ r.cursor = 0 /\ r.recs = <<>> /\ r.missed = FALSE /\ r.dirty = FALSE
  BY <1>1 DEF Closed
<1>5. LoadedFacts(r, buf)
  BY <1>3, <1>4 DEF LoadedFacts
<1> QED BY <1>5 DEF r

\* What a load gets of a file is no longer than the file.
LEMMA ReadsFacts ==
  ASSUME NEW text \in Files, NEW bytes \in Reads(text)
  PROVE  bytes \in Seq(Chars) /\ Len(bytes) <= Len(text) /\ Len(text) \in Nat
<1>1. text \in Seq(Chars) /\ Len(text) \in Nat /\ CodeCap \in Nat \ {0}
  BY EditorAssumption
<1>2. PICK n \in 0..(CodeCap - 1) : bytes = Upto(text, n)
  BY DEF Reads
<1> DEFINE m == IF Len(text) < n THEN Len(text) ELSE n
<1>3. m \in 0..Len(text) /\ bytes = SubSeq(text, 1, m)
  BY <1>1, <1>2 DEF Upto
<1> HIDE DEF m
<1>4. bytes \in Seq(Chars) /\ Len(bytes) = m
  BY <1>1, <1>3
<1> QED BY <1>1, <1>3, <1>4

\* A load opens a file, and gets something of it.
Opens(bytes, text) ==
  /\ LoadedFacts(ed', bytes) /\ text \in Files /\ bytes \in Reads(text)
  /\ disk' = bytes

SaveFollows ==
  /\ IsEditor(ed') /\ ed.open = TRUE /\ ed'.open = TRUE /\ ed'.buf = ed.buf
  /\ ed'.caret = ed.caret /\ ed'.anchor = ed.anchor /\ ed'.sel = ed.sel
  /\ ed'.recs = ed.recs /\ ed'.cursor = ed.cursor /\ ed'.missed = ed.missed
  /\ disk' \in {ed.buf, Nil}

LEMMA SaveFacts ==
  ASSUME IsEditor(ed), Save
  PROVE  SaveFollows
<1> DEFINE f == FreshSet(ed)
           r == SavedSet(f)
<1>1. Fresh = f
  BY DEF Fresh, FreshSet
<1>2. /\ IsEditor(f)
      /\ f.buf = ed.buf /\ f.caret = ed.caret /\ f.anchor = ed.anchor /\ f.sel = ed.sel
      /\ f.dirty = ed.dirty /\ f.open = ed.open /\ f.recs = ed.recs /\ f.cursor = ed.cursor
      /\ f.missed = ed.missed
  BY SetFresh
<1>3. /\ ed.open /\ ed' = [Fresh EXCEPT !.dirty = FALSE, !.warned = FALSE]
      /\ disk' \in {ed.buf, Nil}
  BY DEF Save
<1>4. ed' = r
  BY <1>1, <1>3 DEF SavedSet
<1> HIDE DEF f
<1>5. /\ IsEditor(r)
      /\ r.buf = f.buf /\ r.caret = f.caret /\ r.anchor = f.anchor /\ r.sel = f.sel
      /\ r.open = f.open /\ r.recs = f.recs /\ r.cursor = f.cursor /\ r.missed = f.missed
      /\ r.dirty = FALSE
  BY <1>2, SetSaved
<1> HIDE DEF r
<1>6. ed.open = TRUE
  BY <1>3, Fields
<1> QED BY <1>2, <1>3, <1>4, <1>5, <1>6 DEF SaveFollows

WarnedIsProper == IsEditor(Fresh) => Proper(Fresh, [Fresh EXCEPT !.warned = TRUE])

LEMMA WarnedLemma == WarnedIsProper
<1> SUFFICES ASSUME IsEditor(Fresh) PROVE Proper(Fresh, [Fresh EXCEPT !.warned = TRUE])
  BY DEF WarnedIsProper
<1> DEFINE f == Fresh
           r == WarnedSet(f)
<1>1. [Fresh EXCEPT !.warned = TRUE] = r
  BY DEF WarnedSet
<1> HIDE DEF f
<1>2. /\ IsEditor(r)
      /\ r.buf = f.buf /\ r.caret = f.caret /\ r.anchor = f.anchor /\ r.sel = f.sel
      /\ r.dirty = f.dirty /\ r.open = f.open /\ r.recs = f.recs /\ r.cursor = f.cursor
      /\ r.missed = f.missed
  BY SetWarned DEF f
<1> HIDE DEF r
<1>3. Proper(f, r)
  BY <1>2, SameIsProper
<1> QED BY <1>1, <1>3 DEF f

\* Every step of the editor is a frame that follows the rules, closes, saves
\* or loads.
LEMMA EveryStep ==
  ASSUME IsEditor(ed), [Next]_vars
  PROVE  \/ Follows
         \/ ed' = Closed
         \/ SaveFollows
         \/ \E bytes, text : Opens(bytes, text)
         \/ UNCHANGED <<ed, disk>>
<1> DEFINE e == Fresh
<1>1. IsEditor(e) /\ e.buf = ed.buf
  BY FreshIsProper
<1> HIDE DEF e
<1>2. CASE Type
  <2>1. PICK byte \in Typed : Frame(Insert(e, byte))
    BY <1>2 DEF Type, e
  <2>2. Proper(e, Insert(e, byte))
    BY <1>1, InsertIsProper
  <2> QED BY <2>1, <2>2, FrameFollows DEF e
<1>3. CASE Erase
  <2>1. Frame(Backspace(e)) \/ Frame(ForwardDelete(e))
    BY <1>3 DEF Erase, e
  <2>2. Proper(e, Backspace(e)) /\ Proper(e, ForwardDelete(e))
    BY <1>1, BackspaceIsProper, ForwardDeleteIsProper
  <2> QED BY <2>1, <2>2, FrameFollows DEF e
<1>4. CASE PasteClip
  <2>1. PICK clip \in Clips : Frame(Paste(e, clip))
    BY <1>4 DEF PasteClip, e
  <2>2. Proper(e, Paste(e, clip))
    BY <1>1, PasteIsProper
  <2> QED BY <2>1, <2>2, FrameFollows DEF e
<1>5. CASE CutClip
  <2>1. Frame(DeleteSelection(e))
    BY <1>5 DEF CutClip, e
  <2>2. Proper(e, DeleteSelection(e))
    BY <1>1, DeleteSelectionIsProper
  <2> QED BY <2>1, <2>2, FrameFollows DEF e
<1>6. CASE Undo
  <2>1. Frame(UndoOne(e))
    BY <1>6 DEF Undo, e
  <2>2. Proper(e, UndoOne(e))
    BY <1>1, UndoIsProper
  <2> QED BY <2>1, <2>2, FrameFollows DEF e
<1>7. CASE Redo
  <2>1. Frame(RedoOne(e))
    BY <1>7 DEF Redo, e
  <2>2. Proper(e, RedoOne(e))
    BY <1>1, RedoIsProper
  <2> QED BY <2>1, <2>2, FrameFollows DEF e
<1>8. CASE Select
  <2>1. Frame(SelectAll(e))
    BY <1>8 DEF Select, e
  <2>2. Proper(e, SelectAll(e))
    BY <1>1, SelectAllIsProper
  <2> QED BY <2>1, <2>2, FrameFollows DEF e
<1>9. CASE Move
  <2>1. PICK n \in Positions(ed), shift \in BOOLEAN : Frame(Moved(e, n, shift))
    BY <1>9 DEF Move, e
  <2>2. n \in 0..Len(e.buf)
    BY <1>1, <2>1 DEF Positions
  <2>3. Proper(e, Moved(e, n, shift))
    BY <1>1, <2>2, MovedIsProper
  <2> QED BY <2>1, <2>3, FrameFollows DEF e
<1>10. CASE Escape
  <2>1. CASE ed.dirty /\ ~ed.warned
    <3>1. Frame([Fresh EXCEPT !.warned = TRUE])
      BY <1>10, <2>1 DEF Escape
    <3>2. Proper(Fresh, [Fresh EXCEPT !.warned = TRUE])
      BY <1>1, WarnedLemma DEF WarnedIsProper, e
    <3> QED BY <3>1, <3>2, FrameFollows
  <2>2. CASE ~(ed.dirty /\ ~ed.warned)
    <3>1. ed' = Ended(Closed)
      BY <1>10, <2>2 DEF Escape, Frame
    <3> QED BY <3>1, ClosedFacts
  <2> QED BY <2>1, <2>2
<1>11. CASE Save
  BY <1>11, SaveFacts
<1>12. CASE Load
  <2>1. PICK text \in Files : \E bytes \in Reads(text) :
          ed' = Loaded(bytes) /\ disk' = bytes
    BY <1>12 DEF Load
  <2>0. PICK bytes \in Reads(text) : ed' = Loaded(bytes) /\ disk' = bytes
    BY <2>1
  <2>2. LoadedFacts(ed', bytes)
    BY <2>0, LoadFacts
  <2>3. Opens(bytes, text)
    BY <2>0, <2>1, <2>2 DEF Opens
  <2> QED BY <2>3
<1>13. CASE UNCHANGED vars
  BY <1>13 DEF vars
<1> QED BY <1>2, <1>3, <1>4, <1>5, <1>6, <1>7, <1>8, <1>9, <1>10, <1>11, <1>12, <1>13 DEF Next

-----------------------------------------------------------------------------
(* The script that counts as saved *)

SavedInv == IsEditor(ed) /\ CleanIsSaved

\* A buffer without "*unsaved" is what the last save wrote or the last load
\* got, for any files, clipboards and sizes, with files that cannot be opened or
\* read to the end: every operation that changes the text marks it, and only a
\* load and a save take the mark away (gt_editor_save, gt_editor_load_file,
\* gt_editor_undo, gt_editor_redo).
THEOREM CleanScriptIsSaved == Spec => []CleanIsSaved
<1>1. Init => SavedInv
  BY ClosedFacts DEF Init, SavedInv, CleanIsSaved
<1>2. SavedInv /\ [Next]_vars => SavedInv'
  <2> SUFFICES ASSUME SavedInv, [Next]_vars PROVE IsEditor(ed') /\ CleanIsSaved'
    BY DEF SavedInv
  <2>1. IsEditor(ed) /\ ed.open \in BOOLEAN /\ ed.dirty \in BOOLEAN
    BY Fields DEF SavedInv
  <2>2. CASE Follows
    <3>1. /\ IsEditor(ed') /\ ed.open = TRUE
          /\ ed'.dirty = TRUE \/ (ed'.buf = ed.buf /\ ed'.dirty = ed.dirty)
          /\ disk' = IF ed'.dirty THEN Nil ELSE disk
      BY <2>2 DEF Follows, Proper
    <3>2. ed'.dirty \in BOOLEAN
      BY <3>1, Fields
    <3> QED BY <2>1, <3>1, <3>2 DEF SavedInv, CleanIsSaved
  <2>3. CASE ed' = Closed
    BY <2>3, ClosedFacts DEF CleanIsSaved
  <2>4. CASE SaveFollows
    BY <2>4 DEF SaveFollows, CleanIsSaved
  <2>5. CASE \E bytes, text : Opens(bytes, text)
    <3>1. PICK bytes, text : Opens(bytes, text)
      BY <2>5
    <3>2. IsEditor(ed') /\ ed'.buf = bytes /\ disk' = bytes
      BY <3>1 DEF Opens, LoadedFacts
    <3> QED BY <3>2 DEF CleanIsSaved
  <2>6. CASE UNCHANGED <<ed, disk>>
    BY <2>1, <2>6 DEF SavedInv, CleanIsSaved
  <2> QED BY <2>1, <2>2, <2>3, <2>4, <2>5, <2>6, EveryStep
<1> QED BY <1>1, <1>2, PTL DEF Spec, SavedInv

-----------------------------------------------------------------------------
(* The caret and the log fit the text *)

InsideInv == IsEditor(ed) /\ (ed = Closed \/ (ed.open = TRUE /\ Inside(ed)))

LEMMA InsideInductive == FilesFit /\ Spec => []InsideInv
<1>1. Init => InsideInv
  BY ClosedFacts DEF Init, InsideInv
<1>2. FilesFit /\ InsideInv /\ [Next]_vars => InsideInv'
  <2> SUFFICES ASSUME FilesFit, InsideInv, [Next]_vars
               PROVE  IsEditor(ed') /\ (ed' = Closed \/ (ed'.open = TRUE /\ Inside(ed')))
    BY DEF InsideInv
  <2>1. IsEditor(ed) /\ (ed.open = TRUE => Inside(ed))
    BY ClosedFacts DEF InsideInv
  <2>2. CASE Follows
    BY <2>1, <2>2 DEF Follows, Proper
  <2>3. CASE ed' = Closed
    BY <2>3, ClosedFacts
  <2>4. CASE SaveFollows
    <3> DEFINE r == ed'
    <3>1. /\ IsEditor(r) /\ ed.open = TRUE /\ r.open = TRUE /\ r.buf = ed.buf
          /\ r.caret = ed.caret /\ r.anchor = ed.anchor /\ r.sel = ed.sel
          /\ r.recs = ed.recs /\ r.cursor = ed.cursor /\ r.missed = ed.missed
      BY <2>4 DEF SaveFollows
    <3> HIDE DEF r
    <3>2. ASSUME Within(ed) PROVE Within(r)
      <4>1. Log(r, Len(r.buf))
        BY <3>1, <3>2 DEF Within, Log
      <4> QED BY <3>1, <3>2, <4>1 DEF Within
    <3>3. Inside(r)
      BY <2>1, <3>1, <3>2 DEF Inside
    <3> QED BY <3>1, <3>3 DEF r
  <2>5. CASE \E bytes, text : Opens(bytes, text)
    <3> DEFINE r == ed'
    <3>0. PICK bytes, text : Opens(bytes, text)
      BY <2>5
    <3>1. LoadedFacts(r, bytes) /\ text \in Files /\ bytes \in Reads(text)
      BY <3>0 DEF Opens
    <3> HIDE DEF r
    <3>2. Len(text) < CodeCap - 1 /\ CodeCap \in Nat
      BY <3>1, EditorAssumption DEF FilesFit
    <3>3. bytes \in Seq(Chars) /\ Len(bytes) <= Len(text) /\ Len(text) \in Nat
      BY <3>1, ReadsFacts
    <3>4. IsText(bytes)
      BY <3>3 DEF IsText
    <3>5. Len(bytes) \in 0..(CodeCap - 2)
      BY <3>2, <3>3
    <3>6. r.buf = bytes
      BY <3>1 DEF LoadedFacts
    <3>7. IsText(r.buf) /\ Len(r.buf) \in 0..(CodeCap - 2)
      BY <3>4, <3>5, <3>6
    <3>8. Log(r, Len(r.buf))
      BY <3>1, <3>7, NoChain DEF Log, LoadedFacts
    <3>9. Within(r)
      BY <3>1, <3>7, <3>8 DEF Within, LoadedFacts
    <3> QED BY <3>1, <3>9 DEF Inside, LoadedFacts, r
  <2>6. CASE UNCHANGED <<ed, disk>>
    BY <2>6 DEF InsideInv
  <2> QED BY <2>1, <2>2, <2>3, <2>4, <2>5, <2>6, EveryStep
<1>3. FilesFit => []FilesFit
  <2>1. FilesFit => FilesFit'
    BY DEF FilesFit
  <2> QED BY <2>1, PTL
<1> QED BY <1>1, <1>2, <1>3, PTL DEF Spec

\* The texts that n undos go through
Texts(e, f, n) ==
  f = [k \in 0..n |-> IF k = 0 THEN e.buf
                      ELSE Undone(e, f[k - 1], e.recs[e.cursor - k + 1])]

LEMMA TextsExist ==
  ASSUME NEW e, NEW n \in Nat
  PROVE  \E f : Texts(e, f, n)
<1> DEFINE S == {m \in Nat : \E f : Texts(e, f, m)}
           b == e.buf
           Op(a, i) == Undone(e, a, e.recs[e.cursor - i + 1])
<1>1. 0 \in S
  <2> DEFINE f == [i \in 0..0 |-> b]
  <2>1. \A i \in 0..0 : i = 0
    OBVIOUS
  <2>2. Texts(e, f, 0)
    BY <2>1 DEF Texts
  <2> QED BY <2>2
<1>2. ASSUME NEW m \in Nat, m \in S PROVE m + 1 \in S
  <2>1. PICK f : f = [i \in 0..m |-> IF i = 0 THEN b ELSE Op(f[i - 1], i)]
    BY <1>2 DEF Texts
  <2> DEFINE h == [i \in 0..(m + 1) |-> IF i = m + 1 THEN Op(f[m], m + 1) ELSE f[i]]
  <2> HIDE DEF b, Op
  <2>2. \A i \in 0..m : h[i] = f[i] /\ f[i] = IF i = 0 THEN b ELSE Op(f[i - 1], i)
    <3> TAKE i \in 0..m
    <3>1. i \in 0..(m + 1) /\ i # m + 1
      OBVIOUS
    <3>2. f[i] = IF i = 0 THEN b ELSE Op(f[i - 1], i)
      BY <2>1
    <3> QED BY <3>1, <3>2
  <2>3. \A i \in 0..(m + 1) : h[i] = IF i = 0 THEN b ELSE Op(h[i - 1], i)
    <3> TAKE i \in 0..(m + 1)
    <3>1. CASE i = m + 1
      <4>1. h[i] = Op(f[m], i) /\ i # 0 /\ i - 1 = m /\ m \in 0..m
        BY <3>1
      <4>2. h[i - 1] = f[m]
        BY <2>2, <4>1
      <4> HIDE DEF h
      <4> QED BY <4>1, <4>2
    <3>2. CASE i = 0
      <4>1. i \in 0..m
        BY <3>2
      <4> HIDE DEF h
      <4> QED BY <2>2, <3>2, <4>1
    <3>3. CASE i \in 1..m
      <4>1. i \in 0..m /\ i - 1 \in 0..m /\ i # 0
        BY <3>3
      <4>2. h[i] = Op(f[i - 1], i) /\ h[i - 1] = f[i - 1]
        BY <2>2, <4>1
      <4> HIDE DEF h
      <4> QED BY <4>1, <4>2
    <3>4. i = m + 1 \/ i = 0 \/ i \in 1..m
      OBVIOUS
    <3> HIDE DEF h
    <3> QED BY <3>1, <3>2, <3>3, <3>4
  <2>4. h = [i \in 0..(m + 1) |-> h[i]]
    OBVIOUS
  <2> HIDE DEF h
  <2>5. h = [i \in 0..(m + 1) |-> IF i = 0 THEN b ELSE Op(h[i - 1], i)]
    BY <2>3, <2>4
  <2>6. Texts(e, h, m + 1)
    BY <2>5 DEF Texts, b, Op
  <2> QED BY <2>6
<1>3. Nat \subseteq S
  <2> HIDE DEF S
  <2> QED BY <1>1, <1>2, SetInduction
<1> QED BY <1>3

\* They have the lengths of the chain.
LEMMA TextsFit ==
  ASSUME NEW e, Within(e), NEW f, Texts(e, f, e.cursor),
         NEW size, Sizes(e.recs, size), size[e.cursor] = Len(e.buf)
  PROVE  /\ e.cursor \in Nat
         /\ \A k \in 0..e.cursor : IsText(f[k]) /\ Len(f[k]) = size[e.cursor - k]
<1> DEFINE c == e.cursor
           Good(k) == IsText(f[k]) /\ Len(f[k]) = size[c - k]
           S == {k \in Nat : k <= c => Good(k)}
<1>1. IsText(e.buf) /\ IsLog(e.recs) /\ c \in 0..Len(e.recs) /\ Len(e.recs) \in Nat
  BY DEF Within, Log, Chain, IsLog
<1>2. \A k \in 0..c : f[k] = IF k = 0 THEN e.buf ELSE Undone(e, f[k - 1], e.recs[c - k + 1])
  BY DEF Texts
<1>3. 0 \in S
  <2>1. f[0] = e.buf
    BY <1>1, <1>2
  <2> QED BY <1>1, <2>1
<1>4. ASSUME NEW k \in Nat, k \in S PROVE k + 1 \in S
  <2> SUFFICES ASSUME k + 1 <= c PROVE Good(k + 1)
    OBVIOUS
  <2>1. Good(k)
    BY <1>1, <1>4
  <2> DEFINE i == c - k
             rec == e.recs[i]
             buf == f[k]
  <2>2. i \in 1..Len(e.recs) /\ c - (k + 1) = i - 1
    BY <1>1
  <2>3. f[k + 1] = Undone(e, buf, rec)
    <3>1. k + 1 \in 0..c /\ k + 1 # 0 /\ (k + 1) - 1 = k /\ c - (k + 1) + 1 = i
      BY <1>1
    <3> HIDE DEF i
    <3> QED BY <1>2, <3>1
  <2>4. IsText(buf) /\ Len(buf) = size[i]
    BY <2>1
  <2> HIDE DEF i, buf
  <2>5. IsRecord(rec) /\ Fits(rec, size[i - 1], size[i]) /\ size[i - 1] \in 0..(CodeCap - 2)
    BY <1>1, <2>2, ChainStep
  <2> HIDE DEF rec
  <2>6. IsText(Undone(e, buf, rec)) /\ Len(Undone(e, buf, rec)) = size[i - 1]
    BY <2>4, <2>5, UndoneText
  <2> QED BY <2>2, <2>3, <2>6
<1>5. Nat \subseteq S
  <2> HIDE DEF Good
  <2>1. \A k \in Nat : k \in S => k + 1 \in S
    BY <1>4
  <2>2. 0 \in S
    BY <1>3
  <2> HIDE DEF S
  <2> QED BY <2>1, <2>2, SetInduction
<1>6. \A k \in 0..c : Good(k)
  <2> HIDE DEF Good
  <2> QED BY <1>1, <1>5
<1> QED BY <1>1, <1>6

\* For any clipboards and sizes, and any files that leave room for what an
\* undo puts back: as long as no deletion is missing in the log, the caret and
\* the selection are inside the text, and no undo in a row of undos removes
\* bytes that are not there (gt_editor_undo, gt_buf_delete_raw).
THEOREM CaretAndLogInsideText == FilesFit /\ Spec => []InsideText
<1>1. InsideInv => InsideText
  <2> SUFFICES ASSUME InsideInv, ~ed.missed PROVE
        /\ Len(ed.buf) < CodeCap
        /\ ed.caret \in 0..Len(ed.buf)
        /\ ed.sel => ed.anchor \in 0..Len(ed.buf)
        /\ \A i \in 1..ed.cursor : ed.recs[i].kind = Insertion =>
              ed.recs[i].pos + ed.recs[i].len
                <= Len(IF i = ed.cursor THEN ed.buf ELSE Back[i + 1])
    BY DEF InsideText, Positions
  <2>1. CASE ed = Closed
    <3>1. /\ ed.buf = <<>> /\ ed.caret = 0 /\ ed.sel = FALSE /\ ed.cursor = 0
      BY <2>1, ClosedFacts
    <3>2. Len(<<>>) = 0 /\ CodeCap \in Nat \ {0}
      BY EditorAssumption
    <3> QED BY <3>1, <3>2
  <2>2. CASE Within(ed)
    <3>1. /\ IsText(ed.buf) /\ ed.caret \in 0..Len(ed.buf)
          /\ ed.sel => ed.anchor \in 0..Len(ed.buf)
          /\ IsLog(ed.recs) /\ Chain(ed.recs, ed.cursor, Len(ed.buf))
      BY <2>2 DEF Within, Log
    <3>2. PICK size : Sizes(ed.recs, size) /\ size[ed.cursor] = Len(ed.buf)
      BY <3>1 DEF Chain
    <3>3. ed.cursor \in 0..Len(ed.recs) /\ Len(ed.recs) \in Nat
      BY <3>1 DEF Chain, IsLog
    <3>4. Len(ed.buf) < CodeCap
      <4>1. Len(ed.buf) \in 0..(CodeCap - 2)
        BY <3>2, <3>3 DEF Sizes
      <4> QED BY <4>1, EditorAssumption
    <3> DEFINE n == ed.cursor
               t == CHOOSE f : Texts(ed, f, n)
    <3>5. Texts(ed, t, n)
      <4>0. n \in Nat
        BY <3>3
      <4> HIDE DEF n
      <4>1. \E f : Texts(ed, f, n)
        BY <4>0, TextsExist
      <4> QED BY <4>1
    <3>6. Back = [i \in 1..n |-> t[n - i + 1]]
      BY DEF Back, Texts
    <3> HIDE DEF t
    <3>7. \A k \in 0..n : Len(t[k]) = size[n - k]
      BY <2>2, <3>2, <3>5, TextsFit
    <3>8. ASSUME NEW i \in 1..n, ed.recs[i].kind = Insertion
          PROVE  ed.recs[i].pos + ed.recs[i].len
                   <= Len(IF i = n THEN ed.buf ELSE Back[i + 1])
      <4> DEFINE rec == ed.recs[i]
      <4>1. i \in 1..Len(ed.recs)
        BY <3>3
      <4>2. IsRecord(rec) /\ Fits(rec, size[i - 1], size[i]) /\ size[i - 1] \in Nat
        BY <3>1, <3>2, <4>1, ChainStep
      <4>3. rec.kind = Insertion
        BY <3>8
      <4> HIDE DEF rec
      <4>4. rec.pos + rec.len <= size[i]
        BY <4>2, <4>3 DEF Fits, IsRecord
      <4>5. Len(IF i = n THEN ed.buf ELSE Back[i + 1]) = size[i]
        <5>1. CASE i = n
          BY <3>2, <5>1
        <5>2. CASE i # n
          <6>1. i + 1 \in 1..n /\ n - (i + 1) + 1 = n - i /\ n - i \in 0..n /\ n - (n - i) = i
            BY <3>3, <5>2
          <6>2. Back[i + 1] = t[n - i]
            BY <3>6, <6>1
          <6> QED BY <3>7, <5>2, <6>1, <6>2
        <5> QED BY <5>1, <5>2
      <4> QED BY <4>4, <4>5 DEF rec
    <3> QED BY <3>1, <3>4, <3>8
  <2> QED BY <2>1, <2>2, Fields DEF InsideInv, Inside
<1> QED BY <1>1, InsideInductive, PTL

-----------------------------------------------------------------------------
(* The least and the largest of some naturals *)

\* Any naturals have a least one, and bounded ones a largest.
LEMMA MinFacts ==
  ASSUME NEW s \in SUBSET Nat, s # {}
  PROVE  Scene!Min(s) \in s /\ \A k \in s : Scene!Min(s) <= k
<1>1. \E m \in s : \A k \in s : m <= k
  BY NatMin
<1> QED BY <1>1 DEF Scene!Min

LEMMA MaxFacts ==
  ASSUME NEW n \in Nat, NEW s \in SUBSET (0..n), s # {}
  PROVE  Scene!Max(s) \in s /\ \A k \in s : k <= Scene!Max(s)
<1> DEFINE T == {n - m : m \in s}
<1>0. \A m \in s : m \in Nat /\ n - m \in Nat
  OBVIOUS
<1>1. T \in SUBSET Nat /\ T # {}
  BY <1>0
<1>2. PICK d \in T : \A k \in T : d <= k
  BY <1>1, NatMin
<1>3. PICK m \in s : d = n - m
  OBVIOUS
<1>4. \A k \in s : n - k \in T
  OBVIOUS
<1> HIDE DEF T
<1>5. \A k \in s : d <= n - k
  BY <1>2, <1>4
<1>6. \A k \in s : m >= k
  BY <1>0, <1>3, <1>5
<1>7. Scene!Max(s) \in s /\ \A k \in s : Scene!Max(s) >= k
  BY <1>6 DEF Scene!Max
<1>8. \A k \in s : k <= Scene!Max(s)
  BY <1>0, <1>7
<1> QED BY <1>7, <1>8

LEMMA MaxIs ==
  ASSUME NEW s \in SUBSET Int, NEW m \in s, \A k \in s : k <= m
  PROVE  Scene!Max(s) = m
<1>1. \A k \in s : m >= k
  OBVIOUS
<1>2. Scene!Max(s) \in s /\ \A k \in s : Scene!Max(s) >= k
  BY <1>1 DEF Scene!Max
<1>3. m <= Scene!Max(s) /\ Scene!Max(s) <= m /\ m \in Int /\ Scene!Max(s) \in Int
  BY <1>2
<1> QED BY <1>3

-----------------------------------------------------------------------------
(* Bytes into a text and out of it *)

Bytes == Chars \cup {CR}

\* bytes in front of the byte at pos
Spliced(s, pos, bytes) == SubSeq(s, 1, pos) \o bytes \o SubSeq(s, pos + 1, Len(s))

\* The two of them byte by byte, for texts over S
IsSpliced(S, u, s, pos, bytes) ==
  /\ u \in Seq(S) /\ Len(u) = Len(s) + Len(bytes)
  /\ \A i \in 1..(Len(s) + Len(bytes)) : u[i] =
       IF i <= pos THEN s[i]
       ELSE IF i <= pos + Len(bytes) THEN bytes[i - pos] ELSE s[i - Len(bytes)]
IsWithout(S, u, s, pos, n) ==
  /\ u \in Seq(S) /\ Len(u) = Len(s) - n
  /\ \A i \in 1..(Len(s) - n) : u[i] = IF i <= pos THEN s[i] ELSE s[i + n]

LEMMA SplicedSeq ==
  ASSUME NEW S, NEW s \in Seq(S), NEW bytes \in Seq(S), NEW pos \in 0..Len(s)
  PROVE  IsSpliced(S, Spliced(s, pos, bytes), s, pos, bytes)
<1> DEFINE a == SubSeq(s, 1, pos)
           b == SubSeq(s, pos + 1, Len(s))
           n == Len(bytes)
<1>1. Len(s) \in Nat /\ n \in Nat
  OBVIOUS
<1>2. a \in Seq(S) /\ Len(a) = pos /\ \A i \in 1..pos : a[i] = s[i]
  OBVIOUS
<1>3. b \in Seq(S) /\ Len(b) = Len(s) - pos /\ \A i \in 1..(Len(s) - pos) : b[i] = s[pos + i]
  OBVIOUS
<1> HIDE DEF a, b
<1> DEFINE c == a \o bytes
<1>4. /\ c \in Seq(S) /\ Len(c) = pos + n
      /\ \A i \in 1..(pos + n) : c[i] = IF i <= pos THEN s[i] ELSE bytes[i - pos]
  BY <1>1, <1>2, SMTT(40)
<1> HIDE DEF c, n
<1>5. c \o b \in Seq(S) /\ Len(c \o b) = Len(s) + n
  <2>1. c \o b \in Seq(S) /\ Len(c \o b) = Len(c) + Len(b)
    BY <1>3, <1>4
  <2>2. (pos + n) + (Len(s) - pos) = Len(s) + n
    BY <1>1
  <2> QED BY <1>3, <1>4, <2>1, <2>2
<1>6. ASSUME NEW i \in 1..(Len(s) + n)
      PROVE  (c \o b)[i] = IF i <= pos THEN s[i]
                           ELSE IF i <= pos + n THEN bytes[i - pos] ELSE s[i - n]
  <2>1. (c \o b)[i] = IF i <= pos + n THEN c[i] ELSE b[i - (pos + n)]
    <3>1. Len(c) = pos + n /\ i \in 1..(Len(c) + Len(b)) /\ Len(c) \in Nat /\ Len(b) \in Nat
      BY <1>1, <1>3, <1>4
    <3>2. (c \o b)[i] = IF i <= Len(c) THEN c[i] ELSE b[i - Len(c)]
      BY <1>3, <1>4, <3>1
    <3> QED BY <3>1, <3>2
  <2>2. CASE i <= pos + n
    BY <1>1, <1>4, <2>1, <2>2
  <2>3. CASE i > pos + n
    <3>1. i - (pos + n) \in 1..(Len(s) - pos) /\ pos + (i - (pos + n)) = i - n
      BY <1>1, <2>3
    <3>2. b[i - (pos + n)] = s[i - n]
      BY <1>3, <3>1
    <3> QED BY <1>1, <2>1, <2>3, <3>2
  <2>4. i <= pos + n \/ i > pos + n
    BY <1>1
  <2> QED BY <2>2, <2>3, <2>4
<1>7. Spliced(s, pos, bytes) = c \o b
  BY DEF Spliced, a, b, c
<1> QED BY <1>5, <1>6, <1>7 DEF n, IsSpliced

LEMMA WithoutSeq ==
  ASSUME NEW S, NEW s \in Seq(S), NEW pos \in Nat, NEW n \in Nat, pos + n <= Len(s)
  PROVE  IsWithout(S, Without(s, pos, n), s, pos, n)
<1> DEFINE a == SubSeq(s, 1, pos)
           b == SubSeq(s, pos + n + 1, Len(s))
<1>1. Len(s) \in Nat
  OBVIOUS
<1>2. a \in Seq(S) /\ Len(a) = pos /\ \A i \in 1..pos : a[i] = s[i]
  BY <1>1
<1>3. b \in Seq(S) /\ Len(b) = Len(s) - (pos + n)
      /\ \A i \in 1..(Len(s) - (pos + n)) : b[i] = s[pos + n + i]
  BY <1>1
<1>4. Without(s, pos, n) = a \o b
  BY DEF Without
<1> HIDE DEF a, b
<1>5. a \o b \in Seq(S) /\ Len(a \o b) = Len(s) - n
  BY <1>1, <1>2, <1>3
<1>6. ASSUME NEW i \in 1..(Len(s) - n)
      PROVE  (a \o b)[i] = IF i <= pos THEN s[i] ELSE s[i + n]
  <2>1. (a \o b)[i] = IF i <= pos THEN a[i] ELSE b[i - pos]
    <3> DEFINE l == Len(b)
    <3>1. l \in Nat /\ pos + l = Len(s) - n
      BY <1>1, <1>3
    <3>2. Len(b) = l
      OBVIOUS
    <3> HIDE DEF l
    <3>3. i \in 1..(pos + l)
      BY <3>1
    <3> QED BY <1>2, <1>3, <3>1, <3>2, <3>3
  <2>2. CASE i <= pos
    BY <1>2, <2>1, <2>2
  <2>3. CASE i > pos
    <3>1. i - pos \in 1..(Len(s) - (pos + n)) /\ pos + n + (i - pos) = i + n
      BY <1>1, <2>3
    <3> QED BY <1>3, <2>1, <2>3, <3>1
  <2>4. i <= pos \/ i > pos
    BY <1>1
  <2> QED BY <2>2, <2>3, <2>4
<1> QED BY <1>4, <1>5, <1>6 DEF IsWithout

\* What was put in is taken out again.
LEMMA WithoutSpliced ==
  ASSUME NEW S, NEW s \in Seq(S), NEW bytes \in Seq(S), NEW pos \in 0..Len(s)
  PROVE  Without(Spliced(s, pos, bytes), pos, Len(bytes)) = s
<1> DEFINE t == Spliced(s, pos, bytes)
           n == Len(bytes)
           u == Without(t, pos, n)
<1>1. /\ t \in Seq(S) /\ Len(t) = Len(s) + n
      /\ \A i \in 1..(Len(s) + n) : t[i] =
           IF i <= pos THEN s[i] ELSE IF i <= pos + n THEN bytes[i - pos] ELSE s[i - n]
  BY SplicedSeq DEF IsSpliced
<1>2. Len(s) \in Nat /\ n \in Nat
  OBVIOUS
<1> HIDE DEF t, n
<1>3. /\ u \in Seq(S) /\ Len(u) = Len(t) - n
      /\ \A i \in 1..(Len(t) - n) : u[i] = IF i <= pos THEN t[i] ELSE t[i + n]
  <2>1. pos \in Nat /\ pos + n <= Len(t)
    BY <1>1, <1>2
  <2>2. IsWithout(S, u, t, pos, n)
    BY <1>1, <1>2, <2>1, WithoutSeq
  <2> QED BY <2>2 DEF IsWithout
<1> HIDE DEF u
<1>4. Len(u) = Len(s)
  BY <1>1, <1>2, <1>3
<1>5. ASSUME NEW i \in 1..Len(s) PROVE u[i] = s[i]
  <2>1. u[i] = IF i <= pos THEN t[i] ELSE t[i + n]
    <3>1. i \in 1..(Len(t) - n)
      BY <1>1, <1>2
    <3> QED BY <1>3, <3>1
  <2>2. CASE i <= pos
    BY <1>1, <1>2, <2>1, <2>2
  <2>3. CASE i > pos
    <3>1. i + n \in 1..(Len(s) + n) /\ ~(i + n <= pos + n) /\ ~(i + n <= pos) /\ (i + n) - n = i
      BY <1>2, <2>3
    <3> QED BY <1>1, <2>1, <2>3, <3>1
  <2> QED BY <2>2, <2>3
<1>6. u = s
  BY <1>3, <1>4, <1>5, SeqEqual
<1> QED BY <1>6 DEF u, t, n

\* What was taken out is put in again.
LEMMA SplicedWithout ==
  ASSUME NEW S, NEW s \in Seq(S), NEW pos \in Nat, NEW n \in Nat, pos + n <= Len(s)
  PROVE  LET out == SubSeq(s, pos + 1, pos + n)
         IN  /\ out \in Seq(S) /\ Len(out) = n
             /\ s = Spliced(Without(s, pos, n), pos, out)
<1> DEFINE out == SubSeq(s, pos + 1, pos + n)
           t == Without(s, pos, n)
           u == Spliced(t, pos, out)
<1>1. Len(s) \in Nat
  OBVIOUS
<1>2. out \in Seq(S) /\ Len(out) = n /\ \A i \in 1..n : out[i] = s[pos + i]
  BY <1>1
<1>3. /\ t \in Seq(S) /\ Len(t) = Len(s) - n
      /\ \A i \in 1..(Len(s) - n) : t[i] = IF i <= pos THEN s[i] ELSE s[i + n]
  <2>1. IsWithout(S, t, s, pos, n)
    BY WithoutSeq
  <2> HIDE DEF t
  <2> QED BY <2>1 DEF IsWithout
<1> HIDE DEF out, t
<1>4. pos \in 0..Len(t)
  BY <1>1, <1>3
<1>5. /\ u \in Seq(S) /\ Len(u) = Len(t) + Len(out)
      /\ \A i \in 1..(Len(t) + Len(out)) : u[i] =
           IF i <= pos THEN t[i] ELSE IF i <= pos + Len(out) THEN out[i - pos] ELSE t[i - Len(out)]
  <2>1. IsSpliced(S, u, t, pos, out)
    BY <1>2, <1>3, <1>4, SplicedSeq
  <2> QED BY <2>1 DEF IsSpliced
<1> HIDE DEF u
<1>6. Len(u) = Len(s)
  BY <1>1, <1>2, <1>3, <1>5
<1>7. ASSUME NEW i \in 1..Len(s) PROVE u[i] = s[i]
  <2>1. u[i] = IF i <= pos THEN t[i] ELSE IF i <= pos + n THEN out[i - pos] ELSE t[i - n]
    BY <1>1, <1>2, <1>3, <1>5
  <2>2. CASE i <= pos
    <3>1. i \in 1..(Len(s) - n)
      BY <1>1, <2>2
    <3> QED BY <1>3, <2>1, <2>2, <3>1
  <2>3. CASE i > pos /\ i <= pos + n
    <3>1. i - pos \in 1..n /\ pos + (i - pos) = i
      BY <2>3
    <3> QED BY <1>2, <2>1, <2>3, <3>1
  <2>4. CASE i > pos + n
    <3>1. i - n \in 1..(Len(s) - n) /\ ~(i - n <= pos) /\ (i - n) + n = i /\ ~(i <= pos)
      BY <1>1, <2>4
    <3> QED BY <1>3, <2>1, <2>4, <3>1
  <2> QED BY <2>2, <2>3, <2>4
<1>8. u = s
  BY <1>5, <1>6, <1>7, SeqEqual
<1> QED BY <1>2, <1>8 DEF u, out, t

\* A byte behind those that were put in
LEMMA SplicedByte ==
  ASSUME NEW S, NEW s \in Seq(S), NEW bytes \in Seq(S), NEW pos \in 0..Len(s), NEW byte \in S
  PROVE  Spliced(Spliced(s, pos, bytes), pos + Len(bytes), <<byte>>)
           = Spliced(s, pos, Append(bytes, byte))
<1> DEFINE n == Len(bytes)
           t == Spliced(s, pos, bytes)
           u == Spliced(t, pos + n, <<byte>>)
           more == Append(bytes, byte)
           v == Spliced(s, pos, more)
           one == <<byte>>
<1>1. Len(s) \in Nat /\ n \in Nat
  OBVIOUS
<1>2. one \in Seq(S) /\ Len(one) = 1 /\ one[1] = byte
  OBVIOUS
<1>3. more \in Seq(S) /\ Len(more) = n + 1 /\ more[n + 1] = byte
      /\ \A i \in 1..n : more[i] = bytes[i]
  OBVIOUS
<1>4. /\ t \in Seq(S) /\ Len(t) = Len(s) + n
      /\ \A i \in 1..(Len(s) + n) : t[i] =
           IF i <= pos THEN s[i] ELSE IF i <= pos + n THEN bytes[i - pos] ELSE s[i - n]
  BY SplicedSeq DEF IsSpliced
<1> HIDE DEF t, n, more, one
<1>5. pos + n \in 0..Len(t)
  BY <1>1, <1>4
<1> DEFINE w == Spliced(t, pos + n, one)
<1>6. /\ w \in Seq(S) /\ Len(w) = Len(t) + Len(one)
      /\ \A i \in 1..(Len(t) + Len(one)) : w[i] =
           IF i <= pos + n THEN t[i]
           ELSE IF i <= pos + n + Len(one) THEN one[i - (pos + n)] ELSE t[i - Len(one)]
  <2>1. IsSpliced(S, w, t, pos + n, one)
    BY <1>2, <1>4, <1>5, SplicedSeq
  <2> QED BY <2>1 DEF IsSpliced
<1>7. /\ v \in Seq(S) /\ Len(v) = Len(s) + Len(more)
      /\ \A i \in 1..(Len(s) + Len(more)) : v[i] =
           IF i <= pos THEN s[i]
           ELSE IF i <= pos + Len(more) THEN more[i - pos] ELSE s[i - Len(more)]
  <2>1. IsSpliced(S, v, s, pos, more)
    BY <1>3, SplicedSeq
  <2> QED BY <2>1 DEF IsSpliced
<1> HIDE DEF v, w
<1>8. Len(w) = Len(s) + n + 1 /\ Len(v) = Len(s) + n + 1
  BY <1>1, <1>2, <1>3, <1>4, <1>6, <1>7
<1>9. ASSUME NEW i \in 1..(Len(s) + n + 1) PROVE w[i] = v[i]
  <2>1. w[i] = IF i <= pos + n THEN t[i]
               ELSE IF i <= pos + n + 1 THEN one[i - (pos + n)] ELSE t[i - 1]
    BY <1>1, <1>2, <1>4, <1>6
  <2>2. v[i] = IF i <= pos THEN s[i]
               ELSE IF i <= pos + n + 1 THEN more[i - pos] ELSE s[i - (n + 1)]
    <3>1. i \in 1..(Len(s) + Len(more)) /\ Len(more) = n + 1 /\ pos + Len(more) = pos + n + 1
      BY <1>1, <1>3
    <3> QED BY <1>7, <3>1
  <2>3. CASE i <= pos
    BY <1>1, <1>4, <2>1, <2>2, <2>3
  <2>4. CASE i > pos /\ i <= pos + n
    <3>1. i - pos \in 1..n /\ i \in 1..(Len(s) + n)
      BY <1>1, <2>4
    <3> QED BY <1>1, <1>3, <1>4, <2>1, <2>2, <2>4, <3>1
  <2>5. CASE i = pos + n + 1
    <3>1. i - (pos + n) = 1 /\ i - pos = n + 1
      BY <1>1, <2>5
    <3> QED BY <1>1, <1>2, <1>3, <2>1, <2>2, <2>5, <3>1
  <2>6. CASE i > pos + n + 1
    <3>1. i - 1 \in 1..(Len(s) + n) /\ ~(i - 1 <= pos) /\ ~(i - 1 <= pos + n)
          /\ (i - 1) - n = i - (n + 1)
      BY <1>1, <2>6
    <3> QED BY <1>1, <1>4, <2>1, <2>2, <2>6, <3>1
  <2> QED BY <1>1, <2>3, <2>4, <2>5, <2>6
<1>10. w = v
  BY <1>6, <1>7, <1>8, <1>9, SeqEqual
<1> QED BY <1>10 DEF w, v, t, n, more, one

-----------------------------------------------------------------------------
(* The log field by field *)

SameLog(e, r) ==
  /\ r.recs = e.recs /\ r.cursor = e.cursor /\ r.used = e.used /\ r.arena = e.arena
  /\ r.lost = e.lost /\ r.missed = e.missed

\* What is about the text, the caret and the marks leaves the log alone.
LEMMA LogUntouched ==
  ASSUME NEW e, IsEditor(e), NEW a, NEW b
  PROVE  /\ SameLog(e, TextSet(e, a, b)) /\ SameLog(e, Edited(e)) /\ SameLog(e, CaretSet(e, a))
         /\ SameLog(e, NoSelectionSet(e)) /\ SameLog(e, NoAnchorSet(e))
         /\ SameLog(e, SelectedSet(e, a, b)) /\ SameLog(e, UnselectedSet(e, a, b))
         /\ SameLog(e, WarnedSet(e)) /\ SameLog(e, SavedSet(e))
<1>1. PICK S : e \in EditorSet(S)
  BY DEF IsEditor
<1>2. SameLog(e, TextSet(e, a, b))
  BY <1>1 DEF EditorSet, SameLog, TextSet
<1>3. SameLog(e, Edited(e)) /\ SameLog(e, CaretSet(e, a))
  BY <1>1 DEF EditorSet, SameLog, Edited, CaretSet
<1>4. SameLog(e, NoSelectionSet(e)) /\ SameLog(e, NoAnchorSet(e))
  BY <1>1 DEF EditorSet, SameLog, NoSelectionSet, NoAnchorSet
<1>5. SameLog(e, SelectedSet(e, a, b)) /\ SameLog(e, UnselectedSet(e, a, b))
  BY <1>1 DEF EditorSet, SameLog, SelectedSet, UnselectedSet
<1>6. SameLog(e, WarnedSet(e)) /\ SameLog(e, SavedSet(e))
  BY <1>1 DEF EditorSet, SameLog, WarnedSet, SavedSet
<1> QED BY <1>2, <1>3, <1>4, <1>5, <1>6

LEMMA ResetLog ==
  ASSUME NEW e, IsEditor(e)
  PROVE  Reset(e).used = 0 /\ Reset(e).arena = NoBytes /\ Reset(e).lost = TRUE
<1>1. PICK S : e \in EditorSet(S)
  BY DEF IsEditor
<1> QED BY <1>1 DEF EditorSet, Reset

LEMMA FreshLog ==
  ASSUME NEW e, IsEditor(e)
  PROVE  LET r == FreshSet(e)
         IN  /\ r.recs = e.recs /\ r.cursor = e.cursor /\ r.used = e.used
             /\ r.arena = e.arena /\ r.lost = FALSE /\ r.missed = e.missed
<1>1. PICK S : e \in EditorSet(S)
  BY DEF IsEditor
<1> QED BY <1>1 DEF EditorSet, FreshSet

LEMMA ReplayedLog ==
  ASSUME NEW e, IsEditor(e), NEW a, NEW b, NEW c
  PROVE  LET r == ReplayedSet(e, a, b, c)
         IN  /\ r.recs = e.recs /\ r.cursor = a /\ r.used = e.used /\ r.buf = b
             /\ r.arena = e.arena /\ r.lost = e.lost /\ r.missed = e.missed
<1>1. PICK S : e \in EditorSet(S)
  BY DEF IsEditor
<1> QED BY <1>1 DEF EditorSet, ReplayedSet

\* The end of the last stash of a deletion among the records
Ends(recs) == {recs[i].off + recs[i].len : i \in {j \in DOMAIN recs : recs[j].kind = Deletion}}

Kept(arena, recs) ==
  [k \in DOMAIN arena |-> IF \E i \in DOMAIN recs : k \in Stash(recs[i]) THEN arena[k] ELSE Nil]

LEMMA TruncateLogFields ==
  ASSUME NEW e, IsEditor(e)
  PROVE  LET t == Truncate(e)
             kept == SubSeq(e.recs, 1, e.cursor)
         IN  /\ t.recs = kept /\ t.cursor = e.cursor /\ t.lost = e.lost /\ t.missed = e.missed
             /\ t.used = (IF e.cursor < Len(e.recs) THEN Biggest(Ends(kept) \cup {0}) ELSE e.used)
             /\ t.arena = Kept(e.arena, kept)
<1>1. PICK S : e \in EditorSet(S)
  BY DEF IsEditor
<1> DEFINE kept == SubSeq(e.recs, 1, e.cursor)
           a == kept
           c == IF e.cursor < Len(e.recs) THEN Biggest(Ends(kept) \cup {0}) ELSE e.used
           d == Kept(e.arena, kept)
           t == Truncate(e)
<1>2. t = [e EXCEPT !.recs = a, !.used = c, !.arena = d]
  BY DEF Truncate, Ends, Kept
<1> HIDE DEF a, c, d, t
<1>3. t.recs = a /\ t.cursor = e.cursor /\ t.lost = e.lost /\ t.missed = e.missed
      /\ t.used = c /\ t.arena = d
  BY <1>1, <1>2 DEF EditorSet
<1> QED BY <1>3 DEF a, c, d, t

Written(arena, off, bytes) ==
  [k \in DOMAIN arena |-> IF k \in off..(off + Len(bytes) - 1) THEN bytes[k - off + 1] ELSE arena[k]]

LEMMA RecordedLogFields ==
  ASSUME NEW e, IsEditor(e), NEW kind, NEW pos, NEW bytes
  PROVE  LET r == Recorded(e, kind, pos, bytes)
         IN  /\ r.recs = Append(e.recs, NewRecord(e, kind, pos, bytes))
             /\ r.cursor = Len(e.recs) + 1 /\ r.used = e.used + Len(bytes)
             /\ r.arena = Written(e.arena, e.used, bytes)
             /\ r.lost = e.lost /\ r.missed = e.missed
<1>1. PICK S : e \in EditorSet(S)
  BY DEF IsEditor
<1> DEFINE a == Append(e.recs, NewRecord(e, kind, pos, bytes))
           b == Len(e.recs) + 1
           c == e.used + Len(bytes)
           d == Written(e.arena, e.used, bytes)
           r == Recorded(e, kind, pos, bytes)
<1>2. r = [e EXCEPT !.arena = d, !.used = c, !.recs = a, !.cursor = b]
  BY DEF Recorded, NewRecord, Written
<1> HIDE DEF a, b, c, d, r
<1>3. r.recs = a /\ r.cursor = b /\ r.used = c /\ r.arena = d
      /\ r.lost = e.lost /\ r.missed = e.missed
  BY <1>1, <1>2 DEF EditorSet
<1> QED BY <1>3 DEF a, b, c, d, r

Longer(recs) == [recs EXCEPT ![Len(recs)].len = @ + 1]
Behind(arena, rec, byte) ==
  [k \in DOMAIN arena |-> IF k = rec.off + rec.len THEN byte ELSE arena[k]]

LEMMA JoinedLogFields ==
  ASSUME NEW e, IsEditor(e), NEW byte
  PROVE  LET r == Joined(e, byte)
             n == Len(e.recs)
         IN  /\ r.recs = Longer(e.recs)
             /\ r.cursor = n /\ r.used = e.used + 1
             /\ r.arena = Behind(e.arena, e.recs[n], byte)
             /\ r.lost = e.lost /\ r.missed = e.missed
<1>1. PICK S : e \in EditorSet(S)
  BY DEF IsEditor
<1> DEFINE n == Len(e.recs)
           prev == e.recs[n]
           a == Longer(e.recs)
           c == e.used + 1
           d == Behind(e.arena, prev, byte)
           r == Joined(e, byte)
<1>2. r = [e EXCEPT !.arena = d, !.used = c, !.recs = a, !.cursor = n]
  BY DEF Joined, Longer, Behind
<1> HIDE DEF a, c, d, r, n
<1>3. r.recs = a /\ r.cursor = n /\ r.used = c /\ r.arena = d
      /\ r.lost = e.lost /\ r.missed = e.missed
  BY <1>1, <1>2 DEF EditorSet
<1> QED BY <1>3 DEF a, c, d, r, n

-----------------------------------------------------------------------------
(* The chain of texts *)

Rec == RecSet(Nat)

IsBook(e) ==
  /\ e.recs \in Seq(Rec) /\ e.cursor \in 0..Len(e.recs) /\ e.used \in Nat
  /\ DOMAIN e.arena = 0..(ArenaCap - 1)

\* StashesApart of any struct
Separate(e) ==
  /\ \A i, j \in DOMAIN e.recs : i < j => e.recs[i].off + e.recs[i].len <= e.recs[j].off
  /\ \A i \in DOMAIN e.recs : e.recs[i].off + e.recs[i].len <= e.used

\* A record with its bytes leads from the text s to t, and back.
Leads(bytes, rec, s, t) ==
  /\ bytes \in Seq(Bytes) /\ Len(bytes) = rec.len
  /\ IF rec.kind = Insertion THEN rec.pos <= Len(s) /\ t = Spliced(s, rec.pos, bytes)
     ELSE rec.pos <= Len(t) /\ s = Spliced(t, rec.pos, bytes)

\* A text that leaves room: gt_buf_insert_raw refuses what would not.
IsShort(s) == s \in Seq(Bytes) /\ Len(s) <= CodeCap - 2

\* A record whose stash is in the arena, between two texts
Stands(e, rec, s, t) == Leads(Saved(e, rec), rec, s, t) /\ rec.off + rec.len <= ArenaCap

\* tx[i] is the text between the records i and i + 1.
Tells(e, tx) ==
  /\ \A i \in 0..Len(e.recs) : IsShort(tx[i])
  /\ \A i \in 1..Len(e.recs) : Stands(e, e.recs[i], tx[i - 1], tx[i])

\* It stands as long as nobody writes over its stash.
LEMMA StandsStill ==
  ASSUME NEW e, DOMAIN e.arena = 0..(ArenaCap - 1), NEW r, NEW rec \in Rec,
         \A k \in DOMAIN e.arena : k \in Stash(rec) => r.arena[k] = e.arena[k],
         NEW s, NEW t, Stands(e, rec, s, t)
  PROVE  Stands(r, rec, s, t)
<1>1. rec.off \in Nat /\ rec.len \in Nat /\ rec.off + rec.len <= ArenaCap /\ ArenaCap \in Nat
  BY EditorAssumption DEF Rec, RecSet, Stands
<1>2. \A i \in 1..rec.len : rec.off + i - 1 \in Stash(rec) /\ rec.off + i - 1 \in DOMAIN e.arena
  BY <1>1 DEF Stash
<1>3. Saved(r, rec) = Saved(e, rec)
  BY <1>2 DEF Saved
<1> QED BY <1>3 DEF Stands

\* Some number is not below the ends of any stash.
LEMMA EndsBounded ==
  ASSUME NEW recs \in Seq(Rec)
  PROVE  \E M \in Nat : \A i \in 1..Len(recs) : recs[i].off + recs[i].len <= M
<1> DEFINE end(i) == recs[i].off + recs[i].len
           Bounds(M, n) == \A i \in 1..n : end(i) <= M
           Bounded(n) == \E M \in Nat : Bounds(M, n)
           S == {n \in Nat : n <= Len(recs) => Bounded(n)}
<1>1. Len(recs) \in Nat /\ \A i \in 1..Len(recs) : end(i) \in Nat
  <2>1. \A i \in 1..Len(recs) : recs[i] \in Rec
    OBVIOUS
  <2> QED BY <2>1 DEF Rec, RecSet
<1>2. 0 \in S
  <2>1. Bounds(0, 0)
    OBVIOUS
  <2> QED BY <2>1
<1>3. ASSUME NEW n \in Nat, n \in S PROVE n + 1 \in S
  <2> SUFFICES ASSUME n + 1 <= Len(recs) PROVE Bounded(n + 1)
    <3> HIDE DEF Bounded
    <3> QED OBVIOUS
  <2>0. Bounded(n)
    <3> HIDE DEF Bounded
    <3> QED BY <1>1, <1>3
  <2>1. PICK M \in Nat : Bounds(M, n)
    BY <2>0
  <2>2. end(n + 1) \in Nat
    BY <1>1
  <2> HIDE DEF end
  <2> DEFINE N == M + end(n + 1)
  <2>3. N \in Nat /\ M <= N /\ end(n + 1) <= N
    BY <2>2
  <2> HIDE DEF N
  <2>4. \A i \in 1..(n + 1) : i \in 1..n \/ i = n + 1
    OBVIOUS
  <2>5. ASSUME NEW i \in 1..(n + 1) PROVE end(i) <= N
    <3>1. end(i) \in Nat
      BY <1>1
    <3> QED BY <2>1, <2>3, <2>4, <3>1
  <2> QED BY <2>3, <2>5
<1>4. Nat \subseteq S
  <2>1. \A n \in Nat : n \in S => n + 1 \in S
    BY <1>3
  <2>2. 0 \in S
    BY <1>2
  <2> HIDE DEF S
  <2> QED BY <2>1, <2>2, SetInduction
<1>5. Bounded(Len(recs))
  <2> HIDE DEF Bounded
  <2> QED BY <1>1, <1>4
<1> QED BY <1>5

LEMMA BiggestEnd ==
  ASSUME NEW recs \in Seq(Rec)
  PROVE  Biggest(Ends(recs) \cup {0}) \in Nat
<1> DEFINE E == Ends(recs) \cup {0}
<1>1. PICK M \in Nat : \A i \in 1..Len(recs) : recs[i].off + recs[i].len <= M
  BY EndsBounded
<1>2. \A i \in 1..Len(recs) : recs[i].off + recs[i].len \in Nat
  <2>1. \A i \in 1..Len(recs) : recs[i] \in Rec
    OBVIOUS
  <2> QED BY <2>1 DEF Rec, RecSet
<1>3. DOMAIN recs = 1..Len(recs)
  OBVIOUS
<1>4. E \in SUBSET (0..M) /\ E # {}
  BY <1>1, <1>2, <1>3 DEF Ends
<1> HIDE DEF E
<1>5. PICK m \in E : \A k \in E : k <= m
  BY <1>1, <1>4, MaxFacts
<1>6. Biggest(E) \in E
  BY <1>5 DEF Biggest
<1> QED BY <1>4, <1>6 DEF E

\* What a truncation leaves of the log
LEMMA TruncateBook ==
  ASSUME NEW e, IsEditor(e), IsBook(e)
  PROVE  LET t == Truncate(e)
         IN  /\ IsBook(t) /\ t.cursor = Len(t.recs) /\ t.cursor = e.cursor
             /\ t.lost = e.lost /\ t.missed = e.missed
             /\ e.cursor = Len(e.recs) => t.recs = e.recs /\ t.used = e.used
<1> DEFINE t == Truncate(e)
           kept == SubSeq(e.recs, 1, e.cursor)
           c == IF e.cursor < Len(e.recs) THEN Biggest(Ends(kept) \cup {0}) ELSE e.used
<1>1. /\ t.recs = kept /\ t.cursor = e.cursor /\ t.lost = e.lost /\ t.missed = e.missed
      /\ t.used = c /\ t.arena = Kept(e.arena, kept)
  BY TruncateLogFields
<1>2. kept \in Seq(Rec) /\ Len(kept) = e.cursor /\ e.cursor \in Nat
  BY DEF IsBook
<1>3. c \in Nat
  <2> HIDE DEF kept
  <2> QED BY <1>2, BiggestEnd DEF IsBook
<1>4. e.cursor = Len(e.recs) => kept = e.recs /\ c = e.used
  BY DEF IsBook
<1>5. DOMAIN Kept(e.arena, kept) = DOMAIN e.arena
  BY DEF Kept
<1> HIDE DEF t, kept, c
<1>6. IsBook(t)
  BY <1>1, <1>2, <1>3, <1>5 DEF IsBook
<1>7. t.cursor = Len(t.recs) /\ (e.cursor = Len(e.recs) => t.recs = e.recs /\ t.used = e.used)
  BY <1>1, <1>2, <1>4
<1> QED BY <1>1, <1>6, <1>7 DEF t

LEMMA TruncateTells ==
  ASSUME NEW e, IsEditor(e), IsBook(e), NEW tx, Tells(e, tx)
  PROVE  Tells(Truncate(e), tx)
<1> DEFINE t == Truncate(e)
           kept == SubSeq(e.recs, 1, e.cursor)
<1>1. t.recs = kept /\ t.arena = Kept(e.arena, kept)
  BY TruncateLogFields
<1>2. /\ kept \in Seq(Rec) /\ Len(kept) = e.cursor /\ e.cursor \in Nat /\ e.cursor <= Len(e.recs)
      /\ Len(e.recs) \in Nat /\ \A i \in 1..e.cursor : kept[i] = e.recs[i]
  BY DEF IsBook
<1>3. DOMAIN e.arena = 0..(ArenaCap - 1)
  BY DEF IsBook
<1> HIDE DEF t, kept
<1>4. \A i \in 0..Len(t.recs) : IsShort(tx[i])
  BY <1>1, <1>2 DEF Tells
<1>5. ASSUME NEW i \in 1..Len(t.recs) PROVE Stands(t, t.recs[i], tx[i - 1], tx[i])
  <2> DEFINE rec == t.recs[i]
             s == tx[i - 1]
             u == tx[i]
  <2>1. i \in 1..Len(e.recs) /\ rec = e.recs[i] /\ i \in DOMAIN kept /\ kept[i] = rec /\ rec \in Rec
    BY <1>1, <1>2
  <2>2. Stands(e, rec, s, u)
    BY <2>1 DEF Tells
  <2> HIDE DEF rec, s, u
  <2>3. ASSUME NEW k \in DOMAIN e.arena, k \in Stash(rec) PROVE t.arena[k] = e.arena[k]
    <3>1. \E j \in DOMAIN kept : k \in Stash(kept[j])
      BY <2>1, <2>3
    <3> QED BY <1>1, <3>1 DEF Kept
  <2>4. Stands(t, rec, s, u)
    BY <1>3, <2>1, <2>2, <2>3, StandsStill
  <2> QED BY <2>4 DEF rec, s, u
<1> QED BY <1>4, <1>5 DEF Tells, t

\* The texts up to place n, where the text is u
Ext(tx, n, u) == [i \in 0..n |-> IF i < n THEN tx[i] ELSE u]

\* A record whose stash is there does not touch those in front of it.
LEMMA RecordedBook ==
  ASSUME NEW e, IsEditor(e), IsBook(e), NEW kind \in {Insertion, Deletion}, NEW pos \in Nat,
         NEW bytes \in Seq(Bytes)
  PROVE  LET r == Recorded(e, kind, pos, bytes)
             rec == NewRecord(e, kind, pos, bytes)
         IN  /\ IsBook(r) /\ r.recs = Append(e.recs, rec) /\ Len(r.recs) = Len(e.recs) + 1
             /\ r.cursor = Len(r.recs) /\ r.recs[Len(r.recs)] = rec /\ r.recs # <<>> /\ rec \in Rec
             /\ \A i \in 1..Len(e.recs) : r.recs[i] = e.recs[i]
             /\ r.lost = e.lost /\ r.missed = e.missed
             /\ Separate(r) =>
                  \A i \in 1..Len(e.recs) : e.recs[i].off + e.recs[i].len <= e.used
<1> DEFINE r == Recorded(e, kind, pos, bytes)
           rec == NewRecord(e, kind, pos, bytes)
<1>1. /\ r.recs = Append(e.recs, rec) /\ r.cursor = Len(e.recs) + 1
      /\ r.used = e.used + Len(bytes) /\ r.arena = Written(e.arena, e.used, bytes)
      /\ r.lost = e.lost /\ r.missed = e.missed
  BY RecordedLogFields
<1>2. e.recs \in Seq(Rec) /\ e.used \in Nat /\ DOMAIN e.arena = 0..(ArenaCap - 1)
  BY DEF IsBook
<1>3. Len(bytes) \in Nat
  OBVIOUS
<1>4. rec \in Rec /\ rec.off = e.used
  BY <1>2, <1>3 DEF NewRecord, Rec, RecSet
<1> HIDE DEF r, rec
<1>5. /\ r.recs \in Seq(Rec) /\ Len(r.recs) = Len(e.recs) + 1 /\ Len(e.recs) \in Nat
      /\ r.recs[Len(e.recs) + 1] = rec /\ r.recs # <<>>
      /\ \A i \in 1..Len(e.recs) : r.recs[i] = e.recs[i]
  <2> DEFINE old == e.recs
             more == Append(old, rec)
  <2>1. old \in Seq(Rec) /\ rec \in Rec
    BY <1>2, <1>4
  <2> HIDE DEF old
  <2>2. /\ more \in Seq(Rec) /\ Len(more) = Len(old) + 1 /\ Len(old) \in Nat
        /\ more[Len(old) + 1] = rec /\ \A i \in 1..Len(old) : more[i] = old[i]
    BY <2>1
  <2>3. more # <<>>
    BY <2>1
  <2> HIDE DEF more
  <2>4. r.recs = more
    BY <1>1 DEF more, old
  <2> QED BY <2>2, <2>3, <2>4 DEF old
<1>6. DOMAIN r.arena = 0..(ArenaCap - 1)
  BY <1>1, <1>2 DEF Written
<1>7. IsBook(r)
  BY <1>1, <1>2, <1>3, <1>5, <1>6 DEF IsBook
<1>8. ASSUME Separate(r), NEW i \in 1..Len(e.recs)
      PROVE  e.recs[i].off + e.recs[i].len <= e.used
  <2>1. i \in DOMAIN r.recs /\ Len(e.recs) + 1 \in DOMAIN r.recs /\ i < Len(e.recs) + 1
    BY <1>5
  <2>2. r.recs[i].off + r.recs[i].len <= r.recs[Len(e.recs) + 1].off
    BY <1>8, <2>1 DEF Separate
  <2> QED BY <1>4, <1>5, <2>2
<1> QED BY <1>1, <1>4, <1>5, <1>7, <1>8 DEF r, rec

LEMMA RecordedTells ==
  ASSUME NEW e, IsEditor(e), IsBook(e), NEW kind \in {Insertion, Deletion}, NEW pos \in Nat,
         NEW bytes \in Seq(Bytes), NEW tx, Tells(e, tx), NEW u, IsShort(u),
         Separate(Recorded(e, kind, pos, bytes)), e.used + Len(bytes) <= ArenaCap,
         Leads(bytes, NewRecord(e, kind, pos, bytes), tx[Len(e.recs)], u)
  PROVE  Tells(Recorded(e, kind, pos, bytes), Ext(tx, Len(e.recs) + 1, u))
<1> DEFINE r == Recorded(e, kind, pos, bytes)
           rec == NewRecord(e, kind, pos, bytes)
           n == Len(e.recs)
           ty == Ext(tx, n + 1, u)
<1>1. /\ IsBook(r) /\ Len(r.recs) = n + 1 /\ r.recs[Len(r.recs)] = rec /\ rec \in Rec
      /\ \A i \in 1..n : r.recs[i] = e.recs[i]
      /\ \A i \in 1..n : e.recs[i].off + e.recs[i].len <= e.used
  BY RecordedBook
<1>2. r.arena = Written(e.arena, e.used, bytes)
  BY RecordedLogFields
<1>3. e.recs \in Seq(Rec) /\ e.used \in Nat /\ DOMAIN e.arena = 0..(ArenaCap - 1) /\ n \in Nat
  BY DEF IsBook
<1>4. rec.off = e.used /\ rec.len = Len(bytes) /\ Len(bytes) \in Nat
  BY DEF NewRecord
<1>5. Leads(bytes, rec, tx[n], u)
  OBVIOUS
<1> HIDE DEF r, rec, n
<1>6. ty[n + 1] = u /\ \A i \in 0..n : ty[i] = tx[i]
  BY <1>3 DEF Ext
<1> HIDE DEF ty
<1>7. ASSUME NEW i \in 0..Len(r.recs) PROVE IsShort(ty[i])
  <2>1. CASE i = n + 1
    BY <1>6, <2>1
  <2>2. CASE i \in 0..n
    <3>1. IsShort(tx[i])
      BY <2>2 DEF Tells, n
    <3> QED BY <1>6, <2>2, <3>1
  <2> QED BY <1>1, <1>3, <2>1, <2>2
<1>8. ASSUME NEW i \in 1..Len(r.recs) PROVE Stands(r, r.recs[i], ty[i - 1], ty[i])
  <2>1. CASE i = n + 1
    <3>1. Saved(r, rec) = bytes
      <4>1. \A k \in 1..Len(bytes) : /\ e.used + k - 1 \in DOMAIN e.arena
                                     /\ e.used + k - 1 \in e.used..(e.used + Len(bytes) - 1)
                                     /\ (e.used + k - 1) - e.used + 1 = k
        <5>1. ArenaCap \in Nat /\ e.used + Len(bytes) <= ArenaCap
          BY EditorAssumption
        <5> DEFINE m == Len(bytes)
                   o == e.used
        <5>2. m \in Nat /\ o \in Nat /\ o + m <= ArenaCap /\ DOMAIN e.arena = 0..(ArenaCap - 1)
          BY <1>3, <1>4, <5>1
        <5> HIDE DEF m, o
        <5>3. \A k \in 1..m : o + k - 1 \in 0..(ArenaCap - 1) /\ o + k - 1 \in o..(o + m - 1)
                               /\ (o + k - 1) - o + 1 = k
          BY <5>1, <5>2
        <5> QED BY <5>2, <5>3 DEF m, o
      <4>2. \A k \in 1..Len(bytes) : r.arena[e.used + k - 1] = bytes[k]
        BY <1>2, <4>1 DEF Written
      <4>3. Saved(r, rec) = [k \in 1..Len(bytes) |-> bytes[k]]
        BY <1>4, <4>2 DEF Saved
      <4> QED BY <4>3
    <3>2. rec.off + rec.len <= ArenaCap
      BY <1>4
    <3>3. Stands(r, rec, tx[n], u)
      BY <1>5, <3>1, <3>2 DEF Stands
    <3>4. r.recs[i] = rec /\ ty[i - 1] = tx[n] /\ ty[i] = u
      BY <1>1, <1>3, <1>6, <2>1
    <3> QED BY <3>3, <3>4
  <2>2. CASE i \in 1..n
    <3> DEFINE old == e.recs[i]
               s == tx[i - 1]
               t == tx[i]
    <3>1. r.recs[i] = old /\ ty[i - 1] = s /\ ty[i] = t /\ old \in Rec
      BY <1>1, <1>3, <1>6, <2>2 DEF n
    <3>2. Stands(e, old, s, t)
      BY <2>2 DEF Tells, n
    <3>3. old.off + old.len <= e.used /\ old.off \in Nat /\ old.len \in Nat
      BY <1>1, <2>2, <3>1 DEF Rec, RecSet
    <3> HIDE DEF old, s, t
    <3>4. \A k \in DOMAIN e.arena : k \in Stash(old) => r.arena[k] = e.arena[k]
      <4>1. \A k \in DOMAIN e.arena : k \in Stash(old) => ~(k \in e.used..(e.used + Len(bytes) - 1))
        BY <1>3, <1>4, <3>3 DEF Stash
      <4> QED BY <1>2, <4>1 DEF Written
    <3>5. Stands(r, old, s, t)
      BY <1>3, <3>1, <3>2, <3>4, StandsStill
    <3> QED BY <3>1, <3>5
  <2> QED BY <1>1, <1>3, <2>1, <2>2
<1>9. Tells(r, ty)
  BY <1>7, <1>8 DEF Tells
<1> QED BY <1>9 DEF r, ty, n

\* A byte that joins the last record
LEMMA JoinedBook ==
  ASSUME NEW e, IsEditor(e), IsBook(e), NEW pos \in Nat, NEW byte, Coalesces(e, pos)
  PROVE  LET r == Joined(e, byte)
             n == Len(e.recs)
         IN  /\ IsBook(r) /\ Len(r.recs) = n /\ n \in Nat \ {0} /\ r.cursor = n /\ r.recs # <<>>
             /\ r.recs[n].kind = Insertion /\ e.recs[n].kind = Insertion
             /\ r.recs[n].pos = e.recs[n].pos /\ r.recs[n].off = e.recs[n].off
             /\ r.recs[n].len = e.recs[n].len + 1 /\ e.recs[n].pos + e.recs[n].len = pos
             /\ \A i \in 1..(n - 1) : r.recs[i] = e.recs[i]
             /\ r.lost = e.lost /\ r.missed = e.missed
             /\ Separate(r) =>
                  /\ \A i \in 1..(n - 1) : e.recs[i].off + e.recs[i].len <= e.recs[n].off
                  /\ e.recs[n].off + e.recs[n].len + 1 <= ArenaCap
                  /\ Separate(e)
<1> DEFINE r == Joined(e, byte)
           n == Len(e.recs)
           prev == e.recs[n]
           rec == [prev EXCEPT !.len = @ + 1]
<1>1. /\ r.recs = Longer(e.recs) /\ r.cursor = n /\ r.used = e.used + 1
      /\ DOMAIN r.arena = DOMAIN e.arena /\ r.lost = e.lost /\ r.missed = e.missed
  <2>1. /\ r.recs = Longer(e.recs) /\ r.cursor = n /\ r.used = e.used + 1
        /\ r.arena = Behind(e.arena, prev, byte) /\ r.lost = e.lost /\ r.missed = e.missed
    BY JoinedLogFields
  <2>2. DOMAIN Behind(e.arena, prev, byte) = DOMAIN e.arena
    BY DEF Behind
  <2> HIDE DEF r
  <2> QED BY <2>1, <2>2
<1>2. e.recs \in Seq(Rec) /\ e.used \in Nat /\ DOMAIN e.arena = 0..(ArenaCap - 1)
  BY DEF IsBook
<1>3. e.recs # <<>> /\ prev.kind = Insertion /\ prev.pos + prev.len = pos /\ e.used < ArenaCap
  BY DEF Coalesces
<1>4. n \in Nat \ {0} /\ n \in 1..Len(e.recs) /\ prev \in Rec
  BY <1>2, <1>3
<1>5. /\ rec \in Rec /\ rec.kind = prev.kind /\ rec.pos = prev.pos /\ rec.off = prev.off
      /\ rec.len = prev.len + 1 /\ prev.len \in Nat /\ prev.off \in Nat
  BY <1>4 DEF Rec, RecSet
<1>6. Longer(e.recs) = [e.recs EXCEPT ![n] = rec]
  BY <1>2, <1>4 DEF Longer
<1> HIDE DEF r, n, rec
<1>7. /\ r.recs \in Seq(Rec) /\ Len(r.recs) = n /\ r.recs[n] = rec
      /\ \A i \in 1..n : i # n => r.recs[i] = e.recs[i]
  <2> DEFINE old == e.recs
             more == [old EXCEPT ![n] = rec]
  <2>1. old \in Seq(Rec) /\ n \in 1..Len(old) /\ rec \in Rec /\ Len(old) = n
    BY <1>2, <1>4, <1>5 DEF n
  <2> HIDE DEF old
  <2>2. /\ more \in Seq(Rec) /\ Len(more) = n /\ more[n] = rec
        /\ \A i \in 1..n : i # n => more[i] = old[i]
    BY <2>1
  <2> HIDE DEF more
  <2>3. r.recs = more
    BY <1>1, <1>6 DEF more, old
  <2> QED BY <2>2, <2>3 DEF old
<1>8. \A i \in 1..(n - 1) : r.recs[i] = e.recs[i] /\ i \in 1..n /\ i < n
  BY <1>4, <1>7
<1>9. IsBook(r) /\ r.recs # <<>>
  BY <1>1, <1>2, <1>4, <1>7 DEF IsBook
<1>10. ASSUME Separate(r)
       PROVE  /\ \A i \in 1..(n - 1) : e.recs[i].off + e.recs[i].len <= prev.off
              /\ prev.off + prev.len + 1 <= ArenaCap
              /\ Separate(e)
  <2>1. DOMAIN r.recs = 1..n /\ DOMAIN e.recs = 1..n
    BY <1>2, <1>7 DEF n
  <2>2. \A i \in 1..(n - 1) : r.recs[i].off + r.recs[i].len <= r.recs[n].off
    BY <1>4, <1>8, <1>10, <2>1 DEF Separate
  <2>3. \A i \in 1..(n - 1) : e.recs[i].off + e.recs[i].len <= prev.off
    BY <1>5, <1>7, <1>8, <2>2
  <2>4. prev.off + prev.len + 1 <= e.used + 1
    <3>1. r.recs[n].off + r.recs[n].len <= r.used
      BY <1>4, <1>10, <2>1 DEF Separate
    <3> QED BY <1>1, <1>5, <1>7, <3>1
  <2>5. ArenaCap \in Nat /\ prev.off + prev.len + 1 <= ArenaCap /\ prev.off + prev.len <= e.used
    <3> DEFINE m == prev.off + prev.len
    <3>1. m \in Nat /\ e.used \in Nat /\ e.used < ArenaCap /\ m + 1 <= e.used + 1
      BY <1>2, <1>3, <1>5, <2>4, SMTT(40)
    <3>2. ArenaCap \in Nat
      BY EditorAssumption
    <3> HIDE DEF m
    <3>3. m + 1 <= ArenaCap /\ m <= e.used
      BY <3>1, <3>2
    <3> QED BY <3>2, <3>3 DEF m
  <2>6. \A i \in 1..(n - 1) : e.recs[i].off \in Nat /\ e.recs[i].len \in Nat
    <3>1. \A i \in 1..n : e.recs[i] \in Rec
      BY <1>2 DEF n
    <3> QED BY <1>8, <3>1 DEF Rec, RecSet
  <2>7. ASSUME NEW i \in 1..n, NEW j \in 1..n, i < j
        PROVE  e.recs[i].off + e.recs[i].len <= e.recs[j].off
    <3>1. i \in 1..(n - 1) /\ (j = n \/ j \in 1..(n - 1))
      BY <1>4, <2>7
    <3>2. CASE j = n
      BY <2>3, <3>1, <3>2
    <3>3. CASE j \in 1..(n - 1)
      <4>1. r.recs[i].off + r.recs[i].len <= r.recs[j].off
        BY <1>10, <2>1, <2>7 DEF Separate
      <4> QED BY <1>8, <3>1, <3>3, <4>1
    <3> QED BY <3>1, <3>2, <3>3
  <2>8. ASSUME NEW i \in 1..n PROVE e.recs[i].off + e.recs[i].len <= e.used
    <3>1. CASE i = n
      BY <2>5, <3>1
    <3>2. CASE i \in 1..(n - 1)
      <4> DEFINE m == e.recs[i].off + e.recs[i].len
      <4>1. m \in Nat /\ m <= prev.off
        BY <2>3, <2>6, <3>2
      <4>2. prev.off \in Nat /\ prev.len \in Nat /\ prev.off + prev.len <= e.used /\ e.used \in Nat
        BY <1>2, <1>5, <2>5
      <4> HIDE DEF m, prev
      <4>3. m <= e.used
        BY <4>1, <4>2
      <4> QED BY <4>3 DEF m
    <3> QED BY <1>4, <3>1, <3>2
  <2>9. Separate(e)
    BY <2>1, <2>7, <2>8 DEF Separate
  <2> QED BY <2>3, <2>5, <2>9
<1>11. /\ r.recs[n].kind = Insertion /\ r.recs[n].pos = prev.pos /\ r.recs[n].off = prev.off
       /\ r.recs[n].len = prev.len + 1
  BY <1>3, <1>5, <1>7
<1> HIDE DEF prev
<1> QED BY <1>1, <1>3, <1>4, <1>7, <1>8, <1>9, <1>10, <1>11 DEF r, n, prev

LEMMA JoinedTells ==
  ASSUME NEW e, IsEditor(e), IsBook(e), NEW pos \in Nat, NEW byte \in Bytes, Coalesces(e, pos),
         NEW tx, Tells(e, tx), Separate(Joined(e, byte)),
         NEW u, IsShort(u), u = Spliced(tx[Len(e.recs)], pos, <<byte>>)
  PROVE  Tells(Joined(e, byte), Ext(tx, Len(e.recs), u))
<1> DEFINE r == Joined(e, byte)
           n == Len(e.recs)
           prev == e.recs[n]
           rec == r.recs[n]
           ty == Ext(tx, n, u)
           s == tx[n - 1]
           t == tx[n]
           old == Saved(e, prev)
           new == Append(old, byte)
<1>1. /\ IsBook(r) /\ Len(r.recs) = n /\ n \in Nat \ {0}
      /\ rec.kind = Insertion /\ prev.kind = Insertion
      /\ rec.pos = prev.pos /\ rec.off = prev.off
      /\ rec.len = prev.len + 1 /\ prev.pos + prev.len = pos
      /\ \A i \in 1..(n - 1) : r.recs[i] = e.recs[i]
      /\ \A i \in 1..(n - 1) : e.recs[i].off + e.recs[i].len <= prev.off
      /\ prev.off + prev.len + 1 <= ArenaCap
  BY JoinedBook
<1>2. r.arena = Behind(e.arena, prev, byte)
  BY JoinedLogFields
<1>3. e.recs \in Seq(Rec) /\ DOMAIN e.arena = 0..(ArenaCap - 1)
  BY DEF IsBook
<1>4. n \in 1..Len(e.recs) /\ prev \in Rec
  BY <1>1, <1>3
<1>5. prev.off \in Nat /\ prev.len \in Nat /\ prev.pos \in Nat
  BY <1>4 DEF Rec, RecSet
<1>6. Stands(e, prev, s, t)
  BY <1>4 DEF Tells
<1>7. u = Spliced(t, pos, <<byte>>)
  OBVIOUS
<1> HIDE DEF r, rec, n, prev, s, t, old, new
<1>8. ty[n] = u /\ \A i \in 0..(n - 1) : ty[i] = tx[i]
  BY <1>1 DEF Ext
<1> HIDE DEF ty
<1>9. ASSUME NEW i \in 0..Len(r.recs) PROVE IsShort(ty[i])
  <2>1. CASE i = n
    BY <1>8, <2>1
  <2>2. CASE i \in 0..(n - 1)
    <3>1. IsShort(tx[i])
      BY <1>1, <2>2 DEF Tells, n
    <3> QED BY <1>8, <2>2, <3>1
  <2> QED BY <1>1, <2>1, <2>2
<1>10. Stands(r, rec, s, u)
  <2>1. /\ old \in Seq(Bytes) /\ Len(old) = prev.len
        /\ prev.pos <= Len(s) /\ t = Spliced(s, prev.pos, old)
    BY <1>1, <1>6 DEF Stands, Leads, old
  <2>2. s \in Seq(Bytes)
    <3>1. n - 1 \in 0..Len(e.recs)
      BY <1>1 DEF n
    <3>2. IsShort(s)
      BY <3>1 DEF Tells, s
    <3> QED BY <3>2 DEF IsShort
  <2>3. prev.pos \in 0..Len(s)
    BY <1>5, <2>1, <2>2
  <2>4. u = Spliced(s, prev.pos, new)
    <3>1. pos = prev.pos + Len(old)
      BY <1>1, <2>1
    <3>2. Spliced(Spliced(s, prev.pos, old), prev.pos + Len(old), <<byte>>)
            = Spliced(s, prev.pos, new)
      BY <2>1, <2>2, <2>3, SplicedByte DEF new
    <3> QED BY <1>7, <2>1, <3>1, <3>2
  <2>5. /\ new \in Seq(Bytes) /\ Len(new) = prev.len + 1 /\ new[prev.len + 1] = byte
        /\ \A k \in 1..prev.len : new[k] = old[k]
    BY <2>1 DEF new
  <2>6. Saved(r, rec) = new
    <3>1. \A k \in 1..rec.len : rec.off + k - 1 \in DOMAIN e.arena
      <4> DEFINE o == prev.off
                 m == prev.len
      <4>1. o \in Nat /\ m \in Nat /\ o + m + 1 <= ArenaCap /\ ArenaCap \in Nat
            /\ rec.off = o /\ rec.len = m + 1
        BY <1>1, <1>5, EditorAssumption
      <4> HIDE DEF o, m
      <4>2. \A k \in 1..(m + 1) : o + k - 1 \in 0..(ArenaCap - 1)
        BY <4>1
      <4> QED BY <1>3, <4>1, <4>2
    <3>2. ASSUME NEW k \in 1..rec.len PROVE r.arena[rec.off + k - 1] = new[k]
      <4>1. r.arena[rec.off + k - 1] =
              IF rec.off + k - 1 = prev.off + prev.len THEN byte ELSE e.arena[rec.off + k - 1]
        BY <1>2, <3>1 DEF Behind
      <4>2. CASE k = prev.len + 1
        <5>1. rec.off + k - 1 = prev.off + prev.len
          BY <1>1, <1>5, <4>2
        <5> QED BY <2>5, <4>1, <4>2, <5>1
      <4>3. CASE k # prev.len + 1
        <5>1. k \in 1..prev.len /\ rec.off + k - 1 # prev.off + prev.len
          <6> DEFINE o == prev.off
                     m == prev.len
          <6>1. o \in Nat /\ m \in Nat /\ rec.off = o /\ k \in 1..(m + 1)
            BY <1>1, <1>5
          <6>2. k # m + 1
            BY <4>3
          <6> HIDE DEF o, m
          <6>3. k \in 1..m /\ o + k - 1 # o + m
            BY <6>1, <6>2
          <6> QED BY <6>1, <6>3 DEF o, m
        <5>2. old[k] = e.arena[prev.off + k - 1]
          BY <5>1 DEF old, Saved
        <5> QED BY <1>1, <2>5, <4>1, <5>1, <5>2
      <4> QED BY <4>2, <4>3
    <3>3. Saved(r, rec) = [k \in 1..rec.len |-> new[k]]
      BY <3>2 DEF Saved
    <3>4. new = [k \in 1..(prev.len + 1) |-> new[k]]
      BY <1>5, <2>5
    <3> QED BY <1>1, <3>3, <3>4
  <2>7. rec.off + rec.len <= ArenaCap /\ rec.pos <= Len(s) /\ Len(new) = rec.len
    BY <1>1, <1>5, <2>1, <2>5, EditorAssumption
  <2> QED BY <1>1, <2>4, <2>5, <2>6, <2>7 DEF Stands, Leads
<1>11. ASSUME NEW i \in 1..Len(r.recs) PROVE Stands(r, r.recs[i], ty[i - 1], ty[i])
  <2>1. CASE i = n
    <3>1. r.recs[i] = rec /\ ty[i - 1] = s /\ ty[i] = u
      BY <1>1, <1>8, <2>1 DEF rec, s
    <3> QED BY <1>10, <3>1
  <2>2. CASE i \in 1..(n - 1)
    <3> DEFINE one == e.recs[i]
               a == tx[i - 1]
               b == tx[i]
    <3>1. i \in 1..Len(e.recs)
      BY <1>1, <2>2 DEF n
    <3>2. r.recs[i] = one /\ ty[i - 1] = a /\ ty[i] = b /\ one \in Rec
      <4>1. i - 1 \in 0..(n - 1) /\ i \in 0..(n - 1)
        BY <1>1, <2>2
      <4> QED BY <1>1, <1>3, <1>8, <2>2, <3>1, <4>1
    <3>3. Stands(e, one, a, b)
      BY <3>1 DEF Tells
    <3>4. one.off + one.len <= prev.off /\ one.off \in Nat /\ one.len \in Nat
      BY <1>1, <2>2, <3>2 DEF Rec, RecSet
    <3> HIDE DEF one, a, b
    <3>5. \A k \in DOMAIN e.arena : k \in Stash(one) => r.arena[k] = e.arena[k]
      <4>1. \A k \in DOMAIN e.arena : k \in Stash(one) => k # prev.off + prev.len
        BY <1>3, <1>5, <3>4 DEF Stash
      <4> QED BY <1>2, <4>1 DEF Behind
    <3>6. Stands(r, one, a, b)
      BY <1>3, <3>2, <3>3, <3>5, StandsStill
    <3> QED BY <3>2, <3>6
  <2> QED BY <1>1, <2>1, <2>2
<1>12. Tells(r, ty)
  BY <1>9, <1>11 DEF Tells
<1> QED BY <1>12 DEF r, ty, n

-----------------------------------------------------------------------------
(* gt_undo_push_insert and gt_undo_push_delete *)

Past(tx, c) == [i \in 1..c |-> tx[i - 1]]
Future(tx, c, n) == [i \in 1..(n - c) |-> tx[c + i]]

LEMMA PastExt ==
  ASSUME NEW tx, NEW c \in Nat, NEW u
  PROVE  /\ Past(Ext(tx, c, u), c) = Past(tx, c)
         /\ Past(Ext(tx, c + 1, u), c + 1) = Append(Past(tx, c), tx[c])
<1>1. \A i \in 1..c : Ext(tx, c, u)[i - 1] = tx[i - 1]
  BY DEF Ext
<1>2. Past(Ext(tx, c, u), c) = Past(tx, c)
  BY <1>1 DEF Past
<1> DEFINE S == {tx[i] : i \in 0..c}
           p == Past(tx, c)
           q == Past(Ext(tx, c + 1, u), c + 1)
           last == tx[c]
           r == Append(p, last)
<1>3. \A i \in 1..(c + 1) : Ext(tx, c + 1, u)[i - 1] = tx[i - 1] /\ tx[i - 1] \in S
  BY DEF Ext
<1>4. q = [i \in 1..(c + 1) |-> tx[i - 1]]
  BY <1>3 DEF Past
<1>5. last \in S
  OBVIOUS
<1> HIDE DEF S
<1>6. p \in Seq(S) /\ Len(p) = c /\ \A i \in 1..c : p[i] = tx[i - 1]
  BY <1>3 DEF Past
<1>7. q \in Seq(S) /\ Len(q) = c + 1 /\ \A i \in 1..(c + 1) : q[i] = tx[i - 1]
  BY <1>3, <1>4
<1>8. (c + 1) - 1 = c
  OBVIOUS
<1> HIDE DEF p, q, last
<1>9. r \in Seq(S) /\ Len(r) = c + 1 /\ r[c + 1] = last /\ \A i \in 1..c : r[i] = p[i]
  BY <1>5, <1>6
<1>10. \A i \in 1..(c + 1) : q[i] = r[i]
  <2>1. \A i \in 1..(c + 1) : i \in 1..c \/ i = c + 1
    OBVIOUS
  <2> QED BY <1>6, <1>7, <1>8, <1>9, <2>1 DEF last
<1>11. q = r
  <2> HIDE DEF r
  <2> QED BY <1>7, <1>9, <1>10, SeqEqual
<1> QED BY <1>2, <1>11 DEF p, q, last

\* The last record is an insertion that ends at pos.
EndsAt(q, pos) ==
  /\ q.recs # <<>> /\ q.recs[Len(q.recs)].kind = Insertion
  /\ q.recs[Len(q.recs)].pos + q.recs[Len(q.recs)].len = pos

\* The texts of p, of which the current one is s, are those of q, where u
\* follows them at place n; p is separate if nothing was cut off.
Carries(p, q, s, u, n) ==
  Separate(q) =>
    /\ p.cursor = Len(p.recs) => Separate(p)
    /\ \A tx : Tells(p, tx) /\ tx[p.cursor] = s => Tells(q, Ext(tx, n, u))

\* The three ways in which the log takes one more byte
Joins(p, q, pos, s, u) ==
  /\ q.lost = p.lost /\ q.cursor = p.cursor /\ p.cursor \in Nat \ {0}
  /\ p.recs[p.cursor].kind = Insertion
  /\ EndsAt(q, pos + 1)
  /\ Carries(p, q, s, u, p.cursor)
Appends(p, q, pos, s, u) ==
  /\ q.lost = p.lost /\ q.cursor = p.cursor + 1
  /\ EndsAt(q, pos + 1)
  /\ ~(p.cursor = Len(p.recs) /\ EndsAt(p, pos))
  /\ Carries(p, q, s, u, p.cursor + 1)
Restarts(q, pos, u) ==
  /\ q.lost = TRUE /\ q.cursor <= 1
  /\ EndsAt(q, pos + 1) \/ (q.recs = <<>> /\ q.used = 0)
  /\ Separate(q) => \E ty : Tells(q, ty) /\ ty[q.cursor] = u

LEMMA JoinedJoins ==
  ASSUME NEW e, IsEditor(e), IsBook(e), e.cursor = Len(e.recs), NEW pos \in Nat,
         NEW byte \in Bytes, Coalesces(e, pos), NEW s,
         NEW u, IsShort(u), u = Spliced(s, pos, <<byte>>)
  PROVE  LET q == Joined(e, byte)
         IN  /\ IsBook(q) /\ q.cursor = Len(q.recs) /\ q.missed = e.missed
             /\ Joins(e, q, pos, s, u)
<1> DEFINE q == Joined(e, byte)
           n == Len(e.recs)
<1>1. /\ IsBook(q) /\ Len(q.recs) = n /\ n \in Nat \ {0} /\ q.cursor = n /\ q.recs # <<>>
      /\ q.recs[n].kind = Insertion /\ e.recs[n].kind = Insertion
      /\ q.recs[n].pos = e.recs[n].pos
      /\ q.recs[n].len = e.recs[n].len + 1 /\ e.recs[n].pos + e.recs[n].len = pos
      /\ q.lost = e.lost /\ q.missed = e.missed
      /\ Separate(q) => Separate(e)
  BY JoinedBook
<1>2. e.recs[n].pos \in Nat /\ e.recs[n].len \in Nat
  <2>1. e.recs \in Seq(Rec) /\ n \in 1..Len(e.recs)
    BY <1>1 DEF IsBook
  <2>2. e.recs[n] \in Rec
    BY <2>1
  <2> QED BY <2>2 DEF Rec, RecSet
<1>3. ASSUME Separate(q), NEW tx, Tells(e, tx), tx[e.cursor] = s
      PROVE  Tells(q, Ext(tx, e.cursor, u))
  BY <1>3, JoinedTells
<1> HIDE DEF q
<1>4. q.recs[n].pos + q.recs[n].len = pos + 1
  <2> DEFINE a == e.recs[n].pos
             b == e.recs[n].len
  <2>1. a \in Nat /\ b \in Nat /\ q.recs[n].pos = a /\ q.recs[n].len = b + 1 /\ a + b = pos
    BY <1>1, <1>2
  <2> HIDE DEF a, b
  <2> QED BY <2>1
<1>5. EndsAt(q, pos + 1)
  BY <1>1, <1>4 DEF EndsAt
<1>6. Carries(e, q, s, u, e.cursor)
  BY <1>1, <1>3 DEF Carries
<1> QED BY <1>1, <1>5, <1>6 DEF q, n, Joins

LEMMA RecordedAppends ==
  ASSUME NEW e, IsEditor(e), IsBook(e), e.cursor = Len(e.recs), NEW pos \in Nat,
         NEW byte \in Bytes, ~Coalesces(e, pos), e.used + 1 <= ArenaCap,
         NEW s, IsShort(s), pos <= Len(s),
         NEW u, IsShort(u), u = Spliced(s, pos, <<byte>>)
  PROVE  LET q == Recorded(e, Insertion, pos, <<byte>>)
         IN  /\ IsBook(q) /\ q.cursor = Len(q.recs) /\ q.missed = e.missed
             /\ Appends(e, q, pos, s, u)
<1> DEFINE bytes == <<byte>>
           rec == NewRecord(e, Insertion, pos, bytes)
           q == Recorded(e, Insertion, pos, bytes)
           n == Len(e.recs)
<1>1. bytes \in Seq(Bytes) /\ Len(bytes) = 1 /\ Insertion \in {Insertion, Deletion}
  OBVIOUS
<1>2. u = Spliced(s, pos, bytes)
  OBVIOUS
<1> HIDE DEF bytes
<1>3. /\ IsBook(q) /\ Len(q.recs) = n + 1
      /\ q.cursor = Len(q.recs) /\ q.recs[Len(q.recs)] = rec /\ q.recs # <<>>
      /\ \A i \in 1..n : q.recs[i] = e.recs[i]
      /\ q.lost = e.lost /\ q.missed = e.missed
      /\ Separate(q) => \A i \in 1..n : e.recs[i].off + e.recs[i].len <= e.used
  BY <1>1, RecordedBook
<1>4. rec.kind = Insertion /\ rec.pos = pos /\ rec.len = 1
  BY <1>1 DEF NewRecord
<1>5. Leads(bytes, rec, s, u)
  <2> HIDE DEF rec
  <2> QED BY <1>1, <1>2, <1>4 DEF Leads
<1>6. e.used + Len(bytes) <= ArenaCap
  BY <1>1
<1>7. ASSUME Separate(q), NEW tx, Tells(e, tx), tx[e.cursor] = s
      PROVE  Tells(q, Ext(tx, e.cursor + 1, u))
  BY <1>1, <1>5, <1>6, <1>7, RecordedTells
<1> HIDE DEF q, rec
<1>8. EndsAt(q, pos + 1)
  BY <1>3, <1>4 DEF EndsAt
<1>9. ASSUME Separate(q) PROVE Separate(e)
  <2>1. DOMAIN e.recs = 1..n /\ DOMAIN q.recs = 1..(n + 1) /\ n \in Nat
    BY <1>3 DEF IsBook
  <2>2. \A i \in 1..n : i \in 1..(n + 1) /\ q.recs[i] = e.recs[i]
    BY <1>3, <2>1
  <2>3. \A i, j \in 1..n : i < j => q.recs[i].off + q.recs[i].len <= q.recs[j].off
    BY <1>9, <2>1, <2>2 DEF Separate
  <2>4. \A i, j \in 1..n : i < j => e.recs[i].off + e.recs[i].len <= e.recs[j].off
    BY <2>2, <2>3
  <2> QED BY <1>3, <1>9, <2>1, <2>4 DEF Separate
<1>10. ~EndsAt(e, pos)
  <2>1. e.used \in Nat /\ ArenaCap \in Nat
    BY EditorAssumption DEF IsBook
  <2>2. e.used < ArenaCap
    BY <2>1
  <2> QED BY <2>2 DEF Coalesces, EndsAt
<1>11. Carries(e, q, s, u, e.cursor + 1)
  BY <1>7, <1>9 DEF Carries
<1> QED BY <1>3, <1>8, <1>10, <1>11 DEF q, n, bytes, Appends

\* A log that begins anew, with nothing or with one record
LEMMA OneTextTold ==
  ASSUME NEW q, q.recs = <<>>, NEW u, IsShort(u)
  PROVE  Tells(q, [i \in 0..0 |-> u])
<1>1. Len(q.recs) = 0
  OBVIOUS
<1> QED BY <1>1 DEF Tells

LEMMA ResetBook ==
  ASSUME NEW e, IsEditor(e)
  PROVE  LET r == Reset(e)
         IN  /\ IsEditor(r) /\ IsBook(r) /\ r.recs = <<>> /\ r.cursor = 0 /\ Len(r.recs) = 0
             /\ r.used = 0 /\ r.lost = TRUE /\ r.missed = e.missed /\ Separate(r)
<1> DEFINE r == Reset(e)
<1>1. SameText(e, r) /\ r.recs = <<>> /\ r.cursor = 0 /\ r.missed = e.missed
  BY ResetFacts
<1>2. r.used = 0 /\ r.arena = NoBytes /\ r.lost = TRUE
  BY ResetLog
<1>3. IsEditor(r)
  BY <1>1 DEF SameText
<1> HIDE DEF r
<1>4. <<>> \in Seq(Rec) /\ Len(<<>>) = 0 /\ DOMAIN NoBytes = 0..(ArenaCap - 1)
  BY DEF NoBytes
<1>5. IsBook(r) /\ Len(r.recs) = 0
  BY <1>1, <1>2, <1>4 DEF IsBook
<1>6. Separate(r)
  BY <1>1 DEF Separate
<1> QED BY <1>1, <1>2, <1>3, <1>5, <1>6 DEF r

\* A log with one record leads from s to u.
LeadsTo(q, s, u) == \E ty : Tells(q, ty) /\ ty[1] = u /\ ty[0] = s

LEMMA RecordedAnew ==
  ASSUME NEW e, IsEditor(e), IsBook(e), e.recs = <<>>, e.used = 0,
         NEW kind \in {Insertion, Deletion}, NEW pos \in Nat, NEW bytes \in Seq(Bytes),
         NEW s, IsShort(s), NEW u, IsShort(u), Len(bytes) <= ArenaCap,
         Leads(bytes, NewRecord(e, kind, pos, bytes), s, u),
         Separate(Recorded(e, kind, pos, bytes))
  PROVE  LeadsTo(Recorded(e, kind, pos, bytes), s, u)
<1> DEFINE tx == [i \in 0..0 |-> s]
           ty == Ext(tx, 1, u)
<1>1. Tells(e, tx) /\ Len(e.recs) = 0
  BY OneTextTold
<1>2. tx[Len(e.recs)] = s /\ Len(e.recs) + 1 = 1
  BY <1>1
<1>3. e.used + Len(bytes) <= ArenaCap
  <2>1. Len(bytes) \in Nat
    OBVIOUS
  <2> QED BY <2>1
<1> HIDE DEF tx
<1>4. Tells(Recorded(e, kind, pos, bytes), Ext(tx, Len(e.recs) + 1, u))
  BY <1>1, <1>2, <1>3, RecordedTells
<1>5. Tells(Recorded(e, kind, pos, bytes), ty)
  BY <1>2, <1>4
<1>6. ty[1] = u /\ ty[0] = s
  BY <1>1, <1>2 DEF Ext
<1> HIDE DEF ty
<1> QED BY <1>5, <1>6 DEF LeadsTo

LEMMA RecordedRestarts ==
  ASSUME NEW e, IsEditor(e), IsBook(e), e.recs = <<>>, e.used = 0, e.lost = TRUE,
         NEW pos \in Nat, NEW byte \in Bytes, NEW s, IsShort(s), pos <= Len(s),
         NEW u, IsShort(u), u = Spliced(s, pos, <<byte>>)
  PROVE  LET q == Recorded(e, Insertion, pos, <<byte>>)
         IN  /\ IsBook(q) /\ q.cursor = Len(q.recs) /\ q.missed = e.missed
             /\ Restarts(q, pos, u)
<1> DEFINE bytes == <<byte>>
           rec == NewRecord(e, Insertion, pos, bytes)
           q == Recorded(e, Insertion, pos, bytes)
<1>1. bytes \in Seq(Bytes) /\ Len(bytes) = 1 /\ Insertion \in {Insertion, Deletion}
  OBVIOUS
<1>2. u = Spliced(s, pos, bytes) /\ Len(e.recs) = 0
  OBVIOUS
<1> HIDE DEF bytes
<1>3. /\ IsBook(q) /\ Len(q.recs) = 1
      /\ q.cursor = Len(q.recs) /\ q.recs[Len(q.recs)] = rec /\ q.recs # <<>>
      /\ q.lost = e.lost /\ q.missed = e.missed
  BY <1>1, <1>2, RecordedBook, SMTT(40)
<1>4. rec.kind = Insertion /\ rec.pos = pos /\ rec.len = 1
  BY <1>1 DEF NewRecord
<1>5. Leads(bytes, rec, s, u)
  <2> HIDE DEF rec
  <2> QED BY <1>1, <1>2, <1>4 DEF Leads
<1>6. Len(bytes) <= ArenaCap
  BY <1>1, EditorAssumption
<1>7. ASSUME Separate(q) PROVE \E ty : Tells(q, ty) /\ ty[1] = u
  <2>1. LeadsTo(q, s, u)
    BY <1>1, <1>5, <1>6, <1>7, RecordedAnew
  <2> HIDE DEF q
  <2> QED BY <2>1 DEF LeadsTo
<1> HIDE DEF q, rec
<1>8. EndsAt(q, pos + 1)
  BY <1>3, <1>4 DEF EndsAt
<1> QED BY <1>3, <1>7, <1>8 DEF q, bytes, Restarts

\* gt_undo_push_insert
LEMMA PushInsertCases ==
  ASSUME NEW p, IsEditor(p), IsBook(p), NEW pos \in Nat, NEW byte \in Bytes,
         NEW s, IsShort(s), pos <= Len(s),
         NEW u, IsShort(u), u = Spliced(s, pos, <<byte>>)
  PROVE  LET q == PushInsert(p, pos, byte)
         IN  /\ IsBook(q) /\ q.cursor = Len(q.recs) /\ q.missed = p.missed
             /\ Joins(p, q, pos, s, u) \/ Appends(p, q, pos, s, u) \/ Restarts(q, pos, u)
<1> DEFINE t == Truncate(p)
           r == IF Len(t.recs) >= RecCap THEN Reset(t) ELSE t
           q == PushInsert(p, pos, byte)
<1>1. /\ IsBook(t) /\ t.cursor = Len(t.recs) /\ t.cursor = p.cursor
      /\ t.lost = p.lost /\ t.missed = p.missed
      /\ p.cursor = Len(p.recs) => t.recs = p.recs /\ t.used = p.used
  BY TruncateBook
<1>2. IsEditor(t)
  BY TruncateFacts DEF SameText
<1>3. \A tx : Tells(p, tx) => Tells(t, tx)
  BY TruncateTells
<1>4. p.cursor = Len(p.recs) /\ Separate(t) => Separate(p)
  BY <1>1 DEF Separate
<1>5. t.recs[t.cursor].kind = Insertion /\ p.cursor \in Nat \ {0}
        => p.recs[p.cursor].kind = Insertion
  <2>1. t.recs = SubSeq(p.recs, 1, p.cursor) /\ p.recs \in Seq(Rec) /\ p.cursor \in 0..Len(p.recs)
    BY TruncateFacts DEF IsBook
  <2> HIDE DEF t
  <2>2. p.cursor \in Nat \ {0} => t.recs[p.cursor] = p.recs[p.cursor]
    BY <2>1
  <2> QED BY <1>1, <2>2
<1>6. q = IF Coalesces(t, pos) THEN Joined(t, byte)
          ELSE IF r.used + 1 > ArenaCap THEN Reset(r)
          ELSE Recorded(r, Insertion, pos, <<byte>>)
  BY DEF PushInsert
<1> HIDE DEF t, q
<1>7. CASE Coalesces(t, pos)
  <2>1. q = Joined(t, byte)
    BY <1>6, <1>7
  <2>2. /\ IsBook(q) /\ q.cursor = Len(q.recs) /\ q.missed = t.missed
        /\ Joins(t, q, pos, s, u)
    BY <1>1, <1>2, <1>7, <2>1, JoinedJoins
  <2>3. Carries(p, q, s, u, p.cursor)
    BY <1>1, <1>3, <1>4, <2>2 DEF Joins, Carries
  <2>4. Joins(p, q, pos, s, u)
    BY <1>1, <1>5, <2>2, <2>3 DEF Joins
  <2> QED BY <1>1, <2>2, <2>4 DEF q
<1>8. CASE ~Coalesces(t, pos) /\ r.used + 1 > ArenaCap
  <2>1. q = Reset(r)
    BY <1>6, <1>8
  <2>2. IsEditor(r) /\ r.missed = t.missed
    BY <1>2, ResetBook
  <2>3. /\ IsBook(q) /\ q.recs = <<>> /\ q.cursor = 0 /\ Len(q.recs) = 0
        /\ q.used = 0 /\ q.lost = TRUE /\ q.missed = r.missed
    BY <2>1, <2>2, ResetBook
  <2> DEFINE ty == [i \in 0..0 |-> u]
  <2>4. ty[0] = u
    OBVIOUS
  <2>5. Tells(q, ty)
    BY <2>3, OneTextTold
  <2> HIDE DEF ty
  <2>6. Restarts(q, pos, u)
    BY <2>3, <2>4, <2>5 DEF Restarts
  <2> QED BY <1>1, <2>2, <2>3, <2>6 DEF q
<1>9. CASE ~Coalesces(t, pos) /\ ~(r.used + 1 > ArenaCap) /\ Len(t.recs) >= RecCap
  <2>1. r = Reset(t) /\ q = Recorded(r, Insertion, pos, <<byte>>)
    BY <1>6, <1>9
  <2>2. /\ IsEditor(r) /\ IsBook(r) /\ r.recs = <<>> /\ r.used = 0 /\ r.lost = TRUE
        /\ r.missed = t.missed
    BY <1>2, <2>1, ResetBook
  <2> HIDE DEF r
  <2>3. /\ IsBook(q) /\ q.cursor = Len(q.recs) /\ q.missed = r.missed
        /\ Restarts(q, pos, u)
    BY <2>1, <2>2, RecordedRestarts
  <2> QED BY <1>1, <2>2, <2>3 DEF q
<1>10. CASE ~Coalesces(t, pos) /\ ~(r.used + 1 > ArenaCap) /\ ~(Len(t.recs) >= RecCap)
  <2>1. q = Recorded(t, Insertion, pos, <<byte>>)
    BY <1>6, <1>10
  <2>2. t.used + 1 <= ArenaCap
    <3>1. t.used \in Nat /\ ArenaCap \in Nat /\ ~(t.used + 1 > ArenaCap)
      BY <1>1, <1>10, EditorAssumption DEF IsBook
    <3> QED BY <3>1
  <2>3. /\ IsBook(q) /\ q.cursor = Len(q.recs) /\ q.missed = t.missed
        /\ Appends(t, q, pos, s, u)
    BY <1>1, <1>2, <1>10, <2>1, <2>2, RecordedAppends
  <2>4. Carries(p, q, s, u, p.cursor + 1)
    BY <1>1, <1>3, <1>4, <2>3 DEF Appends, Carries
  <2>5. ~(p.cursor = Len(p.recs) /\ EndsAt(p, pos))
    BY <1>1, <2>3 DEF Appends, EndsAt
  <2>6. Appends(p, q, pos, s, u)
    BY <1>1, <2>3, <2>4, <2>5 DEF Appends
  <2> QED BY <1>1, <2>3, <2>6 DEF q
<1> QED BY <1>7, <1>8, <1>9, <1>10

\* The log takes a deletion, behind what it keeps or as its first record.
Deletes(p, q, s, u) ==
  /\ IsBook(q) /\ q.cursor = Len(q.recs) /\ q.cursor \in Nat \ {0}
  /\ q.recs[q.cursor].kind = Deletion
  /\ \/ /\ q.lost = p.lost /\ q.cursor = p.cursor + 1
        /\ Separate(q) =>
             \A tx : Tells(p, tx) /\ tx[p.cursor] = s => Tells(q, Ext(tx, p.cursor + 1, u))
     \/ /\ q.lost = TRUE /\ q.cursor = 1
        /\ Separate(q) => LeadsTo(q, s, u)

\* gt_undo_push_delete; after a reset the bytes of a text fit an empty arena.
LEMMA PushDeleteCases ==
  ASSUME NEW p, IsEditor(p), IsBook(p), CodeCap - 2 <= ArenaCap,
         NEW s, IsShort(s), NEW pos \in Nat, NEW n \in Nat, pos + n <= Len(s)
  PROVE  LET q == PushDelete(p, pos, SubSeq(s, pos + 1, pos + n))
             u == Without(s, pos, n)
         IN  /\ IsShort(u)
             /\ q.missed = TRUE \/ Deletes(p, q, s, u)
<1> DEFINE bytes == SubSeq(s, pos + 1, pos + n)
           u == Without(s, pos, n)
           t == Truncate(p)
           r == IF t.used + Len(bytes) > ArenaCap THEN Reset(t) ELSE t
           q == PushDelete(p, pos, bytes)
           kind == Deletion
<1>1. /\ IsBook(t) /\ t.cursor = Len(t.recs) /\ t.cursor = p.cursor
      /\ t.lost = p.lost /\ t.missed = p.missed
  BY TruncateBook
<1>2. IsEditor(t)
  BY TruncateFacts DEF SameText
<1>3. \A tx : Tells(p, tx) => Tells(t, tx)
  BY TruncateTells
<1>4. q = IF Len(r.recs) >= RecCap THEN [r EXCEPT !.missed = TRUE]
          ELSE Recorded(r, kind, pos, bytes)
  BY DEF PushDelete
<1> HIDE DEF t, q
<1>5. s \in Seq(Bytes) /\ Len(s) <= CodeCap - 2 /\ Len(s) \in Nat /\ CodeCap \in Nat /\ ArenaCap \in Nat
  BY EditorAssumption DEF IsShort
<1>6. bytes \in Seq(Bytes) /\ Len(bytes) = n /\ s = Spliced(u, pos, bytes)
  BY <1>5, SplicedWithout
<1>7. u \in Seq(Bytes) /\ Len(u) = Len(s) - n
  <2>1. IsWithout(Bytes, u, s, pos, n)
    BY <1>5, WithoutSeq
  <2> HIDE DEF u
  <2> QED BY <2>1 DEF IsWithout
<1> HIDE DEF u, bytes
<1>8. IsShort(u) /\ pos <= Len(u) /\ Len(bytes) <= ArenaCap
  BY <1>5, <1>6, <1>7 DEF IsShort
<1>9. kind \in {Insertion, Deletion} /\ kind # Insertion /\ kind = Deletion
  BY DEF Insertion, Deletion
<1> HIDE DEF kind
<1>10. \A e : Leads(bytes, NewRecord(e, kind, pos, bytes), s, u)
  <2> TAKE e
  <2> DEFINE rec == NewRecord(e, kind, pos, bytes)
  <2>1. rec.kind = kind /\ rec.pos = pos /\ rec.len = Len(bytes)
    BY DEF NewRecord
  <2> HIDE DEF rec
  <2>2. Leads(bytes, rec, s, u)
    BY <1>6, <1>8, <1>9, <2>1 DEF Leads
  <2> QED BY <2>2 DEF rec
<1>11. ASSUME IsEditor(r), IsBook(r), q = Recorded(r, kind, pos, bytes)
       PROVE  /\ IsBook(q) /\ q.cursor = Len(q.recs) /\ q.cursor = Len(r.recs) + 1
              /\ q.cursor \in Nat \ {0} /\ q.recs[q.cursor].kind = Deletion /\ q.lost = r.lost
  <2> HIDE DEF r
  <2> DEFINE rec == NewRecord(r, kind, pos, bytes)
  <2>1. /\ IsBook(q) /\ Len(q.recs) = Len(r.recs) + 1
        /\ q.cursor = Len(q.recs) /\ q.recs[Len(q.recs)] = rec /\ q.lost = r.lost
    BY <1>6, <1>9, <1>11, RecordedBook
  <2>2. rec.kind = kind
    BY DEF NewRecord
  <2> HIDE DEF rec
  <2>3. Len(r.recs) \in Nat
    BY <1>11 DEF IsBook
  <2> QED BY <1>9, <2>1, <2>2, <2>3
<1>12. CASE Len(r.recs) >= RecCap
  <2>1. IsEditor(r)
    BY <1>2, ResetBook
  <2> HIDE DEF r
  <2>2. q.missed = TRUE
    BY <1>4, <1>12, <2>1, SetMissed
  <2> QED BY <1>8, <2>2 DEF q, u, bytes
<1>13. CASE ~(Len(r.recs) >= RecCap) /\ t.used + Len(bytes) > ArenaCap
  <2>1. r = Reset(t) /\ q = Recorded(r, kind, pos, bytes)
    BY <1>4, <1>13
  <2>2. /\ IsEditor(r) /\ IsBook(r) /\ r.recs = <<>> /\ r.used = 0 /\ r.lost = TRUE /\ Len(r.recs) = 0
    BY <1>2, <2>1, ResetBook
  <2>3. /\ IsBook(q) /\ q.cursor = Len(q.recs) /\ q.cursor = 1
        /\ q.cursor \in Nat \ {0} /\ q.recs[q.cursor].kind = Deletion /\ q.lost = TRUE
    BY <1>11, <2>1, <2>2
  <2> HIDE DEF r
  <2>4. ASSUME Separate(q) PROVE LeadsTo(q, s, u)
    BY <1>6, <1>8, <1>9, <1>10, <2>1, <2>2, <2>4, RecordedAnew
  <2>5. Deletes(p, q, s, u)
    BY <2>3, <2>4 DEF Deletes
  <2> QED BY <1>8, <2>5 DEF q, u, bytes
<1>14. CASE ~(Len(r.recs) >= RecCap) /\ ~(t.used + Len(bytes) > ArenaCap)
  <2>1. r = t /\ q = Recorded(r, kind, pos, bytes)
    BY <1>4, <1>14
  <2>2. /\ IsBook(q) /\ q.cursor = Len(q.recs) /\ q.cursor = p.cursor + 1
        /\ q.cursor \in Nat \ {0} /\ q.recs[q.cursor].kind = Deletion /\ q.lost = p.lost
    BY <1>1, <1>2, <1>11, <2>1
  <2>3. t.used + Len(bytes) <= ArenaCap
    <3>1. t.used \in Nat
      BY <1>1 DEF IsBook
    <3> QED BY <1>5, <1>6, <1>14, <3>1
  <2>4. ASSUME Separate(q), NEW tx, Tells(p, tx), tx[p.cursor] = s
        PROVE  Tells(q, Ext(tx, p.cursor + 1, u))
    <3>1. Tells(t, tx) /\ Leads(bytes, NewRecord(t, kind, pos, bytes), tx[Len(t.recs)], u)
      BY <1>1, <1>3, <1>10, <2>4
    <3>2. q = Recorded(t, kind, pos, bytes)
      BY <2>1
    <3>3. Tells(q, Ext(tx, Len(t.recs) + 1, u))
      BY <1>1, <1>2, <1>6, <1>8, <1>9, <2>3, <2>4, <3>1, <3>2, RecordedTells
    <3> QED BY <1>1, <3>3
  <2>5. Deletes(p, q, s, u)
    BY <2>2, <2>4 DEF Deletes
  <2> QED BY <1>8, <2>5 DEF q, u, bytes
<1> QED BY <1>12, <1>13, <1>14

-----------------------------------------------------------------------------
(* The edits of a frame *)

LEMMA SameLogFacts ==
  ASSUME NEW e, NEW r, SameLog(e, r)
  PROVE  /\ SameLog(r, e)
         /\ IsBook(e) => IsBook(r)
         /\ Separate(e) => Separate(r)
         /\ \A tx : Tells(e, tx) => Tells(r, tx)
         /\ \A pos : EndsAt(e, pos) => EndsAt(r, pos)
<1>1. \A rec : Saved(r, rec) = Saved(e, rec)
  BY DEF SameLog, Saved
<1>2. \A rec, s, t : Stands(e, rec, s, t) => Stands(r, rec, s, t)
  BY <1>1 DEF Stands
<1>3. r.recs = e.recs
  BY DEF SameLog
<1>4. \A tx : Tells(e, tx) => Tells(r, tx)
  BY <1>2, <1>3 DEF Tells
<1>5. IsBook(e) => IsBook(r)
  BY DEF SameLog, IsBook
<1>6. Separate(e) => Separate(r)
  BY DEF SameLog, Separate
<1>7. \A pos : EndsAt(e, pos) => EndsAt(r, pos)
  BY <1>3 DEF EndsAt
<1> QED BY <1>4, <1>5, <1>6, <1>7 DEF SameLog

LEMMA SameLogTrans ==
  ASSUME NEW e, NEW t, NEW r, SameLog(e, t), SameLog(t, r)
  PROVE  SameLog(e, r)
BY DEF SameLog

LEMMA NoSelectionFields ==
  ASSUME NEW e, IsEditor(e)
  PROVE  LET r == NoSelectionSet(e)
         IN  /\ IsEditor(r) /\ SameLog(e, r) /\ r.buf = e.buf /\ r.caret = e.caret
             /\ r.sel = FALSE
<1>1. SameLog(e, NoSelectionSet(e))
  BY LogUntouched
<1> QED BY <1>1, SetNoSelection

\* The text after a cut, and the log that gt_undo_push_delete leaves
LEMMA CutFields ==
  ASSUME NEW e, IsEditor(e), NEW pos \in Nat, NEW n \in Nat
  PROVE  LET r == Cut(e, pos, n)
             p == PushDelete(e, pos, SubSeq(e.buf, pos + 1, pos + n))
         IN  /\ IsEditor(r) /\ SameLog(p, r) /\ r.buf = Without(e.buf, pos, n)
             /\ r.caret = pos /\ r.sel = FALSE /\ r.missed \in {e.missed, TRUE}
<1> DEFINE bytes == SubSeq(e.buf, pos + 1, pos + n)
           p == PushDelete(e, pos, bytes)
           c == TextSet(p, Without(p.buf, pos, n), pos)
           r == Edited(c)
<1>1. SameText(e, p) /\ p.missed \in {e.missed, TRUE}
  BY PushDeleteText
<1>2. IsEditor(p) /\ p.buf = e.buf
  BY <1>1 DEF SameText
<1>3. Cut(e, pos, n) = r
  <2>1. Cut(e, pos, n) = Edited([p EXCEPT !.buf = Without(@, pos, n), !.caret = pos])
    BY DEF Cut
  <2> HIDE DEF p
  <2>2. [p EXCEPT !.buf = Without(@, pos, n), !.caret = pos] = c
    BY DEF TextSet
  <2> QED BY <2>1, <2>2
<1> HIDE DEF p
<1>4. IsEditor(c) /\ SameLog(p, c) /\ c.buf = Without(e.buf, pos, n) /\ c.caret = pos
  <2>1. SameLog(p, c)
    BY <1>2, LogUntouched
  <2> QED BY <1>2, <2>1, SetText
<1> HIDE DEF c
<1>5. /\ IsEditor(r) /\ SameLog(c, r) /\ r.buf = Without(e.buf, pos, n)
      /\ r.caret = pos /\ r.sel = FALSE
  <2>1. SameLog(c, r)
    BY <1>4, LogUntouched
  <2> QED BY <1>4, <2>1, SetEdited
<1> HIDE DEF r
<1>6. SameLog(p, r)
  BY <1>4, <1>5, SameLogTrans
<1>7. r.missed \in {e.missed, TRUE}
  BY <1>1, <1>6 DEF SameLog
<1> QED BY <1>3, <1>5, <1>6, <1>7 DEF p

Removal(s, i, j) == SubSeq(s, 1, i) \o SubSeq(s, j + 1, Len(s))
RemovalsOf(s) == {Removal(s, i, j) : i \in 0..Len(s), j \in 0..Len(s)}

\* A struct at the beginning of a frame, where tx are its texts
Start(e, tx) ==
  /\ IsEditor(e) /\ IsBook(e) /\ Separate(e) /\ e.lost = FALSE
  /\ Tells(e, tx) /\ tx[e.cursor] = e.buf

\* A frame that has not touched the text yet, one that has removed something,
\* and one that types, behind what it has typed
Untouched(e, t) == SameLog(e, t) /\ t.buf = e.buf
Trimmed(e, tx, t) ==
  /\ IsBook(t) /\ t.cursor = Len(t.recs) /\ t.cursor \in Nat \ {0}
  /\ t.recs[t.cursor].kind = Deletion
  /\ t.sel = FALSE /\ IsShort(t.buf) /\ t.buf \in RemovalsOf(e.buf)
  /\ Separate(t) =>
       \E ty : /\ Tells(t, ty) /\ ty[t.cursor] = t.buf
               /\ Past(ty, t.cursor) = IF t.lost = TRUE THEN <<e.buf>>
                                       ELSE Append(Past(tx, e.cursor), e.buf)
Grown(s, P, Q, lost) ==
  IF lost = TRUE THEN Len(Q) <= 1 \/ \E mid \in RemovalsOf(s) : Q = <<s, mid>>
  ELSE \/ P # <<>> /\ Q = P
       \/ Q = Append(P, s)
       \/ \E mid \in RemovalsOf(s) : Q = Append(Append(P, s), mid)
Typing(e, tx, t) ==
  /\ IsBook(t) /\ t.cursor = Len(t.recs) /\ t.sel = FALSE /\ IsShort(t.buf)
  /\ EndsAt(t, t.caret) \/ (t.recs = <<>> /\ t.used = 0 /\ t.lost = TRUE)
  /\ Separate(t) =>
       \E ty : /\ Tells(t, ty) /\ ty[t.cursor] = t.buf
               /\ Grown(e.buf, Past(tx, e.cursor), Past(ty, t.cursor), t.lost)

InFrame(e, tx, t) ==
  IsEditor(t) /\ (t.missed = TRUE \/ Untouched(e, t) \/ Trimmed(e, tx, t) \/ Typing(e, tx, t))

LEMMA StartFacts ==
  ASSUME NEW e, NEW tx, Start(e, tx)
  PROVE  /\ e.cursor \in 0..Len(e.recs) /\ e.cursor \in Nat /\ IsShort(e.buf)
         /\ e.recs \in Seq(Rec)
<1>1. e.cursor \in 0..Len(e.recs) /\ e.recs \in Seq(Rec)
  BY DEF Start, IsBook
<1>2. IsShort(tx[e.cursor])
  BY <1>1 DEF Start, Tells
<1> QED BY <1>1, <1>2 DEF Start

LEMMA LeadsPast ==
  ASSUME NEW ty, NEW s, ty[0] = s
  PROVE  Past(ty, 1) = <<s>>
<1>1. \A i \in 1..1 : ty[i - 1] = s
  <2>1. \A i \in 1..1 : i - 1 = 0
    OBVIOUS
  <2> QED BY <2>1
<1> QED BY <1>1 DEF Past

\* The first cut of a frame
LEMMA CutTrims ==
  ASSUME CodeCap - 2 <= ArenaCap, NEW e, NEW tx, Start(e, tx),
         NEW t, IsEditor(t), Untouched(e, t),
         NEW pos \in Nat, NEW n \in Nat, pos + n <= Len(t.buf)
  PROVE  LET r == Cut(t, pos, n)
         IN  r.missed = TRUE \/ Trimmed(e, tx, r)
<1> DEFINE s == t.buf
           q == PushDelete(t, pos, SubSeq(s, pos + 1, pos + n))
           u == Without(s, pos, n)
           r == Cut(t, pos, n)
<1>1. s = e.buf /\ IsShort(s) /\ SameLog(e, t) /\ e.lost = FALSE
  BY StartFacts DEF Untouched, Start
<1>2. IsBook(t) /\ Tells(t, tx) /\ tx[t.cursor] = s /\ t.cursor = e.cursor /\ t.lost = FALSE
  BY <1>1, SameLogFacts DEF Start, SameLog
<1>3. IsEditor(r) /\ SameLog(q, r) /\ r.buf = u /\ r.sel = FALSE
  BY CutFields
<1>4. IsShort(u) /\ (q.missed = TRUE \/ Deletes(t, q, s, u))
  <2> DEFINE ss == t.buf
  <2> HIDE DEF ss
  <2>1. IsShort(ss) /\ pos + n <= Len(ss)
    BY <1>1 DEF ss
  <2>2. /\ IsShort(Without(ss, pos, n))
        /\ PushDelete(t, pos, SubSeq(ss, pos + 1, pos + n)).missed = TRUE
           \/ Deletes(t, PushDelete(t, pos, SubSeq(ss, pos + 1, pos + n)), ss, Without(ss, pos, n))
    BY <1>2, <2>1, PushDeleteCases
  <2> QED BY <2>2 DEF ss
<1>5. u \in RemovalsOf(s)
  <2>1. pos \in 0..Len(s) /\ pos + n \in 0..Len(s)
    <3>1. Len(s) \in Nat
      BY <1>1 DEF IsShort
    <3> QED BY <3>1
  <2> DEFINE j == pos + n
  <2> HIDE DEF s
  <2>2. u = Removal(s, pos, j)
    BY DEF Without, Removal
  <2>3. pos \in 0..Len(s) /\ j \in 0..Len(s)
    BY <2>1
  <2> HIDE DEF j, u
  <2> QED BY <2>2, <2>3 DEF RemovalsOf
<1>6. e.cursor \in Nat
  BY StartFacts
<1> HIDE DEF s, q, u, r
<1>7. CASE q.missed = TRUE
  BY <1>3, <1>7 DEF r, SameLog
<1>8. CASE Deletes(t, q, s, u)
  <2>1. /\ IsBook(r) /\ r.cursor = q.cursor /\ r.recs = q.recs /\ r.lost = q.lost
        /\ Separate(r) => Separate(q)
        /\ \A ty : Tells(q, ty) => Tells(r, ty)
    BY <1>3, <1>8, SameLogFacts DEF Deletes, SameLog
  <2>2. /\ r.cursor = Len(r.recs) /\ r.cursor \in Nat \ {0} /\ r.recs[r.cursor].kind = Deletion
    BY <1>8, <2>1 DEF Deletes
  <2>3. ASSUME Separate(r)
        PROVE  \E ty : /\ Tells(r, ty) /\ ty[r.cursor] = r.buf
                       /\ Past(ty, r.cursor) = IF r.lost = TRUE THEN <<e.buf>>
                                               ELSE Append(Past(tx, e.cursor), e.buf)
    <3>1. CASE /\ q.lost = t.lost /\ q.cursor = t.cursor + 1
               /\ Tells(q, Ext(tx, t.cursor + 1, u))
      <4> DEFINE ty == Ext(tx, e.cursor + 1, u)
      <4>1. Tells(r, ty) /\ r.lost # TRUE /\ r.cursor = e.cursor + 1
        BY <1>2, <2>1, <3>1
      <4>2. ty[e.cursor + 1] = u
        BY <1>6 DEF Ext
      <4>3. Past(ty, e.cursor + 1) = Append(Past(tx, e.cursor), tx[e.cursor])
        BY <1>6, PastExt
      <4> HIDE DEF ty
      <4> QED BY <1>1, <1>2, <1>3, <4>1, <4>2, <4>3
    <3>2. CASE q.lost = TRUE /\ q.cursor = 1 /\ LeadsTo(q, s, u)
      <4>1. PICK ty : Tells(q, ty) /\ ty[1] = u /\ ty[0] = s
        BY <3>2 DEF LeadsTo
      <4>2. Past(ty, 1) = <<s>>
        BY <4>1, LeadsPast
      <4> QED BY <1>1, <1>3, <2>1, <3>2, <4>1, <4>2
    <3> QED BY <1>2, <1>8, <2>1, <2>3, <3>1, <3>2 DEF Deletes
  <2>4. Trimmed(e, tx, r)
    BY <1>1, <1>3, <1>4, <1>5, <2>1, <2>2, <2>3 DEF Trimmed
  <2> QED BY <2>4 DEF r
<1> QED BY <1>4, <1>7, <1>8

LEMMA CutMissed ==
  ASSUME NEW e, IsEditor(e), NEW pos, NEW n
  PROVE  LET r == Cut(e, pos, n)
         IN  IsEditor(r) /\ r.sel = FALSE /\ r.missed \in {e.missed, TRUE}
<1> DEFINE bytes == SubSeq(e.buf, pos + 1, pos + n)
           p == PushDelete(e, pos, bytes)
           b == Without(p.buf, pos, n)
           c == TextSet(p, b, pos)
           r == Edited(c)
<1>1. SameText(e, p) /\ p.missed \in {e.missed, TRUE}
  BY PushDeleteText
<1>2. IsEditor(p)
  BY <1>1 DEF SameText
<1>3. Cut(e, pos, n) = r
  <2>1. Cut(e, pos, n) = Edited([p EXCEPT !.buf = Without(@, pos, n), !.caret = pos])
    BY DEF Cut
  <2> HIDE DEF p
  <2>2. [p EXCEPT !.buf = Without(@, pos, n), !.caret = pos] = c
    BY DEF TextSet
  <2> QED BY <2>1, <2>2
<1> HIDE DEF p, b
<1>4. IsEditor(c) /\ c.missed = p.missed
  BY <1>2, SetText
<1> HIDE DEF c
<1>5. IsEditor(r) /\ r.missed = c.missed /\ r.sel = FALSE
  BY <1>4, SetEdited
<1> QED BY <1>1, <1>3, <1>4, <1>5

\* The marks do not count.
LEMMA SamePhase ==
  ASSUME NEW e, NEW tx, NEW t, InFrame(e, tx, t),
         NEW r, IsEditor(r), SameLog(t, r), r.buf = t.buf, r.caret = t.caret, r.sel = FALSE
  PROVE  InFrame(e, tx, r)
<1>1. /\ SameLog(r, t) /\ (IsBook(t) => IsBook(r)) /\ (Separate(r) => Separate(t))
      /\ \A ty : Tells(t, ty) => Tells(r, ty)
      /\ \A pos : EndsAt(t, pos) => EndsAt(r, pos)
  BY SameLogFacts
<1>2. r.recs = t.recs /\ r.cursor = t.cursor /\ r.used = t.used /\ r.lost = t.lost
      /\ r.missed = t.missed
  BY DEF SameLog
<1>3. CASE Untouched(e, t)
  <2>1. SameLog(e, r)
    BY <1>3, SameLogTrans DEF Untouched
  <2> QED BY <1>3, <2>1 DEF Untouched, InFrame
<1>4. CASE Trimmed(e, tx, t)
  <2> DEFINE P == IF t.lost = TRUE THEN <<e.buf>> ELSE Append(Past(tx, e.cursor), e.buf)
             Told(q, ty) == /\ Tells(q, ty) /\ ty[q.cursor] = q.buf /\ Past(ty, q.cursor) = P
  <2>1. Separate(r) => \E ty : Told(t, ty)
    BY <1>1, <1>4 DEF Trimmed
  <2>2. \A ty : Told(t, ty) => Told(r, ty)
    <3> HIDE DEF P
    <3> QED BY <1>1, <1>2
  <2>3. Separate(r) => \E ty : Told(r, ty)
    <3> HIDE DEF Told
    <3> QED BY <2>1, <2>2
  <2>4. Separate(r) =>
          \E ty : /\ Tells(r, ty) /\ ty[r.cursor] = r.buf
                  /\ Past(ty, r.cursor) = IF r.lost = TRUE THEN <<e.buf>>
                                          ELSE Append(Past(tx, e.cursor), e.buf)
    BY <1>2, <2>3
  <2>5. Trimmed(e, tx, r)
    BY <1>1, <1>2, <1>4, <2>4 DEF Trimmed
  <2> QED BY <2>5 DEF InFrame
<1>5. CASE Typing(e, tx, t)
  <2> DEFINE P == Past(tx, e.cursor)
             Told(q, ty) == /\ Tells(q, ty) /\ ty[q.cursor] = q.buf
                            /\ Grown(e.buf, P, Past(ty, q.cursor), q.lost)
  <2>1. Separate(r) => \E ty : Told(t, ty)
    BY <1>1, <1>5 DEF Typing
  <2>2. \A ty : Told(t, ty) => Told(r, ty)
    <3> HIDE DEF P
    <3> QED BY <1>1, <1>2
  <2>3. Separate(r) => \E ty : Told(r, ty)
    <3> HIDE DEF Told
    <3> QED BY <2>1, <2>2
  <2>5. Typing(e, tx, r)
    BY <1>1, <1>2, <1>5, <2>3 DEF Typing
  <2> QED BY <2>5 DEF InFrame
<1>6. CASE t.missed = TRUE
  BY <1>2, <1>6 DEF InFrame
<1> QED BY <1>3, <1>4, <1>5, <1>6 DEF InFrame

LEMMA CutInFrame ==
  ASSUME CodeCap - 2 <= ArenaCap, NEW e, NEW tx, Start(e, tx),
         NEW t, IsEditor(t), t.missed = TRUE \/ Untouched(e, t),
         NEW pos, NEW n, t.missed # TRUE => pos \in Nat /\ n \in Nat /\ pos + n <= Len(t.buf)
  PROVE  InFrame(e, tx, Cut(t, pos, n)) /\ Cut(t, pos, n).sel = FALSE
<1>1. /\ IsEditor(Cut(t, pos, n)) /\ Cut(t, pos, n).sel = FALSE
      /\ Cut(t, pos, n).missed \in {t.missed, TRUE}
  BY CutMissed
<1>2. CASE t.missed = TRUE
  BY <1>1, <1>2 DEF InFrame
<1>3. CASE t.missed # TRUE
  <2>1. pos \in Nat /\ n \in Nat /\ pos + n <= Len(t.buf) /\ Untouched(e, t)
    BY <1>3
  <2>2. Cut(t, pos, n).missed = TRUE \/ Trimmed(e, tx, Cut(t, pos, n))
    BY <2>1, CutTrims
  <2> QED BY <1>1, <2>2 DEF InFrame
<1> QED BY <1>2, <1>3

\* gt_editor_delete_selection
LEMMA DeleteSelectionInFrame ==
  ASSUME CodeCap - 2 <= ArenaCap, NEW e, NEW tx, Start(e, tx),
         NEW t, InFrame(e, tx, t), Inside(t)
  PROVE  InFrame(e, tx, DeleteSelection(t)) /\ DeleteSelection(t).sel = FALSE
<1>1. IsEditor(t)
  BY DEF InFrame
<1>2. CASE HasSelection(t)
  <2>1. DeleteSelection(t) = Cut(t, Lo(t), Hi(t) - Lo(t))
    BY <1>2 DEF DeleteSelection
  <2>2. t.sel /\ t.sel \in BOOLEAN
    BY <1>1, <1>2, Fields DEF HasSelection
  <2>3. t.missed = TRUE \/ Untouched(e, t)
    BY <2>2 DEF InFrame, Trimmed, Typing
  <2>4. ASSUME t.missed # TRUE
        PROVE  Lo(t) \in Nat /\ Hi(t) - Lo(t) \in Nat /\ Lo(t) + (Hi(t) - Lo(t)) <= Len(t.buf)
    <3>1. Within(t)
      BY <2>4 DEF Inside
    <3>2. t.anchor \in 0..Len(t.buf) /\ t.caret \in 0..Len(t.buf) /\ Len(t.buf) \in Nat
      BY <2>2, <3>1, TextLength DEF Within
    <3> QED BY <3>2 DEF Lo, Hi, Least
  <2> DEFINE lo == Lo(t)
             n == Hi(t) - Lo(t)
  <2>5. t.missed # TRUE => lo \in Nat /\ n \in Nat /\ lo + n <= Len(t.buf)
    BY <2>4
  <2>6. DeleteSelection(t) = Cut(t, lo, n)
    BY <2>1
  <2> HIDE DEF lo, n
  <2>7. InFrame(e, tx, Cut(t, lo, n)) /\ Cut(t, lo, n).sel = FALSE
    BY <1>1, <2>3, <2>5, CutInFrame
  <2> QED BY <2>6, <2>7
<1>3. CASE ~HasSelection(t)
  <2> DEFINE r == NoSelectionSet(t)
  <2>1. DeleteSelection(t) = r
    BY <1>3 DEF DeleteSelection, NoSelectionSet
  <2>2. IsEditor(r) /\ SameLog(t, r) /\ r.buf = t.buf /\ r.caret = t.caret /\ r.sel = FALSE
    BY <1>1, NoSelectionFields
  <2> HIDE DEF r
  <2>3. InFrame(e, tx, r)
    BY <2>2, SamePhase
  <2> QED BY <2>1, <2>2, <2>3
<1> QED BY <1>2, <1>3

LEMMA SamePushed ==
  ASSUME NEW p, NEW d, SameLog(d, p), NEW q, NEW r, SameLog(q, r), NEW pos, NEW s, NEW u
  PROVE  /\ Joins(p, q, pos, s, u) => Joins(d, r, pos, s, u)
         /\ Appends(p, q, pos, s, u) => Appends(d, r, pos, s, u)
         /\ Restarts(q, pos, u) => Restarts(r, pos, u)
<1>1. /\ p.recs = d.recs /\ p.cursor = d.cursor /\ p.lost = d.lost
      /\ r.recs = q.recs /\ r.cursor = q.cursor /\ r.lost = q.lost /\ r.used = q.used
  BY DEF SameLog
<1>2. /\ Separate(p) => Separate(d)
      /\ \A tx : Tells(d, tx) => Tells(p, tx)
      /\ \A n : EndsAt(d, n) => EndsAt(p, n)
  BY SameLogFacts
<1>3. /\ Separate(r) => Separate(q)
      /\ \A tx : Tells(q, tx) => Tells(r, tx)
      /\ \A n : EndsAt(q, n) => EndsAt(r, n)
  BY SameLogFacts
<1>4. \A n : Carries(p, q, s, u, n) => Carries(d, r, s, u, n)
  BY <1>1, <1>2, <1>3 DEF Carries
<1>5. Joins(p, q, pos, s, u) => Joins(d, r, pos, s, u)
  BY <1>1, <1>3, <1>4 DEF Joins
<1>6. Appends(p, q, pos, s, u) => Appends(d, r, pos, s, u)
  BY <1>1, <1>2, <1>3, <1>4 DEF Appends
<1>7. Restarts(q, pos, u) => Restarts(r, pos, u)
  BY <1>1, <1>3 DEF Restarts
<1> QED BY <1>5, <1>6, <1>7

LEMMA PastLength ==
  ASSUME NEW tx, NEW c \in Nat
  PROVE  Len(Past(tx, c)) = c /\ (c # 0 => Past(tx, c) # <<>>)
<1> DEFINE S == {tx[i] : i \in 0..c}
           p == Past(tx, c)
<1>1. \A i \in 1..c : tx[i - 1] \in S
  OBVIOUS
<1> HIDE DEF S
<1>2. p \in Seq(S) /\ Len(p) = c
  BY <1>1 DEF Past
<1> HIDE DEF p
<1>3. c # 0 => p # <<>>
  BY <1>2
<1> QED BY <1>2, <1>3 DEF p

LEMMA AppendPair ==
  ASSUME NEW a, NEW b
  PROVE  Append(<<a>>, b) = <<a, b>>
<1> DEFINE S == {a, b}
           p == Append(<<a>>, b)
           q == <<a, b>>
<1>1. q \in Seq(S) /\ Len(q) = 2 /\ q[1] = a /\ q[2] = b
  OBVIOUS
<1>2. <<a>> \in Seq(S) /\ Len(<<a>>) = 1 /\ <<a>>[1] = a /\ b \in S
  OBVIOUS
<1>3. p \in Seq(S) /\ Len(p) = 2 /\ p[1] = a /\ p[2] = b
  <2> DEFINE one == <<a>>
  <2>1. one \in Seq(S) /\ Len(one) = 1 /\ one[1] = a /\ b \in S
    BY <1>2
  <2> HIDE DEF one, S
  <2> DEFINE two == Append(one, b)
  <2>5. one \in Seq(S) /\ b \in S
    BY <2>1
  <2>2. two \in Seq(S) /\ Len(two) = Len(one) + 1 /\ two[Len(one) + 1] = b
    BY <2>5
  <2>3. two[1] = one[1]
    BY <2>1
  <2> HIDE DEF two
  <2>4. two \in Seq(S) /\ Len(two) = 2 /\ two[1] = a /\ two[2] = b
    BY <2>1, <2>2, <2>3
  <2> QED BY <2>4 DEF two, one
<1> HIDE DEF p, q, S
<1>4. \A i \in 1..2 : i = 1 \/ i = 2
  OBVIOUS
<1>5. \A i \in 1..2 : p[i] = q[i]
  BY <1>1, <1>3, <1>4
<1>6. p = q
  BY <1>1, <1>3, <1>5, SeqEqual
<1> QED BY <1>6 DEF p, q

\* One more byte: the frame types.
LEMMA TypingNext ==
  ASSUME NEW e, NEW tx, Start(e, tx), NEW d, NEW r, NEW pos, NEW u,
         IsBook(d), IsBook(r), r.cursor = Len(r.recs), r.sel = FALSE, r.buf = u, IsShort(u),
         r.caret = pos + 1,
         Untouched(e, d) \/ Trimmed(e, tx, d) \/ (Typing(e, tx, d) /\ d.caret = pos),
         \/ Joins(d, r, pos, d.buf, u) \/ Appends(d, r, pos, d.buf, u) \/ Restarts(r, pos, u)
  PROVE  Typing(e, tx, r)
<1> DEFINE s == d.buf
           P == Past(tx, e.cursor)
           Told(t, ty) == Tells(t, ty) /\ ty[t.cursor] = t.buf
           Goal == \E ty : Told(r, ty) /\ Grown(e.buf, P, Past(ty, r.cursor), r.lost)
<1>1. d.cursor \in Nat /\ r.cursor \in Nat /\ e.cursor \in Nat
  BY StartFacts DEF IsBook
<1>2. SUFFICES /\ EndsAt(r, r.caret) \/ (r.recs = <<>> /\ r.used = 0 /\ r.lost = TRUE)
               /\ Separate(r) => Goal
  BY DEF Typing
<1>3. CASE Restarts(r, pos, u)
  <2>1. ASSUME Separate(r) PROVE Goal
    <3>1. PICK ty : Told(r, ty)
      BY <1>3, <2>1 DEF Restarts
    <3>2. Len(Past(ty, r.cursor)) <= 1 /\ r.lost = TRUE
      BY <1>1, <1>3, PastLength DEF Restarts
    <3>3. Grown(e.buf, P, Past(ty, r.cursor), r.lost)
      BY <3>2 DEF Grown
    <3> HIDE DEF Told
    <3> QED BY <3>1, <3>3
  <2> HIDE DEF Goal
  <2> QED BY <1>3, <2>1 DEF Restarts
<1>4. CASE Joins(d, r, pos, s, u)
  <2>0. r.cursor = d.cursor /\ d.cursor # 0 /\ r.lost = d.lost /\ d.recs[d.cursor].kind = Insertion
    BY <1>4 DEF Joins
  <2>1. ASSUME NEW ty, Told(d, ty), Separate(r)
        PROVE  \E tz : Told(r, tz) /\ Past(tz, r.cursor) = Past(ty, d.cursor)
    <3> DEFINE tz == Ext(ty, d.cursor, u)
    <3>1. Tells(r, tz)
      BY <1>4, <2>1 DEF Joins, Carries
    <3>2. tz[r.cursor] = u
      BY <1>1, <2>0 DEF Ext
    <3>3. Past(tz, r.cursor) = Past(ty, d.cursor)
      BY <1>1, <2>0, PastExt
    <3> HIDE DEF tz
    <3> QED BY <3>1, <3>2, <3>3
  <2>2. ASSUME Separate(r), Untouched(e, d) PROVE Goal
    <3>1. Told(d, tx) /\ d.cursor = e.cursor /\ d.lost = FALSE
      BY <2>2, SameLogFacts DEF Untouched, Start, SameLog
    <3>2. PICK tz : Told(r, tz) /\ Past(tz, r.cursor) = Past(tx, d.cursor)
      <4> HIDE DEF Told
      <4> QED BY <2>1, <2>2, <3>1
    <3>3. P # <<>>
      BY <1>1, <2>0, <3>1, PastLength
    <3>4. Grown(e.buf, P, Past(tz, r.cursor), r.lost)
      BY <2>0, <3>1, <3>2, <3>3 DEF Grown
    <3> HIDE DEF Told
    <3> QED BY <3>2, <3>4
  <2>3. ~Trimmed(e, tx, d)
    BY <2>0 DEF Trimmed, Insertion, Deletion
  <2>4. ASSUME Separate(r), Typing(e, tx, d) PROVE Goal
    <3>1. d.cursor = Len(d.recs)
      BY <2>4 DEF Typing
    <3>2. Separate(d)
      BY <1>4, <2>4, <3>1 DEF Joins, Carries
    <3>3. PICK ty : Told(d, ty) /\ Grown(e.buf, P, Past(ty, d.cursor), d.lost)
      BY <2>4, <3>2 DEF Typing
    <3>4. PICK tz : Told(r, tz) /\ Past(tz, r.cursor) = Past(ty, d.cursor)
      <4> HIDE DEF Told
      <4> QED BY <2>1, <2>4, <3>3
    <3>5. Grown(e.buf, P, Past(tz, r.cursor), r.lost)
      BY <2>0, <3>3, <3>4
    <3> HIDE DEF Told
    <3> QED BY <3>4, <3>5
  <2>5. EndsAt(r, r.caret)
    BY <1>4 DEF Joins
  <2> HIDE DEF Goal
  <2> QED BY <2>2, <2>3, <2>4, <2>5
<1>5. CASE Appends(d, r, pos, s, u)
  <2>0. r.cursor = d.cursor + 1 /\ r.lost = d.lost
    BY <1>5 DEF Appends
  <2>1. ASSUME NEW ty, Told(d, ty), Separate(r)
        PROVE  \E tz : Told(r, tz) /\ Past(tz, r.cursor) = Append(Past(ty, d.cursor), s)
    <3> DEFINE tz == Ext(ty, d.cursor + 1, u)
    <3>1. Tells(r, tz)
      BY <1>5, <2>1 DEF Appends, Carries
    <3>2. tz[r.cursor] = u
      BY <1>1, <2>0 DEF Ext
    <3>3. Past(tz, r.cursor) = Append(Past(ty, d.cursor), s)
      <4>1. Past(tz, d.cursor + 1) = Append(Past(ty, d.cursor), ty[d.cursor])
        BY <1>1, PastExt
      <4> QED BY <2>0, <2>1, <4>1
    <3> HIDE DEF tz
    <3> QED BY <3>1, <3>2, <3>3
  <2>2. ASSUME Separate(r), Untouched(e, d) PROVE Goal
    <3>1. Told(d, tx) /\ d.cursor = e.cursor /\ d.lost = FALSE /\ s = e.buf
      BY <2>2, SameLogFacts DEF Untouched, Start, SameLog
    <3>2. PICK tz : Told(r, tz) /\ Past(tz, r.cursor) = Append(Past(tx, d.cursor), s)
      <4> HIDE DEF Told
      <4> QED BY <2>1, <2>2, <3>1
    <3>4. Grown(e.buf, P, Past(tz, r.cursor), r.lost)
      BY <2>0, <3>1, <3>2 DEF Grown
    <3> HIDE DEF Told
    <3> QED BY <3>2, <3>4
  <2>3. ASSUME Separate(r), Trimmed(e, tx, d) PROVE Goal
    <3>1. d.cursor = Len(d.recs) /\ s \in RemovalsOf(e.buf)
      BY <2>3 DEF Trimmed
    <3>2. Separate(d)
      BY <1>5, <2>3, <3>1 DEF Appends, Carries
    <3>3. PICK ty : /\ Told(d, ty)
                    /\ Past(ty, d.cursor) = IF d.lost = TRUE THEN <<e.buf>> ELSE Append(P, e.buf)
      BY <2>3, <3>2 DEF Trimmed
    <3>4. PICK tz : Told(r, tz) /\ Past(tz, r.cursor) = Append(Past(ty, d.cursor), s)
      <4> HIDE DEF Told
      <4> QED BY <2>1, <2>3, <3>3
    <3>5. Grown(e.buf, P, Past(tz, r.cursor), r.lost)
      <4>1. CASE d.lost = TRUE
        <5>1. Past(tz, r.cursor) = Append(<<e.buf>>, s)
          BY <3>3, <3>4, <4>1
        <5>2. Append(<<e.buf>>, s) = <<e.buf, s>>
          BY AppendPair
        <5> HIDE DEF s
        <5> QED BY <2>0, <3>1, <4>1, <5>1, <5>2 DEF Grown
      <4>2. CASE d.lost # TRUE
        <5>1. Past(tz, r.cursor) = Append(Append(P, e.buf), s)
          BY <3>3, <3>4, <4>2
        <5> HIDE DEF s, P
        <5> QED BY <2>0, <3>1, <4>2, <5>1 DEF Grown
      <4> QED BY <4>1, <4>2
    <3> HIDE DEF Told
    <3> QED BY <3>4, <3>5
  <2>4. ASSUME Separate(r), Typing(e, tx, d), d.caret = pos PROVE Goal
    <3>1. d.cursor = Len(d.recs) /\ d.recs = <<>> /\ d.lost = TRUE
      BY <1>5, <2>4 DEF Appends, Typing
    <3>2. Separate(d) /\ Len(<<>>) = 0
      BY <1>5, <2>4, <3>1 DEF Appends, Carries
    <3>3. PICK ty : Told(d, ty)
      BY <2>4, <3>2 DEF Typing
    <3>4. PICK tz : Told(r, tz)
      <4> HIDE DEF Told
      <4> QED BY <2>1, <2>4, <3>3
    <3>5. Len(Past(tz, r.cursor)) = 1
      BY <1>1, <2>0, <3>1, <3>2, PastLength
    <3>6. Grown(e.buf, P, Past(tz, r.cursor), r.lost)
      <4> DEFINE Q == Past(tz, r.cursor)
      <4>0. Len(Q) = 1 /\ r.lost = TRUE
        BY <2>0, <3>1, <3>5
      <4> HIDE DEF Q
      <4>1. Len(Q) <= 1 /\ r.lost = TRUE
        BY <4>0
      <4>2. Grown(e.buf, P, Q, r.lost)
        BY <4>1 DEF Grown
      <4> QED BY <4>2 DEF Q
    <3> HIDE DEF Told
    <3> QED BY <3>4, <3>6
  <2>5. EndsAt(r, r.caret)
    BY <1>5 DEF Appends
  <2> HIDE DEF Goal
  <2> QED BY <2>2, <2>3, <2>4, <2>5
<1> QED BY <1>3, <1>4, <1>5

\* What gt_editor_insert makes of a struct d without a selection
InsertsInto(d, byte, r) ==
  \E p : /\ IsEditor(p) /\ SameLog(d, p)
         /\ IsEditor(r) /\ SameLog(PushInsert(p, d.caret, byte), r)
         /\ r.buf = With(d.buf, d.caret, <<byte>>) /\ r.caret = d.caret + 1 /\ r.sel = FALSE
         /\ r.missed = d.missed

LEMMA InsertFields ==
  ASSUME NEW e, NEW byte, IsEditor(DeleteSelection(e))
  PROVE  LET d == DeleteSelection(e)
         IN  IF Len(d.buf) + 1 >= CodeCap - 1 THEN Insert(e, byte) = d
             ELSE InsertsInto(d, byte, Insert(e, byte))
<1> DEFINE d == DeleteSelection(e)
           bytes == <<byte>>
           w == With(d.buf, d.caret, bytes)
           n == d.caret + 1
           p == TextSet(d, w, n)
           q == PushInsert(p, d.caret, byte)
           r == Edited(q)
<1>1. Insert(e, byte) = IF Len(d.buf) + 1 >= CodeCap - 1 THEN d ELSE r
  <2>1. Insert(e, byte) =
          IF Len(d.buf) + 1 >= CodeCap - 1 THEN d
          ELSE Edited(PushInsert([d EXCEPT !.buf = With(@, d.caret, <<byte>>), !.caret = @ + 1],
                                 d.caret, byte))
    BY DEF Insert
  <2> HIDE DEF d
  <2>2. [d EXCEPT !.buf = With(@, d.caret, <<byte>>), !.caret = @ + 1] = p
    BY DEF TextSet
  <2> QED BY <2>1, <2>2
<1>2. IsEditor(d)
  OBVIOUS
<1> HIDE DEF d, bytes, w, n
<1>3. IsEditor(p) /\ SameLog(d, p) /\ p.buf = w /\ p.caret = n /\ p.missed = d.missed
  <2>1. SameLog(d, p)
    BY <1>2, LogUntouched
  <2> QED BY <1>2, <2>1, SetText
<1> HIDE DEF p
<1>4. SameText(p, q) /\ q.missed = p.missed
  BY <1>3, PushInsertText
<1>5. IsEditor(q) /\ q.buf = w /\ q.caret = n
  BY <1>3, <1>4 DEF SameText
<1> HIDE DEF q
<1>6. IsEditor(r) /\ SameLog(q, r) /\ r.buf = w /\ r.caret = n /\ r.sel = FALSE
      /\ r.missed = d.missed
  <2>1. SameLog(q, r)
    BY <1>5, LogUntouched
  <2> QED BY <1>3, <1>4, <1>5, <2>1, SetEdited
<1> HIDE DEF r
<1>7. InsertsInto(d, byte, r)
  BY <1>3, <1>6 DEF InsertsInto, q, w, n, bytes
<1> QED BY <1>1, <1>7 DEF d

LEMMA RoomToInsert ==
  ASSUME NEW s, IsShort(s), NEW pos \in 0..Len(s), NEW byte \in Bytes,
         ~(Len(s) + 1 >= CodeCap - 1)
  PROVE  LET u == Spliced(s, pos, <<byte>>)
         IN  With(s, pos, <<byte>>) = u /\ IsShort(u)
<1> DEFINE bytes == <<byte>>
           u == Spliced(s, pos, bytes)
<1>1. s \in Seq(Bytes) /\ Len(s) \in Nat /\ CodeCap \in Nat
  BY EditorAssumption DEF IsShort
<1>2. bytes \in Seq(Bytes) /\ Len(bytes) = 1
  OBVIOUS
<1> HIDE DEF bytes
<1>3. With(s, pos, bytes) = u
  BY <1>1, <1>2 DEF With, Spliced
<1>4. u \in Seq(Bytes) /\ Len(u) = Len(s) + 1
  <2>1. IsSpliced(Bytes, u, s, pos, bytes)
    BY <1>1, <1>2, SplicedSeq
  <2> HIDE DEF u
  <2> QED BY <1>2, <2>1 DEF IsSpliced
<1> HIDE DEF u
<1>5. IsShort(u)
  BY <1>1, <1>4 DEF IsShort
<1> QED BY <1>3, <1>5 DEF u, bytes

\* gt_editor_insert
LEMMA InsertInFrame ==
  ASSUME CodeCap - 2 <= ArenaCap, NEW e, NEW tx, Start(e, tx),
         NEW t, InFrame(e, tx, t), Inside(t), NEW byte \in Bytes
  PROVE  InFrame(e, tx, Insert(t, byte))
<1> DEFINE d == DeleteSelection(t)
           r == Insert(t, byte)
           s == d.buf
           pos == d.caret
           u == Spliced(s, pos, <<byte>>)
<1>1. IsEditor(t)
  BY DEF InFrame
<1>2. InFrame(e, tx, d) /\ IsEditor(d)
  BY DeleteSelectionInFrame DEF InFrame
<1>3. Inside(d)
  BY <1>1, DeleteSelectionIsProper DEF Proper
<1>4. IF Len(s) + 1 >= CodeCap - 1 THEN r = d ELSE InsertsInto(d, byte, r)
  BY <1>2, InsertFields
<1> HIDE DEF d, r
<1>5. CASE Len(s) + 1 >= CodeCap - 1
  BY <1>2, <1>4, <1>5 DEF r
<1>6. CASE ~(Len(s) + 1 >= CodeCap - 1) /\ d.missed = TRUE
  <2>1. IsEditor(r) /\ r.missed = TRUE
    BY <1>4, <1>6 DEF InsertsInto
  <2> QED BY <2>1 DEF InFrame, r
<1>7. CASE ~(Len(s) + 1 >= CodeCap - 1) /\ d.missed # TRUE
  <2>1. PICK p : /\ IsEditor(p) /\ SameLog(d, p)
                 /\ IsEditor(r) /\ SameLog(PushInsert(p, pos, byte), r)
                 /\ r.buf = With(s, pos, <<byte>>) /\ r.caret = pos + 1 /\ r.sel = FALSE
                 /\ r.missed = d.missed
    BY <1>4, <1>7 DEF InsertsInto
  <2> DEFINE q == PushInsert(p, pos, byte)
  <2>2. Untouched(e, d) \/ Trimmed(e, tx, d) \/ Typing(e, tx, d)
    BY <1>2, <1>7 DEF InFrame
  <2>3. IsShort(s) /\ IsBook(d)
    <3>1. CASE Untouched(e, d)
      BY <3>1, StartFacts, SameLogFacts DEF Untouched, Start
    <3>2. CASE Trimmed(e, tx, d) \/ Typing(e, tx, d)
      BY <3>2 DEF Trimmed, Typing
    <3> QED BY <2>2, <3>1, <3>2
  <2>4. pos \in 0..Len(s) /\ pos \in Nat /\ pos <= Len(s)
    <3>1. pos \in 0..Len(s)
      BY <1>3, <1>7 DEF Inside, Within
    <3>2. Len(s) \in Nat
      BY <2>3 DEF IsShort
    <3> QED BY <3>1, <3>2
  <2> HIDE DEF s, pos
  <2>5. r.buf = u /\ IsShort(u)
    <3>1. With(s, pos, <<byte>>) = u /\ IsShort(u)
      BY <1>7, <2>3, <2>4, RoomToInsert
    <3> QED BY <2>1, <3>1
  <2>6. IsBook(p)
    BY <2>1, <2>3, SameLogFacts
  <2>7. /\ IsBook(q) /\ q.cursor = Len(q.recs)
        /\ Joins(p, q, pos, s, u) \/ Appends(p, q, pos, s, u) \/ Restarts(q, pos, u)
    BY <2>1, <2>3, <2>4, <2>5, <2>6, PushInsertCases
  <2> HIDE DEF q, u
  <2>8. /\ IsBook(r) /\ r.cursor = Len(r.recs)
        /\ Joins(d, r, pos, s, u) \/ Appends(d, r, pos, s, u) \/ Restarts(r, pos, u)
    <3>1. SameLog(q, r)
      BY <2>1 DEF q
    <3>2. IsBook(r) /\ r.cursor = Len(r.recs)
      BY <2>7, <3>1, SameLogFacts DEF SameLog
    <3>3. Joins(d, r, pos, s, u) \/ Appends(d, r, pos, s, u) \/ Restarts(r, pos, u)
      BY <2>1, <2>7, <3>1, SamePushed
    <3> QED BY <3>2, <3>3
  <2>9. r.caret = pos + 1 /\ r.sel = FALSE /\ d.caret = pos
    BY <2>1 DEF pos
  <2>10. Typing(e, tx, r)
    BY <2>2, <2>3, <2>5, <2>8, <2>9, TypingNext DEF s
  <2> QED BY <2>1, <2>10 DEF InFrame, r
<1> QED BY <1>5, <1>6, <1>7

\* gt_editor_backspace and the Delete key
LEMMA BackspaceInFrame ==
  ASSUME CodeCap - 2 <= ArenaCap, NEW e, NEW tx, Start(e, tx),
         NEW t, IsEditor(t), Inside(t), t.missed = TRUE \/ Untouched(e, t)
  PROVE  InFrame(e, tx, Backspace(t))
<1>1. InFrame(e, tx, t)
  BY DEF InFrame
<1>2. CASE HasSelection(t)
  BY <1>1, <1>2, DeleteSelectionInFrame DEF Backspace
<1>3. CASE ~HasSelection(t) /\ t.caret > 0
  <2> DEFINE pos == t.caret - 1
             n == 1
  <2>1. Backspace(t) = Cut(t, pos, n)
    BY <1>3 DEF Backspace
  <2>2. t.missed # TRUE => pos \in Nat /\ n \in Nat /\ pos + n <= Len(t.buf)
    <3>1. t.missed # TRUE => t.caret \in 0..Len(t.buf) /\ Len(t.buf) \in Nat
      BY TextLength DEF Inside, Within
    <3> QED BY <1>3, <3>1
  <2> HIDE DEF pos, n
  <2>3. InFrame(e, tx, Cut(t, pos, n))
    BY <2>2, CutInFrame
  <2> QED BY <2>1, <2>3
<1>4. CASE ~HasSelection(t) /\ ~(t.caret > 0)
  <2> DEFINE r == NoSelectionSet(t)
  <2>1. Backspace(t) = r
    BY <1>4 DEF Backspace, NoSelectionSet
  <2>2. IsEditor(r) /\ SameLog(t, r) /\ r.buf = t.buf /\ r.caret = t.caret /\ r.sel = FALSE
    BY NoSelectionFields
  <2> HIDE DEF r
  <2>3. InFrame(e, tx, r)
    BY <1>1, <2>2, SamePhase
  <2> QED BY <2>1, <2>3
<1> QED BY <1>2, <1>3, <1>4

LEMMA ForwardDeleteInFrame ==
  ASSUME CodeCap - 2 <= ArenaCap, NEW e, NEW tx, Start(e, tx),
         NEW t, IsEditor(t), Inside(t), t.missed = TRUE \/ Untouched(e, t)
  PROVE  InFrame(e, tx, ForwardDelete(t))
<1>1. InFrame(e, tx, t)
  BY DEF InFrame
<1>2. CASE HasSelection(t)
  BY <1>1, <1>2, DeleteSelectionInFrame DEF ForwardDelete
<1>3. CASE ~HasSelection(t) /\ t.caret < Len(t.buf)
  <2> DEFINE n == t.caret + 1
             r == CaretSet(t, n)
  <2>1. ForwardDelete(t) = Backspace(r)
    BY <1>3 DEF ForwardDelete, CaretSet
  <2>2. t.missed # TRUE => Within(t) /\ n \in 0..Len(t.buf)
    <3>1. t.missed # TRUE => Within(t)
      BY DEF Inside
    <3>2. Within(t) => t.caret \in 0..Len(t.buf) /\ Len(t.buf) \in Nat
      BY TextLength DEF Within
    <3>3. Within(t) => n \in 0..Len(t.buf)
      BY <1>3, <3>2
    <3> QED BY <3>1, <3>3
  <2> HIDE DEF n
  <2>3. SameLog(t, r)
    BY LogUntouched
  <2>4. /\ IsEditor(r) /\ r.buf = t.buf /\ r.anchor = t.anchor /\ r.sel = t.sel
        /\ r.caret = n
    BY SetCaret
  <2> HIDE DEF r
  <2>5. r.recs = t.recs /\ r.cursor = t.cursor /\ r.missed = t.missed
    BY <2>3 DEF SameLog
  <2>6. Inside(r)
    <3>1. CASE t.missed = TRUE
      BY <2>5, <3>1 DEF Inside
    <3>2. CASE t.missed # TRUE
      <4>1. Within(t) /\ n \in 0..Len(t.buf)
        BY <2>2, <3>2
      <4>2. Log(r, Len(r.buf))
        BY <2>4, <2>5, <4>1 DEF Within, Log
      <4>3. r.sel => r.anchor \in 0..Len(r.buf)
        BY <2>4, <4>1 DEF Within
      <4>4. IsText(r.buf) /\ r.caret \in 0..Len(r.buf)
        BY <2>4, <4>1 DEF Within
      <4> QED BY <4>2, <4>3, <4>4 DEF Inside, Within
    <3> QED BY <3>1, <3>2
  <2>7. r.missed = TRUE \/ Untouched(e, r)
    BY <2>3, <2>4, <2>5, SameLogTrans DEF Untouched
  <2>8. InFrame(e, tx, Backspace(r))
    BY <2>4, <2>6, <2>7, BackspaceInFrame
  <2> QED BY <2>1, <2>8
<1>4. CASE ~HasSelection(t) /\ ~(t.caret < Len(t.buf))
  BY <1>1, <1>4 DEF ForwardDelete
<1> QED BY <1>2, <1>3, <1>4

\* gt_editor_clipboard_paste
LEMMA PasteInFrame ==
  ASSUME CodeCap - 2 <= ArenaCap, NEW e, NEW tx, Start(e, tx),
         NEW t, InFrame(e, tx, t), Inside(t), NEW clip \in Clips
  PROVE  InFrame(e, tx, Paste(t, clip))
<1> DEFINE n == Len(clip)
           pasted == CHOOSE f : Pastes(t, clip, f, n)
<1>0. clip \in Seq(Bytes)
  BY EditorAssumption DEF Bytes
<1>1. n \in Nat /\ \A i \in 1..n : clip[i] \in Bytes
  BY <1>0
<1>2. Paste(t, clip) = pasted[n]
  BY DEF Paste, Pastes
<1> HIDE DEF n
<1>3. Pastes(t, clip, pasted, n)
  <2>1. \E f : Pastes(t, clip, f, n)
    BY <1>1, PastesExist
  <2> QED BY <2>1
<1> HIDE DEF pasted
<1>4. pasted[0] = DeleteSelection(t)
      /\ \A i \in 1..n : pasted[i] = IF clip[i] = CR THEN pasted[i - 1]
                                     ELSE Insert(pasted[i - 1], clip[i])
  <2>1. \A i \in 0..n : pasted[i] = IF i = 0 THEN DeleteSelection(t)
                                    ELSE IF clip[i] = CR THEN pasted[i - 1]
                                    ELSE Insert(pasted[i - 1], clip[i])
    BY <1>3 DEF Pastes
  <2>2. 0 \in 0..n
    BY <1>1
  <2>3. \A i \in 1..n : i \in 0..n /\ i # 0
    OBVIOUS
  <2> QED BY <2>1, <2>2, <2>3
<1> DEFINE Good(r) == InFrame(e, tx, r) /\ Inside(r)
           S == {i \in Nat : i <= n => Good(pasted[i])}
<1>5. 0 \in S
  <2>1. Proper(t, DeleteSelection(t))
    BY DeleteSelectionIsProper DEF InFrame
  <2>2. Good(DeleteSelection(t))
    BY <2>1, DeleteSelectionInFrame DEF Proper
  <2> HIDE DEF Good
  <2> QED BY <1>4, <2>2
<1>6. ASSUME NEW i \in Nat, i \in S PROVE i + 1 \in S
  <2> SUFFICES ASSUME i + 1 <= n PROVE Good(pasted[i + 1])
    <3> HIDE DEF Good
    <3> QED OBVIOUS
  <2> DEFINE r == pasted[i]
             byte == clip[i + 1]
  <2>1. Good(r)
    <3> HIDE DEF Good
    <3> QED BY <1>1, <1>6
  <2>2. pasted[i + 1] = (IF byte = CR THEN r ELSE Insert(r, byte)) /\ byte \in Bytes
    <3>1. i + 1 \in 1..n /\ (i + 1) - 1 = i
      BY <1>1
    <3> QED BY <1>1, <1>4, <3>1
  <2> HIDE DEF r, byte
  <2>3. Proper(r, Insert(r, byte))
    BY <2>1, InsertIsProper DEF InFrame
  <2>4. InFrame(e, tx, Insert(r, byte)) /\ Inside(Insert(r, byte))
    BY <2>1, <2>2, <2>3, InsertInFrame DEF Proper
  <2> QED BY <2>1, <2>2, <2>4
<1>7. Nat \subseteq S
  <2>1. \A i \in Nat : i \in S => i + 1 \in S
    BY <1>6
  <2>2. 0 \in S
    BY <1>5
  <2> HIDE DEF S
  <2> QED BY <2>1, <2>2, SetInduction
<1>8. Good(pasted[n])
  <2> HIDE DEF Good
  <2> QED BY <1>1, <1>7
<1> QED BY <1>2, <1>8

-----------------------------------------------------------------------------
(* Undo and redo go through the texts of the chain *)

\* gt_buf_insert_raw puts the bytes in where the text leaves room.
LEMMA WithSpliced ==
  ASSUME NEW s, NEW t, IsShort(s), IsShort(t), NEW bytes \in Seq(Bytes), NEW pos \in Nat,
         pos <= Len(s), t = Spliced(s, pos, bytes)
  PROVE  With(s, pos, bytes) = t /\ Without(t, pos, Len(bytes)) = s
<1>1. s \in Seq(Bytes) /\ Len(s) \in Nat /\ Len(bytes) \in Nat /\ CodeCap \in Nat
      /\ Len(t) <= CodeCap - 2 /\ pos \in 0..Len(s)
  BY EditorAssumption DEF IsShort
<1>2. Len(t) = Len(s) + Len(bytes)
  <2>1. IsSpliced(Bytes, t, s, pos, bytes)
    BY <1>1, SplicedSeq
  <2> QED BY <2>1 DEF IsSpliced
<1>3. ~(Len(s) + Len(bytes) >= CodeCap - 1)
  BY <1>1, <1>2
<1>4. With(s, pos, bytes) = t
  BY <1>3 DEF With, Spliced
<1>5. Without(t, pos, Len(bytes)) = s
  BY <1>1, WithoutSpliced
<1> QED BY <1>4, <1>5

LEMMA StandsReplays ==
  ASSUME NEW e, NEW rec \in Rec, NEW s, NEW t, IsShort(s), IsShort(t), Stands(e, rec, s, t)
  PROVE  Undone(e, t, rec) = s /\ Redone(e, s, rec) = t
<1> DEFINE bytes == Saved(e, rec)
           pos == rec.pos
           n == rec.len
<1>1. /\ bytes \in Seq(Bytes) /\ Len(bytes) = n /\ pos \in Nat
      /\ IF rec.kind = Insertion THEN pos <= Len(s) /\ t = Spliced(s, pos, bytes)
         ELSE pos <= Len(t) /\ s = Spliced(t, pos, bytes)
  BY DEF Stands, Leads, Rec, RecSet
<1>2. /\ Undone(e, t, rec) = (IF rec.kind = Insertion THEN Without(t, pos, n)
                              ELSE With(t, pos, bytes))
      /\ Redone(e, s, rec) = (IF rec.kind = Insertion THEN With(s, pos, bytes)
                              ELSE Without(s, pos, n))
  BY DEF Undone, Redone
<1> HIDE DEF bytes, pos, n
<1>3. CASE rec.kind = Insertion
  <2>1. With(s, pos, bytes) = t /\ Without(t, pos, Len(bytes)) = s
    BY <1>1, <1>3, WithSpliced
  <2> QED BY <1>1, <1>2, <1>3, <2>1
<1>4. CASE rec.kind # Insertion
  <2>1. With(t, pos, bytes) = s /\ Without(s, pos, Len(bytes)) = t
    BY <1>1, <1>4, WithSpliced
  <2> QED BY <1>1, <1>2, <1>4, <2>1
<1> QED BY <1>3, <1>4

\* A struct whose log tells tx, and which shows the text at the cursor
Shows(e, tx) == IsBook(e) /\ Tells(e, tx) /\ tx[e.cursor] = e.buf

LEMMA ShowsStep ==
  ASSUME NEW e, NEW tx, Shows(e, tx), NEW i \in 1..Len(e.recs)
  PROVE  Undone(e, tx[i], e.recs[i]) = tx[i - 1] /\ Redone(e, tx[i - 1], e.recs[i]) = tx[i]
<1> DEFINE rec == e.recs[i]
           s == tx[i - 1]
           t == tx[i]
<1>1. rec \in Rec /\ Len(e.recs) \in Nat
  BY DEF Shows, IsBook
<1>2. i - 1 \in 0..Len(e.recs) /\ i \in 0..Len(e.recs)
  BY <1>1
<1>3. IsShort(s) /\ IsShort(t) /\ Stands(e, rec, s, t)
  BY <1>2 DEF Shows, Tells
<1> HIDE DEF rec, s, t
<1>4. Undone(e, t, rec) = s /\ Redone(e, s, rec) = t
  BY <1>1, <1>3, StandsReplays
<1> QED BY <1>4 DEF rec, s, t

\* The texts that n redos go through
Retexts(e, f, n) ==
  f = [k \in 0..n |-> IF k = 0 THEN e.buf
                      ELSE Redone(e, f[k - 1], e.recs[e.cursor + k])]

LEMMA RetextsExist ==
  ASSUME NEW e, NEW n \in Nat
  PROVE  \E f : Retexts(e, f, n)
<1> DEFINE S == {m \in Nat : \E f : Retexts(e, f, m)}
           b == e.buf
           Op(a, i) == Redone(e, a, e.recs[e.cursor + i])
<1>1. 0 \in S
  <2> DEFINE f == [i \in 0..0 |-> b]
  <2>1. \A i \in 0..0 : i = 0
    OBVIOUS
  <2>2. Retexts(e, f, 0)
    BY <2>1 DEF Retexts
  <2> QED BY <2>2
<1>2. ASSUME NEW m \in Nat, m \in S PROVE m + 1 \in S
  <2>1. PICK f : f = [i \in 0..m |-> IF i = 0 THEN b ELSE Op(f[i - 1], i)]
    BY <1>2 DEF Retexts
  <2> DEFINE h == [i \in 0..(m + 1) |-> IF i = m + 1 THEN Op(f[m], m + 1) ELSE f[i]]
  <2> HIDE DEF b, Op
  <2>2. \A i \in 0..m : h[i] = f[i] /\ f[i] = IF i = 0 THEN b ELSE Op(f[i - 1], i)
    <3> TAKE i \in 0..m
    <3>1. i \in 0..(m + 1) /\ i # m + 1
      OBVIOUS
    <3>2. f[i] = IF i = 0 THEN b ELSE Op(f[i - 1], i)
      BY <2>1
    <3> QED BY <3>1, <3>2
  <2>3. \A i \in 0..(m + 1) : h[i] = IF i = 0 THEN b ELSE Op(h[i - 1], i)
    <3> TAKE i \in 0..(m + 1)
    <3>1. CASE i = m + 1
      <4>1. h[i] = Op(f[m], i) /\ i # 0 /\ i - 1 = m /\ m \in 0..m
        BY <3>1
      <4>2. h[i - 1] = f[m]
        BY <2>2, <4>1
      <4> HIDE DEF h
      <4> QED BY <4>1, <4>2
    <3>2. CASE i = 0
      <4>1. i \in 0..m
        BY <3>2
      <4> HIDE DEF h
      <4> QED BY <2>2, <3>2, <4>1
    <3>3. CASE i \in 1..m
      <4>1. i \in 0..m /\ i - 1 \in 0..m /\ i # 0
        BY <3>3
      <4>2. h[i] = Op(f[i - 1], i) /\ h[i - 1] = f[i - 1]
        BY <2>2, <4>1
      <4> HIDE DEF h
      <4> QED BY <4>1, <4>2
    <3>4. i = m + 1 \/ i = 0 \/ i \in 1..m
      OBVIOUS
    <3> HIDE DEF h
    <3> QED BY <3>1, <3>2, <3>3, <3>4
  <2>4. h = [i \in 0..(m + 1) |-> h[i]]
    OBVIOUS
  <2> HIDE DEF h
  <2>5. h = [i \in 0..(m + 1) |-> IF i = 0 THEN b ELSE Op(h[i - 1], i)]
    BY <2>3, <2>4
  <2>6. Retexts(e, h, m + 1)
    BY <2>5 DEF Retexts, b, Op
  <2> QED BY <2>6
<1>3. Nat \subseteq S
  <2> HIDE DEF S
  <2> QED BY <1>1, <1>2, SetInduction
<1> QED BY <1>3

\* Back and Forth of any struct
BackOf(e) ==
  LET t == CHOOSE f : Texts(e, f, e.cursor)
  IN  [i \in 1..e.cursor |-> t[e.cursor - i + 1]]
ForthOf(e) ==
  LET n == Len(e.recs) - e.cursor
      t == CHOOSE f : Retexts(e, f, n)
  IN  [i \in 1..n |-> t[i]]

LEMMA BackIsBackOf == Back = BackOf(ed) /\ Forth = ForthOf(ed)
BY DEF Back, BackOf, Forth, ForthOf, Texts, Retexts

LEMMA BackIsPast ==
  ASSUME NEW e, NEW tx, Shows(e, tx)
  PROVE  BackOf(e) = Past(tx, e.cursor)
<1> DEFINE c == e.cursor
           t == CHOOSE f : Texts(e, f, c)
           S == {k \in Nat : k <= c => t[k] = tx[c - k]}
<1>1. c \in Nat /\ c \in 0..Len(e.recs) /\ Len(e.recs) \in Nat
  BY DEF Shows, IsBook
<1>2. BackOf(e) = [i \in 1..c |-> t[c - i + 1]]
  BY DEF BackOf
<1>3. Texts(e, t, c)
  <2> HIDE DEF c
  <2>1. \E f : Texts(e, f, c)
    BY <1>1, TextsExist
  <2> QED BY <2>1
<1>0. tx[c] = e.buf
  BY DEF Shows
<1> HIDE DEF t
<1>4. \A k \in 0..c : t[k] = IF k = 0 THEN e.buf ELSE Undone(e, t[k - 1], e.recs[c - k + 1])
  BY <1>3 DEF Texts
<1>5. 0 \in S
  <2>1. t[0] = e.buf /\ c - 0 = c
    BY <1>1, <1>4
  <2> QED BY <1>0, <2>1
<1>6. ASSUME NEW k \in Nat, k \in S PROVE k + 1 \in S
  <2> SUFFICES ASSUME k + 1 <= c PROVE t[k + 1] = tx[c - (k + 1)]
    OBVIOUS
  <2> DEFINE i == c - k
  <2>1. t[k] = tx[i]
    BY <1>1, <1>6
  <2>2. /\ i \in 1..Len(e.recs) /\ c - (k + 1) = i - 1
        /\ k + 1 \in 0..c /\ k + 1 # 0 /\ (k + 1) - 1 = k /\ c - (k + 1) + 1 = i
    BY <1>1
  <2> HIDE DEF i, c
  <2>3. t[k + 1] = Undone(e, tx[i], e.recs[i])
    BY <1>4, <2>1, <2>2
  <2>4. Undone(e, tx[i], e.recs[i]) = tx[i - 1]
    BY <2>2, ShowsStep
  <2> QED BY <2>2, <2>3, <2>4
<1>7. Nat \subseteq S
  <2>1. \A k \in Nat : k \in S => k + 1 \in S
    BY <1>6
  <2>2. 0 \in S
    BY <1>5
  <2> HIDE DEF S
  <2> QED BY <2>1, <2>2, SetInduction
<1>8. \A i \in 1..c : t[c - i + 1] = tx[i - 1]
  <2> TAKE i \in 1..c
  <2> DEFINE k == c - i + 1
  <2>1. k \in Nat /\ k <= c /\ c - k = i - 1
    BY <1>1
  <2> HIDE DEF k, c
  <2>2. t[k] = tx[c - k]
    BY <1>7, <2>1
  <2> QED BY <2>1, <2>2 DEF k
<1> QED BY <1>2, <1>8 DEF Past

LEMMA ForthIsFuture ==
  ASSUME NEW e, NEW tx, Shows(e, tx)
  PROVE  ForthOf(e) = Future(tx, e.cursor, Len(e.recs))
<1> DEFINE c == e.cursor
           n == Len(e.recs) - e.cursor
           t == CHOOSE f : Retexts(e, f, n)
           S == {k \in Nat : k <= n => t[k] = tx[c + k]}
<1>1. c \in Nat /\ n \in Nat /\ c + n = Len(e.recs) /\ Len(e.recs) \in Nat
  BY DEF Shows, IsBook
<1>2. ForthOf(e) = [i \in 1..n |-> t[i]]
  BY DEF ForthOf
<1>3. Retexts(e, t, n)
  <2> HIDE DEF n
  <2>1. \E f : Retexts(e, f, n)
    BY <1>1, RetextsExist
  <2> QED BY <2>1
<1>0. tx[c] = e.buf /\ Future(tx, c, Len(e.recs)) = [i \in 1..n |-> tx[c + i]]
  BY DEF Shows, Future
<1> HIDE DEF t, n
<1>4. \A k \in 0..n : t[k] = IF k = 0 THEN e.buf ELSE Redone(e, t[k - 1], e.recs[c + k])
  BY <1>3 DEF Retexts
<1>5. 0 \in S
  <2>1. t[0] = e.buf /\ c + 0 = c
    BY <1>1, <1>4
  <2> QED BY <1>0, <2>1
<1>6. ASSUME NEW k \in Nat, k \in S PROVE k + 1 \in S
  <2> SUFFICES ASSUME k + 1 <= n PROVE t[k + 1] = tx[c + (k + 1)]
    OBVIOUS
  <2> DEFINE i == c + (k + 1)
  <2>1. t[k] = tx[c + k]
    BY <1>1, <1>6
  <2>2. /\ i \in 1..Len(e.recs) /\ c + k = i - 1
        /\ k + 1 \in 0..n /\ k + 1 # 0 /\ (k + 1) - 1 = k
    BY <1>1
  <2> HIDE DEF c
  <2>3. t[k + 1] = Redone(e, t[k], e.recs[i])
    BY <1>4, <2>2
  <2> HIDE DEF i
  <2>4. Redone(e, tx[i - 1], e.recs[i]) = tx[i]
    BY <2>2, ShowsStep
  <2> QED BY <2>1, <2>2, <2>3, <2>4 DEF i
<1>7. Nat \subseteq S
  <2>1. \A k \in Nat : k \in S => k + 1 \in S
    BY <1>6
  <2>2. 0 \in S
    BY <1>5
  <2> HIDE DEF S
  <2> QED BY <2>1, <2>2, SetInduction
<1>8. \A i \in 1..n : t[i] = tx[c + i]
  BY <1>7
<1> QED BY <1>0, <1>2, <1>8

-----------------------------------------------------------------------------
(* A frame is a step of the history *)

\* w is a with b behind it, byte by byte.
IsJoint(S, w, a, b, m, n) ==
  /\ w \in Seq(S) /\ Len(w) = m + n
  /\ \A i \in 1..(m + n) : w[i] = IF i <= m THEN a[i] ELSE b[i - m]

LEMMA JointSeq ==
  ASSUME NEW S, NEW a \in Seq(S), NEW b \in Seq(S)
  PROVE  IsJoint(S, a \o b, a, b, Len(a), Len(b))
BY DEF IsJoint

LEMMA PastSeq ==
  ASSUME NEW tx, NEW c \in Nat
  PROVE  /\ Past(tx, c) \in Seq({tx[i] : i \in 0..c}) /\ Len(Past(tx, c)) = c
         /\ \A i \in 1..c : Past(tx, c)[i] = tx[i - 1]
<1> DEFINE S == {tx[i] : i \in 0..c}
<1>1. \A i \in 1..c : tx[i - 1] \in S
  OBVIOUS
<1> HIDE DEF S
<1>2. Past(tx, c) \in Seq(S) /\ Len(Past(tx, c)) = c
      /\ \A i \in 1..c : Past(tx, c)[i] = tx[i - 1]
  BY <1>1 DEF Past
<1> QED BY <1>2 DEF S

LEMMA FutureSeq ==
  ASSUME NEW tx, NEW n \in Nat, NEW c \in 0..n
  PROVE  /\ Future(tx, c, n) \in Seq({tx[i] : i \in 0..n}) /\ Len(Future(tx, c, n)) = n - c
         /\ \A i \in 1..(n - c) : Future(tx, c, n)[i] = tx[c + i]
<1> DEFINE S == {tx[i] : i \in 0..n}
           m == n - c
<1>1. \A i \in 1..m : tx[c + i] \in S
  <2>1. \A i \in 1..m : c + i \in 0..n
    OBVIOUS
  <2> QED BY <2>1
<1>2. m \in Nat /\ Future(tx, c, n) = [i \in 1..m |-> tx[c + i]]
  BY DEF Future
<1> HIDE DEF S, m
<1>3. Future(tx, c, n) \in Seq(S) /\ Len(Future(tx, c, n)) = m
      /\ \A i \in 1..m : Future(tx, c, n)[i] = tx[c + i]
  BY <1>1, <1>2
<1> QED BY <1>3 DEF S, m

\* One step back
LEMMA PastBack ==
  ASSUME NEW tx, NEW c \in Nat \ {0}
  PROVE  /\ Past(tx, c) # <<>> /\ Past(tx, c)[Len(Past(tx, c))] = tx[c - 1]
         /\ Past(tx, c - 1) = SubSeq(Past(tx, c), 1, Len(Past(tx, c)) - 1)
<1> DEFINE S == {tx[i] : i \in 0..c}
           p == Past(tx, c)
           m == c - 1
           q == Past(tx, m)
           r == SubSeq(p, 1, m)
<1>1. p \in Seq(S) /\ Len(p) = c /\ \A i \in 1..c : p[i] = tx[i - 1]
  BY PastSeq
<1>2. m \in Nat /\ m < c /\ c - 1 = m /\ c \in 1..c
  OBVIOUS
<1>3. q \in Seq({tx[i] : i \in 0..m}) /\ Len(q) = m /\ \A i \in 1..m : q[i] = tx[i - 1]
  <2> HIDE DEF m
  <2> QED BY <1>2, PastSeq
<1> HIDE DEF p, q, S, m
<1>4. r \in Seq(S) /\ Len(r) = m /\ \A i \in 1..m : r[i] = p[i]
  BY <1>1, <1>2
<1> HIDE DEF r
<1>5. \A i \in 1..m : q[i] = r[i]
  <2>1. \A i \in 1..m : i \in 1..c
    BY <1>2
  <2> QED BY <1>1, <1>3, <1>4, <2>1
<1>6. q = r
  BY <1>3, <1>4, <1>5, SeqEqual
<1>7. p # <<>>
  BY <1>1
<1>8. p[Len(p)] = tx[m]
  BY <1>1, <1>2
<1> QED BY <1>1, <1>2, <1>6, <1>7, <1>8 DEF p, q, r, m

LEMMA FutureBack ==
  ASSUME NEW tx, NEW n \in Nat, NEW c \in 1..n
  PROVE  Future(tx, c - 1, n) = <<tx[c]>> \o Future(tx, c, n)
<1> DEFINE S == {tx[i] : i \in 0..n}
           f == Future(tx, c, n)
           m == c - 1
           g == Future(tx, m, n)
           last == tx[c]
           one == <<last>>
           h == one \o f
           k == n - c
<1>1. k \in Nat /\ n - m = k + 1 /\ m + 1 = c /\ m \in 0..n /\ c \in 0..n
  OBVIOUS
<1>2. f \in Seq(S) /\ Len(f) = k /\ \A i \in 1..k : f[i] = tx[c + i]
  BY <1>1, FutureSeq, ZenonT(60)
<1>3. g \in Seq(S) /\ Len(g) = k + 1 /\ \A i \in 1..(k + 1) : g[i] = tx[m + i]
  <2>0. m \in 0..n
    BY <1>1
  <2> HIDE DEF m
  <2>1. g \in Seq(S) /\ Len(g) = n - m /\ \A i \in 1..(n - m) : g[i] = tx[m + i]
    BY <2>0, FutureSeq
  <2> QED BY <1>1, <2>1
<1>4. last \in S
  BY <1>1
<1> HIDE DEF f, g, m, k, S, last
<1>5. one \in Seq(S) /\ Len(one) = 1 /\ one[1] = last
  BY <1>4
<1> HIDE DEF one
<1>6. h \in Seq(S) /\ Len(h) = 1 + k
      /\ \A i \in 1..(1 + k) : h[i] = IF i <= 1 THEN one[i] ELSE f[i - 1]
  <2> DEFINE d == 1
  <2>1. d = Len(one) /\ k = Len(f)
    BY <1>2, <1>5
  <2> HIDE DEF d
  <2>2. IsJoint(S, h, one, f, Len(one), Len(f))
    BY <1>2, <1>5, JointSeq
  <2>3. IsJoint(S, h, one, f, d, k)
    BY <2>1, <2>2
  <2> HIDE DEF h
  <2> QED BY <2>3 DEF d, IsJoint
<1> HIDE DEF h
<1>7. ASSUME NEW i \in 1..(k + 1) PROVE g[i] = h[i]
  <2>0. k + 1 = 1 + k
    BY <1>1
  <2>1. CASE i = 1
    BY <1>1, <1>3, <1>5, <1>6, <2>0, <2>1 DEF last
  <2>2. CASE i # 1
    <3>1. i - 1 \in 1..k /\ c + (i - 1) = m + i /\ ~(i <= 1)
      BY <1>1, <2>2
    <3> QED BY <1>2, <1>3, <1>6, <2>0, <3>1
  <2> QED BY <2>1, <2>2
<1>8. Len(g) = Len(h)
  BY <1>1, <1>3, <1>6
<1>9. g = h
  BY <1>1, <1>3, <1>6, <1>7, <1>8, SeqEqual
<1> QED BY <1>9 DEF g, h, m, f, one, last

\* One step forth
LEMMA FutureForth ==
  ASSUME NEW tx, NEW n \in Nat, NEW c \in 0..(n - 1)
  PROVE  /\ Future(tx, c, n) # <<>> /\ Head(Future(tx, c, n)) = tx[c + 1]
         /\ Future(tx, c + 1, n) = Tail(Future(tx, c, n))
<1> DEFINE S == {tx[i] : i \in 0..n}
           f == Future(tx, c, n)
           m == c + 1
           g == Future(tx, m, n)
           k == n - m
           h == Tail(f)
<1>1. k \in Nat /\ n - c = k + 1 /\ c \in 0..n /\ m \in 0..n /\ 1 \in 1..(k + 1)
  OBVIOUS
<1>2. f \in Seq(S) /\ Len(f) = k + 1 /\ \A i \in 1..(k + 1) : f[i] = tx[c + i]
  <2>0. c \in 0..n
    BY <1>1
  <2> HIDE DEF k
  <2>1. f \in Seq(S) /\ Len(f) = n - c /\ \A i \in 1..(n - c) : f[i] = tx[c + i]
    BY <2>0, FutureSeq
  <2> QED BY <1>1, <2>1
<1>3. g \in Seq(S) /\ Len(g) = k /\ \A i \in 1..k : g[i] = tx[m + i]
  <2> HIDE DEF m
  <2> QED BY <1>1, FutureSeq
<1>4. \A i \in 1..k : c + (i + 1) = m + i /\ i + 1 \in 1..(k + 1)
  BY <1>1
<1>0. c + 1 = m
  OBVIOUS
<1> HIDE DEF f, g, m, k, S
<1>5. f # <<>>
  BY <1>1, <1>2
<1>6. h \in Seq(S) /\ Len(h) = k /\ \A i \in 1..k : h[i] = f[i + 1]
  BY <1>1, <1>2, <1>5
<1>7. Head(f) = tx[m]
  BY <1>0, <1>1, <1>2, <1>5
<1> HIDE DEF h
<1>8. \A i \in 1..k : g[i] = h[i]
  BY <1>2, <1>3, <1>4, <1>6
<1>9. g = h
  BY <1>1, <1>3, <1>6, <1>8, SeqEqual
<1> QED BY <1>0, <1>5, <1>7, <1>9 DEF f, g, h, m

\* A text with its past and its future, and what follows
EditTurn(s, P, P2, F2, lost) ==
  /\ ~lost /\ F2 = <<>>
  /\ \/ P # <<>> /\ P2 = P
     \/ P2 = Append(P, s)
     \/ Len(P2) = Len(P) + 2 /\ \E mid \in RemovalsOf(s) : P2 = P \o <<s, mid>>
GiveUpTurn(s, P2, F2, lost) ==
  /\ lost /\ F2 = <<>>
  /\ Len(P2) <= 1 \/ \E mid \in RemovalsOf(s) : P2 = <<s, mid>>
UndoTurn(s, P, F, s2, P2, F2, lost) ==
  /\ P # <<>> /\ ~lost /\ s2 = P[Len(P)]
  /\ P2 = SubSeq(P, 1, Len(P) - 1) /\ F2 = <<s>> \o F
RedoTurn(s, P, F, s2, P2, F2, lost) ==
  /\ F # <<>> /\ ~lost /\ s2 = Head(F) /\ P2 = Append(P, s) /\ F2 = Tail(F)
Turn(s, P, F, s2, P2, F2, lost) ==
  \/ EditTurn(s, P, P2, F2, lost) \/ GiveUpTurn(s, P2, F2, lost)
  \/ UndoTurn(s, P, F, s2, P2, F2, lost) \/ RedoTurn(s, P, F, s2, P2, F2, lost)

LEMMA TwoMore ==
  ASSUME NEW S, NEW P \in Seq(S), NEW a, NEW b
  PROVE  /\ Append(Append(P, a), b) = P \o <<a, b>>
         /\ Len(P \o <<a, b>>) = Len(P) + 2
<1> DEFINE T == S \cup {a, b}
           n == Len(P)
           pair == <<a, b>>
           q == Append(P, a)
           r == Append(q, b)
           w == P \o pair
<1>1. n \in Nat /\ P \in Seq(T) /\ a \in T /\ b \in T
  <2>1. S \subseteq T
    OBVIOUS
  <2> HIDE DEF T
  <2> QED BY <2>1 DEF T
<1>2. pair \in Seq(T) /\ Len(pair) = 2 /\ pair[1] = a /\ pair[2] = b
  OBVIOUS
<1> HIDE DEF T, pair
<1>3. q \in Seq(T) /\ Len(q) = n + 1 /\ q[n + 1] = a /\ \A i \in 1..n : q[i] = P[i]
  BY <1>1
<1> HIDE DEF q
<1>4. r \in Seq(T) /\ Len(r) = Len(q) + 1 /\ r[Len(q) + 1] = b
      /\ \A i \in 1..Len(q) : r[i] = q[i]
  BY <1>1, <1>3
<1>5. w \in Seq(T) /\ Len(w) = n + 2
      /\ \A i \in 1..(n + 2) : w[i] = IF i <= n THEN P[i] ELSE pair[i - n]
  <2> DEFINE d == 2
  <2>1. n = Len(P) /\ d = Len(pair)
    BY <1>2
  <2> HIDE DEF d, n
  <2>2. IsJoint(T, w, P, pair, Len(P), Len(pair))
    BY <1>1, <1>2, JointSeq
  <2>3. IsJoint(T, w, P, pair, n, d)
    BY <2>1, <2>2
  <2> HIDE DEF w
  <2> QED BY <2>3 DEF d, IsJoint
<1> HIDE DEF r, w
<1>6. Len(r) = n + 2 /\ r[n + 2] = b /\ \A i \in 1..(n + 1) : r[i] = q[i]
  <2>1. Len(q) + 1 = n + 2
    BY <1>1, <1>3
  <2> QED BY <1>3, <1>4, <2>1
<1> HIDE DEF n
<1>7. ASSUME NEW i \in 1..(n + 2) PROVE r[i] = w[i]
  <2>1. CASE i \in 1..n
    <3>1. i \in 1..(n + 1) /\ i <= n
      BY <1>1, <2>1
    <3> QED BY <1>3, <1>5, <1>6, <2>1, <3>1
  <2>2. CASE i = n + 1
    <3>1. i \in 1..(n + 1) /\ ~(i <= n) /\ i - n = 1
      BY <1>1, <2>2
    <3> QED BY <1>2, <1>3, <1>5, <1>6, <2>2, <3>1
  <2>3. CASE i = n + 2
    <3>1. ~(i <= n) /\ i - n = 2
      BY <1>1, <2>3
    <3> QED BY <1>2, <1>5, <1>6, <2>3, <3>1
  <2> QED BY <1>1, <2>1, <2>2, <2>3
<1>8. r = w
  <2>1. Len(r) = Len(w)
    BY <1>5, <1>6
  <2>2. \A i \in 1..Len(r) : r[i] = w[i]
    BY <1>6, <1>7
  <2> QED BY <1>4, <1>5, <2>1, <2>2, SeqEqual
<1> QED BY <1>5, <1>8 DEF r, w, q, n, pair

LEMMA GrownTurns ==
  ASSUME NEW S, NEW P \in Seq(S), NEW s, NEW Q, NEW lost \in BOOLEAN, Grown(s, P, Q, lost)
  PROVE  EditTurn(s, P, Q, <<>>, lost) \/ GiveUpTurn(s, Q, <<>>, lost)
<1>1. CASE lost = TRUE
  BY <1>1 DEF Grown, GiveUpTurn
<1>2. CASE lost = FALSE
  <2>1. CASE P # <<>> /\ Q = P
    BY <1>2, <2>1 DEF EditTurn
  <2>2. CASE Q = Append(P, s)
    BY <1>2, <2>2 DEF EditTurn
  <2>3. CASE \E mid \in RemovalsOf(s) : Q = Append(Append(P, s), mid)
    <3>1. PICK mid \in RemovalsOf(s) : Q = Append(Append(P, s), mid)
      BY <2>3
    <3>2. Q = P \o <<s, mid>> /\ Len(Q) = Len(P) + 2
      <4>1. /\ Append(Append(P, s), mid) = P \o <<s, mid>>
            /\ Len(P \o <<s, mid>>) = Len(P) + 2
        BY TwoMore
      <4> QED BY <3>1, <4>1
    <3> QED BY <1>2, <3>2 DEF EditTurn
  <2> QED BY <1>2, <2>1, <2>2, <2>3 DEF Grown
<1> QED BY <1>1, <1>2

\* What a frame that begins with e and ends with r does to the history, as
\* long as the log can replay
Unmoved(e, r) == r.buf = e.buf /\ r.recs = e.recs /\ r.cursor = e.cursor
Turns(e, r) ==
  Separate(r) /\ r.missed # TRUE =>
    /\ \E ty : Shows(r, ty)
    /\ \/ Unmoved(e, r)
       \/ Turn(e.buf, BackOf(e), ForthOf(e), r.buf, BackOf(r), ForthOf(r), r.lost)

LEMMA StartShows ==
  ASSUME NEW e, NEW tx, Start(e, tx)
  PROVE  /\ Shows(e, tx) /\ BackOf(e) = Past(tx, e.cursor)
         /\ ForthOf(e) = Future(tx, e.cursor, Len(e.recs))
<1>1. Shows(e, tx)
  BY DEF Start, Shows
<1> QED BY <1>1, BackIsPast, ForthIsFuture

LEMMA EmptyFuture ==
  ASSUME NEW tx, NEW c \in Nat
  PROVE  Future(tx, c, c) = <<>>
<1>1. c - c = 0
  OBVIOUS
<1>2. Future(tx, c, c) = [i \in 1..0 |-> tx[c + i]]
  BY <1>1 DEF Future
<1>3. 1..0 = {}
  OBVIOUS
<1>4. [i \in 1..0 |-> tx[c + i]] = <<>>
  BY <1>3
<1> QED BY <1>2, <1>4

LEMMA InFrameTurns ==
  ASSUME NEW e, NEW tx, Start(e, tx), NEW r, InFrame(e, tx, r)
  PROVE  Turns(e, r)
<1> SUFFICES ASSUME Separate(r), r.missed # TRUE
             PROVE  /\ \E ty : Shows(r, ty)
                    /\ \/ Unmoved(e, r)
                       \/ Turn(e.buf, BackOf(e), ForthOf(e), r.buf, BackOf(r), ForthOf(r), r.lost)
  BY DEF Turns
<1> DEFINE P == Past(tx, e.cursor)
<1>1. IsEditor(r) /\ r.lost \in BOOLEAN
  BY Fields DEF InFrame
<1>2. CASE Untouched(e, r)
  <2>1. SameLog(e, r) /\ r.buf = e.buf
    BY <1>2 DEF Untouched
  <2>2. Shows(r, tx)
    <3>1. IsBook(r) /\ Tells(r, tx)
      BY <2>1, SameLogFacts DEF Start
    <3>2. tx[r.cursor] = r.buf
      BY <2>1 DEF SameLog, Start
    <3> QED BY <3>1, <3>2 DEF Shows
  <2>3. Unmoved(e, r)
    BY <2>1 DEF Unmoved, SameLog
  <2> QED BY <2>2, <2>3
<1>3. CASE Trimmed(e, tx, r) \/ Typing(e, tx, r)
  <2>1. /\ IsBook(r) /\ r.cursor = Len(r.recs) /\ r.cursor \in Nat
        /\ \E ty : /\ Tells(r, ty) /\ ty[r.cursor] = r.buf
                   /\ Grown(e.buf, P, Past(ty, r.cursor), r.lost)
    <3>1. CASE Typing(e, tx, r)
      BY <3>1 DEF Typing, IsBook
    <3>2. CASE Trimmed(e, tx, r)
      <4>1. PICK ty : /\ Tells(r, ty) /\ ty[r.cursor] = r.buf
                      /\ Past(ty, r.cursor) = IF r.lost = TRUE THEN <<e.buf>> ELSE Append(P, e.buf)
        BY <3>2 DEF Trimmed
      <4>2. Grown(e.buf, P, Past(ty, r.cursor), r.lost)
        <5>1. CASE r.lost = TRUE
          <6>1. Past(ty, r.cursor) = <<e.buf>>
            BY <4>1, <5>1
          <6>2. Len(<<e.buf>>) <= 1
            OBVIOUS
          <6> QED BY <5>1, <6>1, <6>2 DEF Grown
        <5>2. CASE r.lost # TRUE
          BY <4>1, <5>2 DEF Grown
        <5> QED BY <5>1, <5>2
      <4> QED BY <3>2, <4>1, <4>2 DEF Trimmed
    <3> QED BY <1>3, <3>1, <3>2
  <2>2. PICK ty : /\ Tells(r, ty) /\ ty[r.cursor] = r.buf
                  /\ Grown(e.buf, P, Past(ty, r.cursor), r.lost)
    BY <2>1
  <2>3. Shows(r, ty)
    BY <2>1, <2>2 DEF Shows
  <2>4. BackOf(r) = Past(ty, r.cursor) /\ ForthOf(r) = <<>>
    <3>1. ForthOf(r) = Future(ty, r.cursor, r.cursor)
      BY <2>1, <2>3, ForthIsFuture
    <3>2. Future(ty, r.cursor, r.cursor) = <<>>
      BY <2>1, EmptyFuture
    <3> QED BY <2>3, <3>1, <3>2, BackIsPast
  <2>5. BackOf(e) = P
    BY StartShows
  <2> DEFINE S == {tx[i] : i \in 0..e.cursor}
             Q == BackOf(r)
  <2>6. P \in Seq(S)
    BY StartFacts, PastSeq
  <2> HIDE DEF P, S
  <2>7. Grown(e.buf, P, Q, r.lost)
    BY <2>2, <2>4
  <2> HIDE DEF Q
  <2>8. EditTurn(e.buf, P, Q, <<>>, r.lost) \/ GiveUpTurn(e.buf, Q, <<>>, r.lost)
    BY <1>1, <2>6, <2>7, GrownTurns
  <2>9. Turn(e.buf, P, ForthOf(e), r.buf, Q, <<>>, r.lost)
    BY <2>8 DEF Turn
  <2> QED BY <2>3, <2>4, <2>5, <2>9 DEF Q
<1> QED BY <1>2, <1>3 DEF InFrame

IsAt(r, tx, c, n) ==
  /\ Shows(r, tx) /\ r.buf = tx[c] /\ r.lost = FALSE
  /\ BackOf(r) = Past(tx, c) /\ ForthOf(r) = Future(tx, c, n)

\* The log does not change when its records are replayed.
LEMMA ReplayedShows ==
  ASSUME NEW e, NEW tx, Start(e, tx), NEW c \in 0..Len(e.recs), NEW buf, buf = tx[c], NEW caret
  PROVE  IsAt(ReplayedSet(e, c, buf, caret), tx, c, Len(e.recs))
<1> DEFINE r == ReplayedSet(e, c, buf, caret)
<1>1. /\ r.recs = e.recs /\ r.cursor = c /\ r.used = e.used /\ r.buf = buf
      /\ r.arena = e.arena /\ r.lost = e.lost /\ r.missed = e.missed
  BY ReplayedLog DEF Start
<1> HIDE DEF r
<1>2. \A rec : Saved(r, rec) = Saved(e, rec)
  BY <1>1 DEF Saved
<1>3. \A rec, s, t : Stands(e, rec, s, t) => Stands(r, rec, s, t)
  BY <1>2 DEF Stands
<1>4. Tells(r, tx)
  BY <1>1, <1>3 DEF Start, Tells
<1>5. IsBook(r)
  BY <1>1 DEF Start, IsBook
<1>6. Shows(r, tx)
  BY <1>1, <1>4, <1>5 DEF Shows
<1>7. BackOf(r) = Past(tx, c) /\ ForthOf(r) = Future(tx, c, Len(e.recs))
  BY <1>1, <1>6, BackIsPast, ForthIsFuture
<1> QED BY <1>1, <1>6, <1>7 DEF r, Start, IsAt

\* gt_editor_undo
LEMMA UndoTurns ==
  ASSUME NEW e, NEW tx, Start(e, tx)
  PROVE  Turns(e, UndoOne(e))
<1>0. Shows(e, tx) /\ BackOf(e) = Past(tx, e.cursor) /\ ForthOf(e) = Future(tx, e.cursor, Len(e.recs))
  BY StartShows
<1>1. CASE e.cursor = 0
  <2>1. UndoOne(e) = e
    BY <1>1 DEF UndoOne
  <2> QED BY <1>0, <2>1 DEF Turns, Unmoved
<1>2. CASE e.cursor # 0
  <2> DEFINE k == e.cursor
             n == Len(e.recs)
             rec == e.recs[k]
             c == k - 1
             buf == Undone(e, e.buf, rec)
             caret == IF rec.kind = Insertion THEN rec.pos ELSE rec.pos + rec.len
             r == ReplayedSet(e, c, buf, caret)
  <2>1. UndoOne(e) = r
    <3>1. UndoOne(e) = Dirtied([e EXCEPT !.cursor = @ - 1, !.buf = Undone(e, @, rec),
                                         !.caret = caret])
      BY <1>2 DEF UndoOne
    <3> HIDE DEF caret, rec
    <3>2. Dirtied([e EXCEPT !.cursor = @ - 1, !.buf = Undone(e, @, rec), !.caret = caret]) = r
      BY DEF Dirtied, ReplayedSet
    <3> QED BY <3>1, <3>2
  <2>2. n \in Nat /\ k \in 1..n /\ c \in 0..n /\ k \in Nat \ {0}
    <3>1. n \in Nat /\ k \in 0..n
      BY StartFacts
    <3> QED BY <1>2, <3>1
  <2>3. buf = tx[c] /\ e.buf = tx[k]
    <3>1. Undone(e, tx[k], rec) = tx[c]
      BY <1>0, <2>2, ShowsStep
    <3> QED BY <1>0, <3>1 DEF Shows
  <2> HIDE DEF rec, buf, caret
  <2>4. /\ Shows(r, tx) /\ r.buf = buf /\ r.lost = FALSE
        /\ BackOf(r) = Past(tx, c) /\ ForthOf(r) = Future(tx, c, n)
    <3> HIDE DEF c
    <3>1. IsAt(r, tx, c, n)
      BY <2>2, <2>3, ReplayedShows
    <3> HIDE DEF r
    <3> QED BY <2>3, <3>1 DEF IsAt
  <2> HIDE DEF r
  <2>5. /\ Past(tx, k) # <<>> /\ Past(tx, k)[Len(Past(tx, k))] = tx[c]
        /\ Past(tx, c) = SubSeq(Past(tx, k), 1, Len(Past(tx, k)) - 1)
    BY <2>2, PastBack
  <2>6. Future(tx, c, n) = <<tx[k]>> \o Future(tx, k, n)
    BY <2>2, FutureBack
  <2>7. Turn(e.buf, BackOf(e), ForthOf(e), r.buf, BackOf(r), ForthOf(r), r.lost)
    <3> HIDE DEF c
    <3> QED BY <1>0, <2>3, <2>4, <2>5, <2>6 DEF Turn, UndoTurn
  <2> QED BY <2>1, <2>4, <2>7 DEF Turns
<1> QED BY <1>1, <1>2

\* gt_editor_redo
LEMMA RedoTurns ==
  ASSUME NEW e, NEW tx, Start(e, tx)
  PROVE  Turns(e, RedoOne(e))
<1>0. Shows(e, tx) /\ BackOf(e) = Past(tx, e.cursor) /\ ForthOf(e) = Future(tx, e.cursor, Len(e.recs))
  BY StartShows
<1>1. CASE e.cursor = Len(e.recs)
  <2>1. RedoOne(e) = e
    BY <1>1 DEF RedoOne
  <2> QED BY <1>0, <2>1 DEF Turns, Unmoved
<1>2. CASE e.cursor # Len(e.recs)
  <2> DEFINE k == e.cursor
             n == Len(e.recs)
             c == k + 1
             rec == e.recs[c]
             buf == Redone(e, e.buf, rec)
             caret == IF rec.kind = Insertion THEN rec.pos + rec.len ELSE rec.pos
             r == ReplayedSet(e, c, buf, caret)
  <2>1. RedoOne(e) = r
    <3>1. RedoOne(e) = Dirtied([e EXCEPT !.cursor = @ + 1, !.buf = Redone(e, @, rec),
                                         !.caret = caret])
      BY <1>2 DEF RedoOne
    <3> HIDE DEF caret, rec
    <3>2. Dirtied([e EXCEPT !.cursor = @ + 1, !.buf = Redone(e, @, rec), !.caret = caret]) = r
      BY DEF Dirtied, ReplayedSet
    <3> QED BY <3>1, <3>2
  <2>2. n \in Nat /\ k \in 0..(n - 1) /\ c \in 1..n /\ c \in 0..n /\ c - 1 = k /\ k \in Nat
    <3>1. n \in Nat /\ k \in 0..n
      BY StartFacts
    <3> QED BY <1>2, <3>1
  <2>3. buf = tx[c] /\ e.buf = tx[k]
    <3> HIDE DEF c
    <3>1. Redone(e, tx[c - 1], rec) = tx[c]
      BY <1>0, <2>2, ShowsStep
    <3> QED BY <1>0, <2>2, <3>1 DEF Shows
  <2> HIDE DEF rec, buf, caret
  <2>4. /\ Shows(r, tx) /\ r.buf = buf /\ r.lost = FALSE
        /\ BackOf(r) = Past(tx, c) /\ ForthOf(r) = Future(tx, c, n)
    <3> HIDE DEF c
    <3>1. IsAt(r, tx, c, n)
      BY <2>2, <2>3, ReplayedShows
    <3> HIDE DEF r
    <3> QED BY <2>3, <3>1 DEF IsAt
  <2> HIDE DEF r
  <2>5. Past(tx, c) = Append(Past(tx, k), tx[k])
    <3>1. Past(Ext(tx, c, tx[c]), c) = Append(Past(tx, k), tx[k])
      BY <2>2, PastExt
    <3>2. \A i \in 1..c : Ext(tx, c, tx[c])[i - 1] = tx[i - 1]
      BY <2>2 DEF Ext
    <3>3. Past(Ext(tx, c, tx[c]), c) = Past(tx, c)
      <4> HIDE DEF c
      <4> QED BY <3>2 DEF Past
    <3> QED BY <3>1, <3>3
  <2>6. /\ Future(tx, k, n) # <<>> /\ Head(Future(tx, k, n)) = tx[c]
        /\ Future(tx, c, n) = Tail(Future(tx, k, n))
    BY <2>2, FutureForth
  <2>7. Turn(e.buf, BackOf(e), ForthOf(e), r.buf, BackOf(r), ForthOf(r), r.lost)
    <3> HIDE DEF c
    <3> QED BY <1>0, <2>3, <2>4, <2>5, <2>6 DEF Turn, RedoTurn
  <2> QED BY <2>1, <2>4, <2>7 DEF Turns
<1> QED BY <1>1, <1>2

LEMMA TurnsEnd ==
  ASSUME NEW e, NEW t, Turns(e, t), NEW r, SameLog(t, r), r.buf = t.buf
  PROVE  Turns(e, r)
<1> SUFFICES ASSUME Separate(r), r.missed # TRUE
             PROVE  /\ \E ty : Shows(r, ty)
                    /\ \/ Unmoved(e, r)
                       \/ Turn(e.buf, BackOf(e), ForthOf(e), r.buf, BackOf(r), ForthOf(r), r.lost)
  BY DEF Turns
<1>1. Separate(t) /\ t.missed # TRUE /\ r.recs = t.recs /\ r.cursor = t.cursor /\ r.lost = t.lost
  BY SameLogFacts DEF SameLog
<1>2. PICK ty : Shows(t, ty)
  BY <1>1 DEF Turns
<1>3. Shows(r, ty)
  <2>1. IsBook(r) /\ Tells(r, ty)
    BY <1>2, SameLogFacts DEF Shows
  <2> QED BY <1>1, <1>2, <2>1 DEF Shows
<1>4. BackOf(r) = BackOf(t) /\ ForthOf(r) = ForthOf(t)
  <2>1. BackOf(t) = Past(ty, t.cursor) /\ ForthOf(t) = Future(ty, t.cursor, Len(t.recs))
    BY <1>2, BackIsPast, ForthIsFuture
  <2>2. BackOf(r) = Past(ty, r.cursor) /\ ForthOf(r) = Future(ty, r.cursor, Len(r.recs))
    BY <1>3, BackIsPast, ForthIsFuture
  <2> QED BY <1>1, <2>1, <2>2
<1>5. Unmoved(e, t) => Unmoved(e, r)
  BY <1>1 DEF Unmoved
<1>6. Unmoved(e, t) \/ Turn(e.buf, BackOf(e), ForthOf(e), t.buf, BackOf(t), ForthOf(t), t.lost)
  BY <1>1 DEF Turns
<1> QED BY <1>1, <1>3, <1>4, <1>5, <1>6

LEMMA EndedLog ==
  ASSUME NEW e, IsEditor(e)
  PROVE  SameLog(e, Ended(e)) /\ Ended(e).buf = e.buf
<1>1. Ended(e).buf = e.buf
  BY EndedFields
<1>2. CASE HasSelection(e)
  <2>1. Ended(e) = e
    BY <1>2 DEF Ended
  <2> QED BY <1>1, <2>1 DEF SameLog
<1>3. CASE ~HasSelection(e)
  <2>1. Ended(e) = NoAnchorSet(e)
    BY <1>3 DEF Ended, NoAnchorSet
  <2> QED BY <1>1, <2>1, LogUntouched
<1> QED BY <1>2, <1>3

LEMMA FreshStarts ==
  ASSUME IsEditor(ed), LogReplays, NEW tx, Shows(ed, tx)
  PROVE  /\ Start(Fresh, tx) /\ Unmoved(Fresh, ed)
         /\ BackOf(Fresh) = BackOf(ed) /\ ForthOf(Fresh) = ForthOf(ed)
<1> DEFINE f == FreshSet(ed)
<1>1. Fresh = f
  BY DEF Fresh, FreshSet
<1>2. IsEditor(f) /\ f.buf = ed.buf
  BY SetFresh
<1>3. /\ f.recs = ed.recs /\ f.cursor = ed.cursor /\ f.used = ed.used
      /\ f.arena = ed.arena /\ f.lost = FALSE /\ f.missed = ed.missed
  BY FreshLog
<1> HIDE DEF f
<1>4. \A rec : Saved(f, rec) = Saved(ed, rec)
  BY <1>3 DEF Saved
<1>5. \A rec, s, t : Stands(ed, rec, s, t) => Stands(f, rec, s, t)
  BY <1>4 DEF Stands
<1>6. Tells(f, tx)
  BY <1>3, <1>5 DEF Shows, Tells
<1>7. IsBook(f)
  BY <1>3 DEF Shows, IsBook
<1>8. Separate(f)
  BY <1>3 DEF LogReplays, StashesApart, Separate
<1>9. tx[f.cursor] = f.buf
  BY <1>2, <1>3 DEF Shows
<1>10. Start(f, tx) /\ Shows(f, tx)
  BY <1>2, <1>3, <1>6, <1>7, <1>8, <1>9 DEF Start, Shows
<1>11. BackOf(f) = BackOf(ed) /\ ForthOf(f) = ForthOf(ed)
  <2>1. BackOf(f) = Past(tx, f.cursor) /\ ForthOf(f) = Future(tx, f.cursor, Len(f.recs))
    BY <1>10, BackIsPast, ForthIsFuture
  <2>2. BackOf(ed) = Past(tx, ed.cursor) /\ ForthOf(ed) = Future(tx, ed.cursor, Len(ed.recs))
    BY BackIsPast, ForthIsFuture
  <2> QED BY <1>3, <2>1, <2>2
<1> QED BY <1>1, <1>2, <1>3, <1>10, <1>11 DEF Unmoved

\* A frame whose input turns the history
LEMMA FrameTurns ==
  ASSUME IsEditor(ed), LogReplays, NEW tx, Shows(ed, tx), NEW r, IsEditor(r),
         Turns(Fresh, r), Frame(r)
  PROVE  Turns(ed, ed')
<1> DEFINE e == Fresh
           q == ed'
<1>1. q = Ended(r)
  BY DEF Frame
<1>2. Unmoved(e, ed) /\ BackOf(e) = BackOf(ed) /\ ForthOf(e) = ForthOf(ed)
  BY FreshStarts
<1> HIDE DEF q, e
<1>3. SameLog(r, q) /\ q.buf = r.buf
  BY <1>1, EndedLog
<1>4. Turns(e, q)
  BY <1>3, TurnsEnd DEF e
<1>5. Turns(ed, q)
  BY <1>2, <1>4 DEF Turns, Unmoved
<1> QED BY <1>5 DEF q

\* The frame has not touched the text.
LEMMA IdleTurns ==
  ASSUME NEW e, NEW tx, Start(e, tx), NEW r, IsEditor(r), SameLog(e, r), r.buf = e.buf
  PROVE  Turns(e, r)
<1>1. InFrame(e, tx, r)
  BY DEF InFrame, Untouched
<1> QED BY <1>1, InFrameTurns

KeepsText(e, r) == IsEditor(r) /\ SameLog(e, r) /\ r.buf = e.buf

LEMMA UnselectedKeeps ==
  ASSUME NEW e, IsEditor(e), NEW a, NEW b
  PROVE  KeepsText(e, UnselectedSet(e, a, b))
<1> DEFINE r == UnselectedSet(e, a, b)
<1>1. /\ IsEditor(r)
      /\ r.buf = e.buf /\ r.dirty = e.dirty /\ r.open = e.open /\ r.recs = e.recs
      /\ r.cursor = e.cursor /\ r.missed = e.missed
      /\ r.caret = b /\ r.anchor = a /\ r.sel = FALSE
  BY SetUnselected, ZenonT(60)
<1>2. SameLog(e, r)
  BY LogUntouched
<1> QED BY <1>1, <1>2 DEF KeepsText

LEMMA MovedFields ==
  ASSUME NEW e, IsEditor(e), NEW n, NEW shift \in BOOLEAN
  PROVE  LET r == Moved(e, n, shift)
         IN  IsEditor(r) /\ SameLog(e, r) /\ r.buf = e.buf
<1> DEFINE from == IF shift /\ ~e.sel THEN e.caret ELSE e.anchor
           r == Moved(e, n, shift)
           on == shift /\ n # from
<1>1. r = [e EXCEPT !.caret = n, !.anchor = from, !.sel = on]
  BY DEF Moved
<1> HIDE DEF from, r
<1>2. CASE on
  <2>1. on = TRUE
    BY <1>2
  <2>2. r = [e EXCEPT !.caret = n, !.anchor = from, !.sel = TRUE]
    BY <1>1, <2>1
  <2> HIDE DEF on
  <2>3. r = SelectedSet(e, from, n)
    BY <2>2 DEF SelectedSet, IsEditor, EditorSet
  <2> DEFINE s == SelectedSet(e, from, n)
  <2>4. /\ IsEditor(s)
        /\ s.buf = e.buf /\ s.dirty = e.dirty /\ s.open = e.open /\ s.recs = e.recs
        /\ s.cursor = e.cursor /\ s.missed = e.missed
        /\ s.caret = n /\ s.anchor = from /\ s.sel = TRUE
    BY SetSelected
  <2>5. SameLog(e, SelectedSet(e, from, n))
    BY LogUntouched
  <2> QED BY <2>3, <2>4, <2>5 DEF r
<1>3. CASE ~on
  <2>1. on = FALSE
    BY <1>3
  <2>2. r = [e EXCEPT !.caret = n, !.anchor = from, !.sel = FALSE]
    BY <1>1, <2>1
  <2> HIDE DEF on
  <2>3. r = UnselectedSet(e, from, n)
    BY <2>2 DEF UnselectedSet
  <2>4. KeepsText(e, UnselectedSet(e, from, n))
    BY UnselectedKeeps
  <2> QED BY <2>3, <2>4 DEF r, KeepsText
<1> QED BY <1>2, <1>3

\* A history without records
LEMMA NoHistory ==
  ASSUME NEW e, e.recs = <<>>, e.cursor = 0
  PROVE  BackOf(e) = <<>> /\ ForthOf(e) = <<>>
<1>1. Len(e.recs) - e.cursor = 0
  BY Len(<<>>) = 0
<1> DEFINE t == CHOOSE f : Texts(e, f, e.cursor)
           n == Len(e.recs) - e.cursor
           u == CHOOSE f : Retexts(e, f, n)
<1>2. BackOf(e) = [i \in 1..e.cursor |-> t[e.cursor - i + 1]]
  BY DEF BackOf
<1>3. ForthOf(e) = [i \in 1..n |-> u[i]]
  BY DEF ForthOf
<1>4. 1..0 = {} /\ n = 0
  BY <1>1
<1> HIDE DEF t, u, n
<1>5. 1..n = {} /\ 1..e.cursor = {}
  BY <1>4
<1> QED BY <1>2, <1>3, <1>5

LEMMA LoadedShows ==
  ASSUME FilesFit, NEW text \in Files, NEW buf \in Reads(text)
  PROVE  \E tx : Shows(Loaded(buf), tx)
<1> DEFINE r == Loaded(buf)
           tx == [i \in {0} |-> buf]
<1>1. r = [Closed EXCEPT !.buf = buf, !.open = TRUE]
  BY DEF Loaded
<1>2. Len(text) < CodeCap - 1 /\ CodeCap \in Nat /\ ArenaCap \in Nat
  BY EditorAssumption DEF FilesFit
<1>3. buf \in Seq(Chars) /\ Len(buf) <= Len(text) /\ Len(text) \in Nat
  BY ReadsFacts
<1>4. IsShort(buf)
  <2>1. buf \in Seq(Bytes)
    <3>1. Chars \subseteq Bytes
      BY DEF Bytes
    <3> QED BY <1>3, <3>1
  <2>2. Len(buf) <= CodeCap - 2
    BY <1>2, <1>3
  <2> QED BY <2>1, <2>2 DEF IsShort
<1> HIDE DEF r
<1>5. r.recs = <<>> /\ r.cursor = 0 /\ r.used = 0 /\ r.arena = NoBytes /\ r.buf = buf
  BY <1>1 DEF Closed
<1>6. IsBook(r)
  <2>1. r.recs \in Seq(Rec) /\ Len(r.recs) = 0
    BY <1>5
  <2>2. DOMAIN r.arena = 0..(ArenaCap - 1)
    BY <1>5 DEF NoBytes
  <2> QED BY <1>5, <2>1, <2>2 DEF IsBook
<1>7. Tells(r, tx)
  <2>1. Len(r.recs) = 0 /\ \A i \in 0..0 : i = 0
    BY <1>5
  <2>2. \A i \in 0..Len(r.recs) : IsShort(tx[i])
    BY <1>4, <2>1
  <2>3. \A i \in 1..Len(r.recs) : FALSE
    BY <2>1
  <2> HIDE DEF tx
  <2> QED BY <2>2, <2>3 DEF Tells
<1>8. tx[r.cursor] = r.buf
  BY <1>5
<1> HIDE DEF tx
<1>9. Shows(r, tx)
  BY <1>6, <1>7, <1>8 DEF Shows
<1> QED BY <1>9 DEF r

LEMMA SaveTurns ==
  ASSUME IsEditor(ed), LogReplays, NEW tx, Shows(ed, tx), Save
  PROVE  Turns(ed, ed')
<1> DEFINE e == Fresh
           q == ed'
           r == SavedSet(e)
<1>1. q = r
  BY DEF Save, SavedSet
<1>2. Unmoved(e, ed) /\ BackOf(e) = BackOf(ed) /\ ForthOf(e) = ForthOf(ed) /\ Start(e, tx)
  BY FreshStarts
<1> HIDE DEF q, e
<1>3. SameLog(e, r)
  BY <1>2, LogUntouched DEF Start
<1>4. IsEditor(r) /\ r.buf = e.buf
  BY <1>2, SetSaved DEF Start
<1> HIDE DEF r
<1>5. Turns(e, r)
  BY <1>2, <1>3, <1>4, IdleTurns
<1>6. Turns(ed, q)
  BY <1>1, <1>2, <1>5 DEF Turns, Unmoved
<1> QED BY <1>6 DEF q

\* Every frame of an open script turns the history or closes it.
LEMMA NextTurns ==
  ASSUME CodeCap - 2 <= ArenaCap, IsEditor(ed), ed.open = TRUE, Inside(ed), LogReplays,
         NEW tx, Shows(ed, tx), Next
  PROVE  Turns(ed, ed') \/ ed' = Closed
<1> DEFINE e == Fresh
<1>1. Start(e, tx)
  BY FreshStarts
<1>2. IsEditor(e) /\ Inside(e) /\ e.buf = ed.buf
  BY FreshIsProper DEF Proper
<1>3. \A r : IsEditor(r) /\ Turns(e, r) /\ Frame(r) => Turns(ed, ed')
  BY FrameTurns
<1> HIDE DEF e
<1>0. InFrame(e, tx, e) /\ Untouched(e, e)
  BY <1>2 DEF InFrame, Untouched, SameLog
<1>4. \A r : InFrame(e, tx, r) => IsEditor(r) /\ Turns(e, r)
  BY <1>1, InFrameTurns DEF InFrame
<1>5. \A r : InFrame(e, tx, r) /\ Frame(r) => Turns(ed, ed')
  BY <1>3, <1>4
<1>6. CASE Type
  <2>1. PICK byte \in Typed : Frame(Insert(e, byte))
    BY <1>6 DEF Type, e
  <2>2. byte \in Bytes
    BY EditorAssumption DEF Bytes
  <2>3. InFrame(e, tx, Insert(e, byte))
    BY <1>0, <1>1, <1>2, <2>2, InsertInFrame
  <2> QED BY <1>5, <2>1, <2>3
<1>7. CASE Erase
  <2>1. Frame(Backspace(e)) \/ Frame(ForwardDelete(e))
    BY <1>7 DEF Erase, e
  <2>2. InFrame(e, tx, Backspace(e)) /\ InFrame(e, tx, ForwardDelete(e))
    BY <1>0, <1>1, <1>2, BackspaceInFrame, ForwardDeleteInFrame
  <2> QED BY <1>5, <2>1, <2>2
<1>8. CASE PasteClip
  <2>1. PICK clip \in Clips : Frame(Paste(e, clip))
    BY <1>8 DEF PasteClip, e
  <2>2. InFrame(e, tx, Paste(e, clip))
    BY <1>0, <1>1, <1>2, PasteInFrame
  <2> QED BY <1>5, <2>1, <2>2
<1>9. CASE CutClip
  <2>1. Frame(DeleteSelection(e))
    BY <1>9 DEF CutClip, e
  <2>2. InFrame(e, tx, DeleteSelection(e))
    BY <1>0, <1>1, <1>2, DeleteSelectionInFrame
  <2> QED BY <1>5, <2>1, <2>2
<1>10. CASE Undo
  <2>1. Frame(UndoOne(e))
    BY <1>10 DEF Undo, e
  <2>2. IsEditor(UndoOne(e)) /\ Turns(e, UndoOne(e))
    BY <1>1, <1>2, UndoIsProper, UndoTurns DEF Proper
  <2> QED BY <1>3, <2>1, <2>2
<1>11. CASE Redo
  <2>1. Frame(RedoOne(e))
    BY <1>11 DEF Redo, e
  <2>2. IsEditor(RedoOne(e)) /\ Turns(e, RedoOne(e))
    BY <1>1, <1>2, RedoIsProper, RedoTurns DEF Proper
  <2> QED BY <1>3, <2>1, <2>2
<1>12. CASE Select
  <2>1. Frame(SelectAll(e))
    BY <1>12 DEF Select, e
  <2> DEFINE n == Len(e.buf)
             r == SelectedSet(e, 0, n)
  <2>2. SelectAll(e) = r
    BY DEF SelectAll, SelectedSet
  <2> HIDE DEF n
  <2>3. SameLog(e, r)
    BY <1>2, LogUntouched
  <2>4. /\ IsEditor(r)
        /\ r.buf = e.buf /\ r.dirty = e.dirty /\ r.open = e.open /\ r.recs = e.recs
        /\ r.cursor = e.cursor /\ r.missed = e.missed
        /\ r.caret = n /\ r.anchor = 0 /\ r.sel = TRUE
    BY <1>2, SetSelected
  <2> HIDE DEF r
  <2>5. Turns(e, r)
    BY <1>1, <2>3, <2>4, IdleTurns
  <2> QED BY <1>3, <2>1, <2>2, <2>4, <2>5
<1>13. CASE Move
  <2>1. PICK n \in Positions(ed), shift \in BOOLEAN : Frame(Moved(e, n, shift))
    BY <1>13 DEF Move, e
  <2> DEFINE r == Moved(e, n, shift)
  <2>2. IsEditor(r) /\ SameLog(e, r) /\ r.buf = e.buf
    BY <1>2, MovedFields
  <2> HIDE DEF r
  <2>3. Turns(e, r)
    BY <1>1, <2>2, IdleTurns
  <2> QED BY <1>3, <2>1, <2>2, <2>3 DEF r
<1>14. CASE Escape
  <2>1. CASE ed.dirty /\ ~ed.warned
    <3> DEFINE r == WarnedSet(e)
    <3>1. Frame(r)
      BY <1>14, <2>1 DEF Escape, WarnedSet, e
    <3>2. SameLog(e, r)
      BY <1>2, LogUntouched
    <3>3. /\ IsEditor(r)
          /\ r.buf = e.buf /\ r.caret = e.caret /\ r.anchor = e.anchor /\ r.sel = e.sel
          /\ r.dirty = e.dirty /\ r.open = e.open /\ r.recs = e.recs /\ r.cursor = e.cursor
          /\ r.missed = e.missed
      BY <1>2, SetWarned
    <3> HIDE DEF r
    <3>4. Turns(e, r)
      BY <1>1, <3>2, <3>3, IdleTurns
    <3> QED BY <1>3, <3>1, <3>3, <3>4
  <2>2. CASE ~(ed.dirty /\ ~ed.warned)
    <3>1. ed' = Ended(Closed)
      BY <1>14, <2>2 DEF Escape, Frame
    <3> QED BY <3>1, ClosedFacts
  <2> QED BY <2>1, <2>2
<1>15. CASE Save
  BY <1>15, SaveTurns
<1>16. CASE Load
  BY <1>16 DEF Load
<1> QED BY <1>6, <1>7, <1>8, <1>9, <1>10, <1>11, <1>12, <1>13, <1>14, <1>15, <1>16 DEF Next

-----------------------------------------------------------------------------
(* The undo log implements the history *)

LEMMA TurnIsNext ==
  ASSUME Turn(ed.buf, Back, Forth, ed'.buf, Back', Forth', ed'.lost)
  PROVE  History!Next
<1>1. RemovalsOf(ed.buf) = History!Removals
  BY DEF RemovalsOf, Removal, History!Removals
<1>2. CASE EditTurn(ed.buf, Back, Back', Forth', ed'.lost)
  BY <1>1, <1>2 DEF EditTurn, History!Edit, History!Next
<1>3. CASE GiveUpTurn(ed.buf, Back', Forth', ed'.lost)
  BY <1>1, <1>3 DEF GiveUpTurn, History!GiveUp, History!Next
<1>4. CASE UndoTurn(ed.buf, Back, Forth, ed'.buf, Back', Forth', ed'.lost)
  BY <1>4 DEF UndoTurn, History!Undo, History!Next
<1>5. CASE RedoTurn(ed.buf, Back, Forth, ed'.buf, Back', Forth', ed'.lost)
  BY <1>5 DEF RedoTurn, History!Redo, History!Next
<1> QED BY <1>2, <1>3, <1>4, <1>5 DEF Turn

LEMMA NextBack == Back' = BackOf(ed') /\ Forth' = ForthOf(ed')
BY DEF Back, BackOf, Forth, ForthOf, Texts, Retexts

\* As long as the log can replay, its records lead from text to text, and the
\* one at the cursor is the text of the buffer.
HistInv == ed = Closed \/ (LogReplays => \E tx : Shows(ed, tx))

HistAct ==
  \/ UNCHANGED <<ed.buf, ed.recs, ed.cursor>>
  \/ LogReplays' => [History!Next]_<<ed.buf, Back, Forth>>

LEMMA TurnsKeepHistory ==
  ASSUME Turns(ed, ed')
  PROVE  HistInv' /\ HistAct
<1>1. LogReplays' => Separate(ed') /\ ed'.missed # TRUE
  BY DEF LogReplays, StashesApart, Separate
<1>2. LogReplays' => \E ty : Shows(ed', ty)
  BY <1>1 DEF Turns
<1>3. HistInv'
  BY <1>2 DEF HistInv
<1>4. LogReplays' => \/ Unmoved(ed, ed')
                     \/ Turn(ed.buf, BackOf(ed), ForthOf(ed), ed'.buf, BackOf(ed'), ForthOf(ed'),
                             ed'.lost)
  BY <1>1 DEF Turns
<1>5. LogReplays' => \/ Unmoved(ed, ed')
                     \/ Turn(ed.buf, Back, Forth, ed'.buf, Back', Forth', ed'.lost)
  BY <1>4, BackIsBackOf, NextBack
<1>6. HistAct
  BY <1>5, TurnIsNext DEF HistAct, Unmoved
<1> QED BY <1>3, <1>6

LEMMA EmptyHistory ==
  ASSUME ed'.recs = <<>>, ed'.cursor = 0
  PROVE  HistAct
<1> DEFINE q == ed'
<1>1. q.recs = <<>> /\ q.cursor = 0
  OBVIOUS
<1> HIDE DEF q
<1>2. BackOf(q) = <<>> /\ ForthOf(q) = <<>>
  BY <1>1, NoHistory
<1>3. Back' = <<>> /\ Forth' = <<>>
  BY <1>2, NextBack DEF q
<1>4. History!Next
  BY <1>3 DEF History!Next, History!Load
<1> QED BY <1>4 DEF HistAct

\* The log replays what it records, and no deletion of a script finds more in
\* the arena than it holds.
LogFits == FilesFit /\ Beyond = FALSE /\ CodeCap - 2 <= ArenaCap

LEMMA HistoryStep ==
  ASSUME LogFits, InsideInv, HistInv, [Next]_vars
  PROVE  HistInv' /\ (ed' # ed => HistAct)
<1>1. IsEditor(ed) /\ (ed = Closed \/ (ed.open = TRUE /\ Inside(ed)))
  BY DEF InsideInv
<1>2. CASE UNCHANGED vars
  <2>1. ed' = ed
    BY <1>2 DEF vars
  <2>2. LogReplays' => LogReplays
    BY <2>1 DEF LogReplays, StashesApart
  <2> QED BY <2>1, <2>2 DEF HistInv
<1>3. CASE Next /\ ed = Closed
  <2>1. Load
    <3>1. ~ed.open /\ ed.dirty = FALSE
      BY <1>3, ClosedFacts
    <3> QED BY <1>3, <3>1 DEF Next, Type, Erase, PasteClip, CutClip, Undo, Redo, Select, Move,
                              Escape, Save, Frame
  <2>0. PICK text \in Files : \E bytes \in Reads(text) : ed' = Loaded(bytes)
    BY <2>1 DEF Load
  <2>2. PICK bytes \in Reads(text) : ed' = Loaded(bytes)
    BY <2>0
  <2>3. \E tx : Shows(Loaded(bytes), tx)
    BY LoadedShows DEF LogFits
  <2>4. HistInv'
    BY <2>2, <2>3 DEF HistInv
  <2>5. ed'.recs = <<>> /\ ed'.cursor = 0
    BY <2>2, LoadFacts DEF LoadedFacts
  <2> QED BY <2>4, <2>5, EmptyHistory
<1>4. CASE Next /\ ed # Closed
  <2>1. ed.open = TRUE /\ Inside(ed)
    BY <1>1, <1>4
  <2>2. LogReplays
    BY <1>4 DEF Next, LogFits
  <2>3. PICK tx : Shows(ed, tx)
    BY <1>4, <2>2 DEF HistInv
  <2>4. CASE Turns(ed, ed')
    BY <2>4, TurnsKeepHistory
  <2>5. CASE ed' = Closed
    <3>1. ed'.recs = <<>> /\ ed'.cursor = 0
      BY <2>5, ClosedFacts
    <3> QED BY <2>5, <3>1, EmptyHistory DEF HistInv
  <2>6. Turns(ed, ed') \/ ed' = Closed
    BY <1>1, <1>4, <2>1, <2>2, <2>3, NextTurns DEF LogFits
  <2> QED BY <2>4, <2>5, <2>6
<1> QED BY <1>2, <1>3, <1>4

\* For any clipboards and sizes: whatever is typed, pasted, cut, undone and
\* redone, an undo brings back the text that was, a redo the text that was
\* undone, and an edit leaves every text of the past what it is, as long as
\* no two stashes overlap and no deletion has found the list of records full
\* (gt_undo_push_insert, gt_undo_push_delete, gt_editor_undo, gt_editor_redo).
\* The arena holds a whole script, as 262144 bytes do for 65536; after a reset
\* gt_undo_push_delete does not look whether it does.
THEOREM EditsReplay == LogFits /\ Spec => HistoryExact
<1>1. Init => HistInv
  BY DEF Init, HistInv
<1>2. LogFits /\ InsideInv /\ HistInv /\ [Next]_vars => HistInv' /\ (ed' # ed => HistAct)
  BY HistoryStep
<1>3. LogFits => []LogFits
  <2>1. LogFits => LogFits'
    BY DEF LogFits, FilesFit
  <2> QED BY <2>1, PTL
<1>4. LogFits => FilesFit
  BY DEF LogFits
<1>5. (ed' # ed => HistAct) <=> [HistAct]_ed
  OBVIOUS
<1>6. LogFits /\ Spec => [][HistAct]_ed
  BY <1>1, <1>2, <1>3, <1>4, <1>5, InsideInductive, PTL DEF Spec
<1>7. [][HistAct]_ed => HistoryExact
  BY PTL DEF HistAct, HistoryExact
<1> QED BY <1>6, <1>7, PTL

-----------------------------------------------------------------------------
(* The scene: its rows *)

\* scene_index_of finds the first row with an id.
LEMMA IndexFacts ==
  ASSUME NEW S, NEW t \in Seq(S), NEW id
  PROVE  LET i == Scene!IndexOf(t, id)
         IN  IF id \in Scene!Ids(t)
             THEN i \in 1..Len(t) /\ t[i].id = id /\ \A j \in 1..(i - 1) : t[j].id # id
             ELSE i = 0
<1> DEFINE I == {i \in 1..Len(t) : t[i].id = id}
<1>1. Scene!IndexOf(t, id) = IF I # {} THEN Scene!Min(I) ELSE 0
  BY DEF Scene!IndexOf, Scene!SelectInSeq
<1>2. DOMAIN t = 1..Len(t) /\ Len(t) \in Nat
  OBVIOUS
<1>3. id \in Scene!Ids(t) <=> I # {}
  BY <1>2 DEF Scene!Ids
<1>4. CASE I # {}
  <2>1. I \in SUBSET Nat
    OBVIOUS
  <2>2. Scene!Min(I) \in I /\ \A k \in I : Scene!Min(I) <= k
    <3> HIDE DEF I
    <3> QED BY <1>4, <2>1, MinFacts
  <2> DEFINE i == Scene!Min(I)
  <2>3. i \in 1..Len(t) /\ t[i].id = id
    BY <2>2
  <2>4. ASSUME NEW j \in 1..(i - 1) PROVE t[j].id # id
    <3>1. j \in 1..Len(t) /\ j < i /\ i \in Nat /\ j \in Nat
      BY <2>3
    <3>2. j \notin I
      <4> HIDE DEF I
      <4> QED BY <2>2, <3>1
    <3> QED BY <3>1, <3>2
  <2> HIDE DEF i
  <2> QED BY <1>1, <1>3, <1>4, <2>3, <2>4 DEF i
<1>5. CASE I = {}
  BY <1>1, <1>3, <1>5
<1> QED BY <1>4, <1>5

\* The recursion of a left fold, over the sets of positions, has a solution.
SolvesFold(g, n, b, step) ==
  \A s \in SUBSET (1..n) :
    g[s] = IF s = {} THEN b ELSE step[<<g[s \ {Scene!Max(s)}], Scene!Max(s)>>]

LEMMA FoldExists ==
  ASSUME NEW N \in Nat, NEW T, NEW b \in T, NEW step \in [T \X (1..N) -> T]
  PROVE  \E g \in [SUBSET (1..N) -> T] : SolvesFold(g, N, b, step)
<1> DEFINE Solves(g, n) == SolvesFold(g, n, b, step)
           G(n) == {g \in [SUBSET (1..n) -> T] : Solves(g, n)}
           S == {n \in Nat : n <= N => G(n) # {}}
<1>1. 0 \in S
  <2> DEFINE g == [s \in SUBSET (1..0) |-> b]
  <2>1. 1..0 = {}
    OBVIOUS
  <2>2. g \in [SUBSET (1..0) -> T] /\ Solves(g, 0)
    BY <2>1 DEF SolvesFold
  <2> QED BY <2>2
<1> HIDE DEF Solves
<1>2. ASSUME NEW n \in Nat, n \in S PROVE n + 1 \in S
  <2> SUFFICES ASSUME n + 1 <= N PROVE G(n + 1) # {}
    <3> HIDE DEF G
    <3> QED OBVIOUS
  <2>0. G(n) # {}
    <3> HIDE DEF G
    <3> QED BY <1>2
  <2>1. PICK g \in [SUBSET (1..n) -> T] : Solves(g, n)
    BY <2>0
  <2> USE DEF Solves, SolvesFold
  <2> DEFINE h == [s \in SUBSET (1..(n + 1)) |->
                     IF n + 1 \in s THEN step[<<g[s \ {n + 1}], n + 1>>] ELSE g[s]]
  <2>2. \A s \in SUBSET (1..(n + 1)) : s \ {n + 1} \in SUBSET (1..n)
    OBVIOUS
  <2>3. \A s \in SUBSET (1..(n + 1)) : n + 1 \notin s => s \in SUBSET (1..n)
    OBVIOUS
  <2>4. \A s \in SUBSET (1..n) : s \in SUBSET (1..(n + 1)) /\ h[s] = g[s]
    OBVIOUS
  <2>5. h \in [SUBSET (1..(n + 1)) -> T]
    <3>1. ASSUME NEW s \in SUBSET (1..(n + 1)) PROVE h[s] \in T
      <4>1. CASE n + 1 \in s
        <5>1. g[s \ {n + 1}] \in T /\ n + 1 \in 1..N
          BY <2>2
        <5>2. <<g[s \ {n + 1}], n + 1>> \in T \X (1..N)
          BY <5>1
        <5> QED BY <4>1, <5>2
      <4>2. CASE n + 1 \notin s
        BY <2>3, <4>2
      <4> QED BY <4>1, <4>2
    <3> QED BY <3>1
  <2>6. ASSUME NEW s \in SUBSET (1..(n + 1))
        PROVE  h[s] = IF s = {} THEN b ELSE step[<<h[s \ {Scene!Max(s)}], Scene!Max(s)>>]
    <3>1. CASE n + 1 \in s
      <4>1. Scene!Max(s) = n + 1
        BY <3>1, MaxIs
      <4>2. h[s \ {n + 1}] = g[s \ {n + 1}]
        BY <2>2, <2>4
      <4> QED BY <3>1, <4>1, <4>2
    <3>2. CASE n + 1 \notin s
      <4>1. s \in SUBSET (1..n) /\ h[s] = g[s]
        BY <2>3, <3>2
      <4>2. s \ {Scene!Max(s)} \in SUBSET (1..n) /\ h[s \ {Scene!Max(s)}] = g[s \ {Scene!Max(s)}]
        BY <4>1, <2>4
      <4> QED BY <2>1, <4>1, <4>2
    <3> QED BY <3>1, <3>2
  <2> HIDE DEF h
  <2> QED BY <2>5, <2>6
<1>3. Nat \subseteq S
  <2> HIDE DEF S
  <2> QED BY <1>1, <1>2, SetInduction
<1>4. G(N) # {}
  <2> HIDE DEF G
  <2> QED BY <1>3
<1> QED BY <1>4 DEF Solves

\* The values that a solution takes one element after the other
Steps(c, N, b, step) ==
  c[0] = b /\ \A k \in 1..N : c[k] = step[<<c[k - 1], k>>]

\* What is known of a fold before its values are known to be in T
Recurs(g, N, T, b, step) ==
  /\ N \in Nat /\ b \in T /\ step \in [T \X (1..N) -> T]
  /\ g[{}] = b
  /\ \A s \in SUBSET (1..N) : s # {} /\ g[s \ {Scene!Max(s)}] \in T =>
       g[s] = step[<<g[s \ {Scene!Max(s)}], Scene!Max(s)>>]

LEMMA FoldSteps ==
  ASSUME NEW N, NEW T, NEW b, NEW step, NEW g, Recurs(g, N, T, b, step)
  PROVE  \E c \in [0..N -> T] : Steps(c, N, b, step) /\ c[N] = g[1..N]
<1>0. N \in Nat /\ b \in T /\ step \in [T \X (1..N) -> T]
  BY DEF Recurs
<1> DEFINE S == {k \in Nat : k <= N => g[1..k] \in T}
           c == [k \in 0..N |-> g[1..k]]
<1>1. ASSUME NEW k \in 1..N, g[1..(k - 1)] \in T
      PROVE  g[1..k] = step[<<g[1..(k - 1)], k>>] /\ g[1..k] \in T
  <2>1. 1..k \in SUBSET (1..N) /\ 1..k # {} /\ (1..k) \ {k} = 1..(k - 1)
    <3>1. k \in 1..k /\ k \in Nat /\ k <= N
      BY <1>0
    <3>2. \A j : j \in 1..(k - 1) <=> j \in 1..k /\ j # k
      BY <3>1
    <3>3. \A j \in 1..k : j \in 1..N
      BY <1>0, <3>1
    <3> QED BY <3>1, <3>2, <3>3
  <2>2. Scene!Max(1..k) = k
    <3>1. 1..k \in SUBSET Int /\ k \in 1..k /\ \A j \in 1..k : j <= k
      OBVIOUS
    <3> QED BY <3>1, MaxIs
  <2>3. g[1..k] = step[<<g[1..(k - 1)], k>>]
    BY <1>0, <1>1, <2>1, <2>2 DEF Recurs
  <2>4. <<g[1..(k - 1)], k>> \in T \X (1..N)
    BY <1>1
  <2> QED BY <1>0, <2>3, <2>4
<1>2. 0 \in S
  <2>1. 1..0 = {}
    OBVIOUS
  <2> QED BY <1>0, <2>1 DEF Recurs
<1>3. ASSUME NEW k \in Nat, k \in S PROVE k + 1 \in S
  <2> SUFFICES ASSUME k + 1 <= N PROVE g[1..(k + 1)] \in T
    OBVIOUS
  <2>1. k + 1 \in 1..N /\ (k + 1) - 1 = k /\ g[1..k] \in T
    BY <1>0, <1>3
  <2> QED BY <1>1, <2>1
<1>4. Nat \subseteq S
  <2> HIDE DEF S
  <2> QED BY <1>2, <1>3, SetInduction
<1>5. \A k \in 0..N : g[1..k] \in T
  BY <1>0, <1>4
<1>6. c \in [0..N -> T]
  BY <1>5
<1>7. ASSUME NEW k \in 1..N PROVE c[k] = step[<<c[k - 1], k>>]
  <2>1. k - 1 \in 0..N /\ k \in 0..N
    BY <1>0
  <2>2. c[k] = g[1..k] /\ c[k - 1] = g[1..(k - 1)]
    BY <2>1
  <2> HIDE DEF c
  <2> QED BY <1>1, <1>5, <2>1, <2>2
<1>8. c[0] = b /\ c[N] = g[1..N]
  <2>1. 1..0 = {}
    OBVIOUS
  <2> QED BY <1>0, <2>1 DEF Recurs
<1> HIDE DEF c
<1> QED BY <1>6, <1>7, <1>8 DEF Steps

-----------------------------------------------------------------------------
(* Loading, an entity of the file after the other *)

LoadRows(saved) == Scene!FoldLeft(Scene!LoadEntity, <<>>, saved)

LoadOf(t, e) == Scene!LoadEntity(t, e)

LEMMA LoadRowsFold ==
  ASSUME NEW saved
  PROVE  LoadRows(saved) =
           LET g == CHOOSE g : g = [s \in SUBSET DOMAIN saved |->
                      IF s = {} THEN <<>>
                      ELSE LoadOf(g[s \ {Scene!Max(s)}], saved[Scene!Max(s)])]
           IN  g[DOMAIN saved]
BY DEF LoadRows, LoadOf, Scene!FoldLeft, Scene!MapThenFoldSet

StoreOf(store, e, readable) ==
  IF /\ e.kind = "terrain" /\ e.bound
     /\ e.id \in readable
     /\ Scene!Cardinality(DOMAIN store) < TerrainCap
  THEN Scene!Holding(store, e.id, [heights |-> maps[e.id], dirty |-> FALSE])
  ELSE store

LEMMA LoadMapsFold ==
  ASSUME NEW table, NEW readable
  PROVE  Scene!LoadMaps(table, readable) =
           LET g == CHOOSE g : g = [s \in SUBSET DOMAIN table |->
                      IF s = {} THEN Scene!NoMaps
                      ELSE StoreOf(g[s \ {Scene!Max(s)}], table[Scene!Max(s)], readable)]
           IN  g[DOMAIN table]
BY DEF Scene!LoadMaps, StoreOf, Scene!FoldLeft, Scene!MapThenFoldSet

\* What the p-th row is read as, the new one if there is none in t
ReadAt(p, t, e) ==
  Scene!Read(IF p = Len(t) + 1 THEN Scene!NewEntity(Len(t) + 1, "cube") ELSE t[p], e)

\* A row more; the fields go to it, or over an earlier row that has its id.
GoesTo(p, r, t, e) ==
  LET k == Len(t) + 1
  IN  /\ p \in 1..k
      /\ \A i \in 1..k : r[i] = IF i = p THEN ReadAt(p, t, e)
                                ELSE IF i = k THEN Scene!NewEntity(k, "cube") ELSE t[i]
      /\ p = k => k \notin Scene!Ids(t)
      /\ p < k => t[p].id = k

LEMMA LoadOfFacts ==
  ASSUME NEW E, \A u \in E, v \in E : Scene!Read(u, v) \in E,
         NEW t \in Seq(E), NEW e \in E, Scene!NewEntity(Len(t) + 1, "cube") \in E
  PROVE  /\ LoadOf(t, e) \in Seq(E) /\ Len(LoadOf(t, e)) = Len(t) + 1
         /\ \E p : GoesTo(p, LoadOf(t, e), t, e)
<1> DEFINE k == Len(t) + 1
           row == Scene!NewEntity(k, "cube")
           added == Append(t, row)
           p == Scene!IndexOf(added, k)
           f == Scene!Read(added[p], e)
           r == [added EXCEPT ![p] = f]
<1>1. LoadOf(t, e) = r
  BY DEF LoadOf, Scene!LoadEntity
<1>2. k \in Nat \ {0} /\ row \in E /\ row.id = k
  BY DEF Scene!NewEntity
<1> HIDE DEF row
<1>3. /\ added \in Seq(E) /\ Len(added) = k /\ added[k] = row
      /\ \A i \in 1..(k - 1) : added[i] = t[i]
  BY <1>2
<1> HIDE DEF added
<1>4. k \in Scene!Ids(added)
  <2>1. k \in DOMAIN added
    BY <1>2, <1>3
  <2> QED BY <1>2, <1>3, <2>1 DEF Scene!Ids
<1>5. p \in 1..k /\ added[p].id = k /\ \A j \in 1..(p - 1) : added[j].id # k
  BY <1>3, <1>4, IndexFacts
<1> HIDE DEF p
<1>12. f \in E /\ f = ReadAt(p, t, e)
  <2>1. added[p] \in E
    BY <1>3, <1>5
  <2>2. p # k => p \in 1..(k - 1)
    BY <1>2, <1>5
  <2>3. added[p] = IF p = k THEN row ELSE t[p]
    BY <1>3, <2>2
  <2> QED BY <2>1, <2>3 DEF ReadAt, row
<1> HIDE DEF f
<1>6. r \in Seq(E) /\ Len(r) = k /\ \A i \in 1..k : r[i] = IF i = p THEN f ELSE added[i]
  BY <1>2, <1>3, <1>5, <1>12
<1>7. \A i \in 1..k : r[i] = IF i = p THEN f ELSE IF i = k THEN row ELSE t[i]
  <2> HIDE DEF r
  <2>1. \A i \in 1..k : i # k => i \in 1..(k - 1)
    BY <1>2
  <2> QED BY <1>3, <1>6, <2>1
<1>8. p = k => k \notin Scene!Ids(t)
  <2> SUFFICES ASSUME p = k, k \in Scene!Ids(t) PROVE FALSE
    OBVIOUS
  <2>1. PICK i \in 1..(k - 1) : t[i].id = k
    BY DEF Scene!Ids
  <2>2. i \in 1..(p - 1) /\ added[i] = t[i]
    BY <1>3, <2>1
  <2> QED BY <1>5, <2>1, <2>2
<1>9. p < k => t[p].id = k
  <2>1. p < k => p \in 1..(k - 1)
    BY <1>2, <1>5
  <2> QED BY <1>3, <1>5, <2>1
<1> HIDE DEF r
<1>10. LoadOf(t, e) \in Seq(E) /\ Len(LoadOf(t, e)) = k
  BY <1>1, <1>6
<1>11. \A i \in 1..k : LoadOf(t, e)[i] = IF i = p THEN ReadAt(p, t, e)
                                         ELSE IF i = k THEN Scene!NewEntity(k, "cube")
                                         ELSE t[i]
  BY <1>1, <1>7, <1>12 DEF row
<1>13. GoesTo(p, LoadOf(t, e), t, e)
  BY <1>5, <1>8, <1>9, <1>11 DEF GoesTo
<1> QED BY <1>10, <1>13

\* The tables after the entities of the file, one by one
Loading(c, saved) ==
  /\ c[0] = <<>> /\ c[Len(saved)] = LoadRows(saved)
  /\ \A k \in 1..Len(saved) : c[k] = LoadOf(c[k - 1], saved[k])

LEMMA LoadTables ==
  ASSUME NEW E, \A n \in Nat : Scene!NewEntity(n, "cube") \in E,
         \A u \in E, v \in E : Scene!Read(u, v) \in E, NEW saved \in Seq(E)
  PROVE  \E c \in [0..Len(saved) -> Seq(E)] : Loading(c, saved)
<1> DEFINE N == Len(saved)
           T == Seq(E)
           step == [q \in T \X (1..N) |-> LoadOf(q[1], saved[q[2]])]
           Fold(g) == [s \in SUBSET DOMAIN saved |->
                         IF s = {} THEN <<>>
                         ELSE LoadOf(g[s \ {Scene!Max(s)}], saved[Scene!Max(s)])]
           it == CHOOSE g : g = Fold(g)
<1>1. N \in Nat /\ DOMAIN saved = 1..N /\ \A i \in 1..N : saved[i] \in E
  OBVIOUS
<1>2. step \in [T \X (1..N) -> T]
  <2>1. ASSUME NEW q \in T \X (1..N) PROVE LoadOf(q[1], saved[q[2]]) \in T
    <3>1. q[1] \in Seq(E) /\ saved[q[2]] \in E /\ Scene!NewEntity(Len(q[1]) + 1, "cube") \in E
      BY <1>1
    <3> QED BY <3>1, LoadOfFacts
  <2> QED BY <2>1
<1>3. <<>> \in T
  OBVIOUS
<1>4. PICK g \in [SUBSET (1..N) -> T] : SolvesFold(g, N, <<>>, step)
  <2> HIDE DEF step, N, T
  <2> QED BY <1>1, <1>2, <1>3, FoldExists
<1>5. \A s \in SUBSET (1..N) : s # {} => Scene!Max(s) \in s
  <2>1. \A s \in SUBSET (1..N) : s \in SUBSET (0..N)
    BY <1>1
  <2> HIDE DEF N
  <2> QED BY <1>1, <2>1, MaxFacts
<1>6. g = Fold(g)
  <2>1. ASSUME NEW s \in SUBSET (1..N), s # {}
        PROVE  g[s] = LoadOf(g[s \ {Scene!Max(s)}], saved[Scene!Max(s)])
    <3>1. <<g[s \ {Scene!Max(s)}], Scene!Max(s)>> \in T \X (1..N)
      BY <1>5, <2>1
    <3> QED BY <1>4, <2>1, <3>1 DEF SolvesFold
  <2> QED BY <1>1, <1>4, <2>1 DEF SolvesFold
<1>7. it = Fold(it)
  <2> HIDE DEF Fold
  <2> QED BY <1>6
<1>8. LoadRows(saved) = it[1..N]
  BY <1>1, LoadRowsFold
<1> HIDE DEF it
<1>9. it[{}] = <<>>
  BY <1>7
<1>10. ASSUME NEW s \in SUBSET (1..N), s # {}, it[s \ {Scene!Max(s)}] \in T
       PROVE  it[s] = step[<<it[s \ {Scene!Max(s)}], Scene!Max(s)>>]
  <2>1. it[s] = LoadOf(it[s \ {Scene!Max(s)}], saved[Scene!Max(s)])
    BY <1>1, <1>7, <1>10
  <2>2. <<it[s \ {Scene!Max(s)}], Scene!Max(s)>> \in T \X (1..N)
    BY <1>5, <1>10
  <2> QED BY <2>1, <2>2
<1>11. PICK c \in [0..N -> T] : Steps(c, N, <<>>, step) /\ c[N] = it[1..N]
  <2> DEFINE b == <<>>
  <2> HIDE DEF step, N, T
  <2>1. Recurs(it, N, T, b, step)
    BY <1>1, <1>2, <1>3, <1>9, <1>10 DEF Recurs
  <2> HIDE DEF b
  <2>3. \E c \in [0..N -> T] : Steps(c, N, b, step) /\ c[N] = it[1..N]
    BY <2>1, FoldSteps
  <2> QED BY <2>3 DEF b
<1>12. ASSUME NEW k \in 1..N PROVE c[k] = LoadOf(c[k - 1], saved[k])
  <2>1. k - 1 \in 0..N
    BY <1>1
  <2>2. c[k - 1] \in T
    <3> HIDE DEF T, N
    <3> QED BY <1>11, <2>1
  <2>3. <<c[k - 1], k>> \in T \X (1..N)
    BY <2>2
  <2>4. c[k] = step[<<c[k - 1], k>>]
    <3> HIDE DEF T, N, step
    <3> QED BY <1>11 DEF Steps
  <2> QED BY <2>3, <2>4
<1>13. Loading(c, saved)
  BY <1>8, <1>11, <1>12 DEF Loading, Steps
<1> QED BY <1>13

\* The heightmap files that were written to their end
Whole == {id \in DOMAIN maps : maps[id] # Nil}

\* The heightmaps of D, as they are on disk
ReadMaps(D) == [id \in D |-> [heights |-> maps[id], dirty |-> FALSE]]

LEMMA StoreOfFacts ==
  ASSUME NEW D, NEW e, NEW readable \in SUBSET Whole,
         NEW d \in SUBSET (D \cap Whole), e.id \in D
  PROVE  \E r \in SUBSET (D \cap Whole) :
           StoreOf(ReadMaps(d), e, readable) = ReadMaps(r)
<1> DEFINE map == [heights |-> maps[e.id], dirty |-> FALSE]
           r == d \cup {e.id}
<1>1. CASE StoreOf(ReadMaps(d), e, readable) = ReadMaps(d)
  BY <1>1
<1>2. CASE StoreOf(ReadMaps(d), e, readable) # ReadMaps(d)
  <2>1. /\ e.id \in readable
        /\ StoreOf(ReadMaps(d), e, readable) = Scene!Holding(ReadMaps(d), e.id, map)
    BY <1>2 DEF StoreOf
  <2>2. r \in SUBSET (D \cap Whole)
    BY <2>1
  <2>3. DOMAIN ReadMaps(d) = d /\ \A k \in d : ReadMaps(d)[k] = [heights |-> maps[k], dirty |-> FALSE]
    BY DEF ReadMaps
  <2>4. Scene!Holding(ReadMaps(d), e.id, map) = ReadMaps(r)
    <3>1. \A k \in r : (IF k = e.id THEN map ELSE ReadMaps(d)[k])
                        = [heights |-> maps[k], dirty |-> FALSE]
      BY <2>3
    <3>2. Scene!Holding(ReadMaps(d), e.id, map)
            = [k \in r |-> IF k = e.id THEN map ELSE ReadMaps(d)[k]]
      BY <2>3 DEF Scene!Holding
    <3> HIDE DEF r, map
    <3> QED BY <3>1, <3>2 DEF ReadMaps
  <2> QED BY <2>1, <2>2, <2>4
<1> QED BY <1>1, <1>2

LEMMA LoadMapsFacts ==
  ASSUME NEW S, NEW table \in Seq(S), NEW readable \in SUBSET Whole
  PROVE  \E r \in SUBSET (Scene!Ids(table) \cap Whole) :
           Scene!LoadMaps(table, readable) = ReadMaps(r)
<1> DEFINE N == Len(table)
           D == Scene!Ids(table)
           T == {ReadMaps(d) : d \in SUBSET (D \cap Whole)}
           b == Scene!NoMaps
           step == [q \in T \X (1..N) |-> StoreOf(q[1], table[q[2]], readable)]
           Fold(g) == [s \in SUBSET DOMAIN table |->
                         IF s = {} THEN Scene!NoMaps
                         ELSE StoreOf(g[s \ {Scene!Max(s)}], table[Scene!Max(s)], readable)]
           it == CHOOSE g : g = Fold(g)
<1>1. N \in Nat /\ DOMAIN table = 1..N /\ \A i \in 1..N : table[i].id \in D
  BY DEF Scene!Ids
<1>2. step \in [T \X (1..N) -> T]
  <2>1. ASSUME NEW q \in T \X (1..N) PROVE StoreOf(q[1], table[q[2]], readable) \in T
    <3>1. PICK d \in SUBSET (D \cap Whole) : q[1] = ReadMaps(d)
      OBVIOUS
    <3>2. table[q[2]].id \in D
      BY <1>1
    <3> HIDE DEF D
    <3>3. PICK r \in SUBSET (D \cap Whole) :
            StoreOf(ReadMaps(d), table[q[2]], readable) = ReadMaps(r)
      BY <3>2, StoreOfFacts
    <3> QED BY <3>1, <3>3
  <2> HIDE DEF T
  <2> QED BY <2>1
<1>3. b \in T
  <2>1. {} \in SUBSET (D \cap Whole) /\ b = ReadMaps({})
    BY DEF Scene!NoMaps, ReadMaps
  <2> QED BY <2>1
<1> HIDE DEF T, D
<1>4. PICK g \in [SUBSET (1..N) -> T] : SolvesFold(g, N, b, step)
  <2> HIDE DEF step, N, b
  <2> QED BY <1>1, <1>2, <1>3, FoldExists
<1>5. \A s \in SUBSET (1..N) : s # {} => Scene!Max(s) \in s
  <2>1. \A s \in SUBSET (1..N) : s \in SUBSET (0..N)
    BY <1>1
  <2> HIDE DEF N
  <2> QED BY <1>1, <2>1, MaxFacts
<1>6. g = Fold(g)
  <2>1. ASSUME NEW s \in SUBSET (1..N), s # {}
        PROVE  g[s] = StoreOf(g[s \ {Scene!Max(s)}], table[Scene!Max(s)], readable)
    <3>1. <<g[s \ {Scene!Max(s)}], Scene!Max(s)>> \in T \X (1..N)
      BY <1>5, <2>1
    <3> QED BY <1>4, <2>1, <3>1 DEF SolvesFold
  <2> QED BY <1>1, <1>4, <2>1 DEF SolvesFold
<1>7. it = Fold(it)
  <2> HIDE DEF Fold
  <2> QED BY <1>6
<1>8. Scene!LoadMaps(table, readable) = it[1..N]
  BY <1>1, LoadMapsFold
<1> HIDE DEF it
<1>9. it[{}] = b
  BY <1>7
<1>10. ASSUME NEW s \in SUBSET (1..N), s # {}, it[s \ {Scene!Max(s)}] \in T
       PROVE  it[s] = step[<<it[s \ {Scene!Max(s)}], Scene!Max(s)>>]
  <2>1. it[s] = StoreOf(it[s \ {Scene!Max(s)}], table[Scene!Max(s)], readable)
    BY <1>1, <1>7, <1>10
  <2>2. <<it[s \ {Scene!Max(s)}], Scene!Max(s)>> \in T \X (1..N)
    BY <1>5, <1>10
  <2> QED BY <2>1, <2>2
<1>11. it[1..N] \in T
  <2> HIDE DEF step, N, b
  <2>1. Recurs(it, N, T, b, step)
    BY <1>1, <1>2, <1>3, <1>9, <1>10 DEF Recurs
  <2>2. PICK c \in [0..N -> T] : Steps(c, N, b, step) /\ c[N] = it[1..N]
    BY <2>1, FoldSteps
  <2>3. N \in 0..N
    BY <1>1
  <2> QED BY <2>2, <2>3
<1> QED BY <1>8, <1>11 DEF T, D

-----------------------------------------------------------------------------
(* Tables *)

Colours == [1..3 -> Nat]

Entities == [id : Nat, parent : Nat, kind : Scene!Kinds, bound : BOOLEAN,
             color : Colours, rot : Rotations]

Distinct(t) == \A i, j \in 1..Len(t) : t[i].id = t[j].id => i = j

\* Distinct entities with ids up to n, their parents among them
IsTable(t, n) ==
  /\ t \in Seq(Entities) /\ Distinct(t)
  /\ \A i \in 1..Len(t) : t[i].parent \in Scene!Ids(t) \cup {0}
  /\ n \in Nat /\ Scene!Ids(t) \subseteq 1..n

\* b is the parent of a.
Linked(t, a, b) == \E i \in 1..Len(t) : t[i].id = a /\ t[i].parent = b

\* A way of n parents from c[0] back to it
Ring(t, c, n) ==
  c[n] = c[0] /\ \A k \in 0..(n - 1) : Linked(t, c[k], c[k + 1])

\* No way back is as short as the search for a descendant.
NoRing(t) == \A n \in 1..Guard : \A c : ~Ring(t, c, n)

\* The rows of t are rows of old, which may have lost their parent.
Descends(t, old) ==
  \A j \in 1..Len(t) : \E i \in 1..Len(old) :
    t[j].id = old[i].id /\ t[j].parent \in {old[i].parent, 0}

LEMMA IdsFacts ==
  ASSUME NEW S, NEW t \in Seq(S)
  PROVE  /\ \A i \in 1..Len(t) : t[i].id \in Scene!Ids(t)
         /\ \A id \in Scene!Ids(t) : \E i \in 1..Len(t) : t[i].id = id
<1>1. DOMAIN t = 1..Len(t)
  OBVIOUS
<1> QED BY <1>1 DEF Scene!Ids

LEMMA NewEntityFacts ==
  ASSUME NEW n \in Nat, NEW kind \in Scene!Kinds
  PROVE  /\ Scene!NewEntity(n, kind) \in Entities
         /\ Scene!NewEntity(n, kind).id = n /\ Scene!NewEntity(n, kind).parent = 0
<1>1. Scene!NoColour \in Colours /\ Upright \in Rotations
  BY SceneAssumption DEF Scene!NoColour, Scene!Grey, Colours
<1> QED BY <1>1 DEF Scene!NewEntity, Entities

LEMMA SetCompFacts ==
  ASSUME NEW color \in Colours, NEW c, NEW v \in Nat
  PROVE  Scene!SetComp(color, c, v) \in Colours
BY DEF Scene!SetComp, Scene!Grey, Colours

\* What an entity's lines make of a row: all of it but colour and rotation is
\* the entity's, and these depend on those of the row alone.
LEMMA ReadFacts ==
  ASSUME NEW row \in Entities, NEW e \in Entities
  PROVE  LET r == Scene!Read(row, e)
         IN  /\ r \in Entities
             /\ <<r.id, r.parent, r.kind, r.bound>> = <<e.id, e.parent, e.kind, e.bound>>
             /\ \A other \in Entities :
                  other.color = row.color /\ other.rot = row.rot => Scene!Read(other, e) = r
<1> DEFINE color == Scene!ReadColour(row.color, e.color)
           rot == Renormalised[<<row.rot, e.rot>>]
<1>1. row.color \in Colours /\ e.color \in Colours /\ row.rot \in Rotations /\ e.rot \in Rotations
  BY DEF Entities
<1>2. color \in Colours
  <2>1. e.color[1] \in Nat /\ e.color[2] \in Nat /\ e.color[3] \in Nat
    BY <1>1 DEF Colours
  <2> QED BY <1>1, <2>1, SetCompFacts DEF Scene!ReadColour
<1>3. rot \in Rotations
  BY <1>1, SceneAssumption
<1>4. Scene!Read(row, e) = [e EXCEPT !.color = color, !.rot = rot]
  BY DEF Scene!Read
<1>5. \A other \in Entities : other.color = row.color /\ other.rot = row.rot =>
        Scene!Read(other, e) = Scene!Read(row, e)
  BY DEF Scene!Read
<1> HIDE DEF color, rot
<1> QED BY <1>2, <1>3, <1>4, <1>5 DEF Entities

\* With no other parents than before there are no other ways back.
LEMMA FewerParents ==
  ASSUME NEW t, NEW old, NoRing(old), \A a : ~Linked(t, 0, a),
         \A a, b : b # 0 /\ Linked(t, a, b) => Linked(old, a, b)
  PROVE  NoRing(t)
<1> SUFFICES ASSUME NEW n \in 1..Guard, NEW c, Ring(t, c, n) PROVE FALSE
  BY DEF NoRing
<1>0. n \in Nat \ {0}
  BY SceneAssumption
<1>1. c[n] = c[0] /\ \A k \in 0..(n - 1) : Linked(t, c[k], c[k + 1])
  BY DEF Ring
<1>2. \A k \in 0..(n - 1) : c[k] # 0
  BY <1>1
<1>3. \A k \in 0..(n - 1) : c[k + 1] # 0
  <2> TAKE k \in 0..(n - 1)
  <2>1. CASE k + 1 = n
    <3>1. 0 \in 0..(n - 1)
      BY <1>0
    <3> QED BY <1>1, <1>2, <2>1, <3>1
  <2>2. CASE k + 1 # n
    <3>1. k + 1 \in 0..(n - 1)
      BY <1>0, <2>2
    <3> QED BY <1>2, <3>1
  <2> QED BY <2>1, <2>2
<1>4. Ring(old, c, n)
  BY <1>1, <1>3 DEF Ring
<1> QED BY <1>4 DEF NoRing

LEMMA NobodyBelow ==
  ASSUME NEW n, NEW t, IsTable(t, n)
  PROVE  \A a : ~Linked(t, 0, a)
<1>1. \A i \in 1..Len(t) : t[i].id # 0
  BY IdsFacts DEF IsTable
<1> QED BY <1>1 DEF Linked

LEMMA DescendsNoRing ==
  ASSUME NEW n, NEW t, NEW old, IsTable(t, n), Descends(t, old), NoRing(old)
  PROVE  NoRing(t)
<1>1. \A a, b : b # 0 /\ Linked(t, a, b) => Linked(old, a, b)
  BY DEF Linked, Descends
<1> QED BY <1>1, NobodyBelow, FewerParents

\* scene_find and a new value of its fields
LEMMA UpdateFacts ==
  ASSUME NEW n, NEW t, IsTable(t, n), NEW id \in Scene!Ids(t),
         NEW e \in Entities, e.id = id
  PROVE  LET r == [t EXCEPT ![Scene!IndexOf(t, id)] = e]
         IN  /\ r \in Seq(Entities) /\ Len(r) = Len(t) /\ Distinct(r)
             /\ Scene!Ids(r) = Scene!Ids(t)
             /\ \E p \in 1..Len(t) :
                  /\ p = Scene!IndexOf(t, id) /\ t[p].id = id
                  /\ \A i \in 1..Len(t) : r[i] = IF i = p THEN e ELSE t[i]
<1> DEFINE p == Scene!IndexOf(t, id)
           r == [t EXCEPT ![p] = e]
<1>1. t \in Seq(Entities) /\ Distinct(t) /\ Len(t) \in Nat
  BY DEF IsTable
<1>2. p \in 1..Len(t) /\ t[p].id = id
  BY <1>1, IndexFacts
<1> HIDE DEF p
<1>3. r \in Seq(Entities) /\ Len(r) = Len(t)
  BY <1>1, <1>2
<1>4. \A i \in 1..Len(t) : r[i] = IF i = p THEN e ELSE t[i]
  BY <1>1, <1>2
<1> HIDE DEF r
<1>5. \A i \in 1..Len(t) : r[i].id = t[i].id
  BY <1>2, <1>4
<1>6. Distinct(r)
  BY <1>1, <1>3, <1>5 DEF Distinct
<1>7. DOMAIN r = 1..Len(t) /\ DOMAIN t = 1..Len(t)
  BY <1>1, <1>3
<1>8. Scene!Ids(r) = Scene!Ids(t)
  BY <1>5, <1>7 DEF Scene!Ids
<1> QED BY <1>2, <1>3, <1>4, <1>6, <1>8 DEF r, p

\* scene_add
LEMMA AddFacts ==
  ASSUME NEW n, NEW t, IsTable(t, n), NEW kind \in Scene!Kinds
  PROVE  LET r == Append(t, Scene!NewEntity(n + 1, kind))
         IN  /\ IsTable(r, n + 1) /\ Len(r) = Len(t) + 1
             /\ Scene!Ids(r) = Scene!Ids(t) \cup {n + 1}
             /\ NoRing(t) => NoRing(r)
<1> DEFINE e == Scene!NewEntity(n + 1, kind)
           r == Append(t, e)
           m == Len(t)
<1>1. t \in Seq(Entities) /\ Distinct(t) /\ m \in Nat /\ n \in Nat /\ Scene!Ids(t) \subseteq 1..n
  BY DEF IsTable
<1>2. e \in Entities /\ e.id = n + 1 /\ e.parent = 0
  BY <1>1, NewEntityFacts
<1> HIDE DEF e
<1>3. r \in Seq(Entities) /\ Len(r) = m + 1 /\ r[m + 1] = e /\ \A i \in 1..m : r[i] = t[i]
  BY <1>1, <1>2
<1> HIDE DEF r
<1>4. \A i \in 1..(m + 1) : i = m + 1 \/ i \in 1..m
  BY <1>1
<1>5. \A i \in 1..m : t[i].id \in 1..n /\ t[i].id # n + 1
  BY <1>1, IdsFacts
<1>6. Distinct(r)
  <2> SUFFICES ASSUME NEW i \in 1..(m + 1), NEW j \in 1..(m + 1), r[i].id = r[j].id
               PROVE  i = j
    BY <1>3 DEF Distinct
  <2>1. CASE i = m + 1 /\ j = m + 1
    BY <2>1
  <2>2. CASE i = m + 1 /\ j \in 1..m
    BY <1>2, <1>3, <1>5, <2>2
  <2>3. CASE i \in 1..m /\ j = m + 1
    BY <1>2, <1>3, <1>5, <2>3
  <2>4. CASE i \in 1..m /\ j \in 1..m
    BY <1>1, <1>3, <2>4 DEF Distinct
  <2> QED BY <1>4, <2>1, <2>2, <2>3, <2>4
<1>7. Scene!Ids(r) = Scene!Ids(t) \cup {n + 1}
  <2>1. ASSUME NEW id \in Scene!Ids(r) PROVE id \in Scene!Ids(t) \cup {n + 1}
    <3>1. PICK i \in 1..(m + 1) : r[i].id = id
      BY <1>3, IdsFacts
    <3> QED BY <1>1, <1>2, <1>3, <1>4, <3>1, IdsFacts
  <2>2. ASSUME NEW id \in Scene!Ids(t) PROVE id \in Scene!Ids(r)
    <3>1. PICK i \in 1..m : t[i].id = id
      BY <1>1, IdsFacts
    <3>2. i \in 1..(m + 1) /\ r[i].id = id
      BY <1>1, <1>3, <3>1
    <3> QED BY <1>3, <3>2, IdsFacts
  <2>3. n + 1 \in Scene!Ids(r)
    <3>1. m + 1 \in 1..(m + 1)
      BY <1>1
    <3> QED BY <1>2, <1>3, <3>1, IdsFacts
  <2> QED BY <2>1, <2>2, <2>3
<1>8. \A i \in 1..(m + 1) : r[i].parent \in Scene!Ids(r) \cup {0}
  BY <1>2, <1>3, <1>4, <1>7 DEF IsTable
<1>9. IsTable(r, n + 1)
  <2>1. n + 1 \in Nat /\ Scene!Ids(r) \subseteq 1..(n + 1)
    BY <1>1, <1>7
  <2> QED BY <1>3, <1>6, <1>8, <2>1 DEF IsTable
<1>10. ASSUME NoRing(t) PROVE NoRing(r)
  <2>1. ASSUME NEW a, NEW b, b # 0, Linked(r, a, b) PROVE Linked(t, a, b)
    <3>1. PICK i \in 1..(m + 1) : r[i].id = a /\ r[i].parent = b
      BY <1>3, <2>1 DEF Linked
    <3>2. i \in 1..m /\ r[i] = t[i]
      BY <1>2, <1>3, <1>4, <2>1, <3>1
    <3> QED BY <3>1, <3>2 DEF Linked
  <2> HIDE DEF m
  <2> QED BY <1>9, <1>10, <2>1, NobodyBelow, FewerParents
<1> QED BY <1>3, <1>7, <1>9, <1>10 DEF r, e

\* scene_remove
Removed(t, id) ==
  LET left == Scene!Front([t EXCEPT ![Scene!IndexOf(t, id)] = Scene!Last(t)])
  IN  [i \in DOMAIN left |-> Scene!Orphaned(left[i], id)]

LEMMA OrphanedFacts ==
  ASSUME NEW e \in Entities, NEW id
  PROVE  LET o == Scene!Orphaned(e, id)
         IN  o \in Entities /\ o.id = e.id /\ o.parent = IF e.parent = id THEN 0 ELSE e.parent
BY DEF Scene!Orphaned, Entities

LEMMA RemovedFacts ==
  ASSUME NEW n, NEW t, IsTable(t, n), NEW id \in Scene!Ids(t)
  PROVE  LET r == Removed(t, id)
         IN  /\ IsTable(r, n) /\ Len(r) = Len(t) - 1
             /\ Scene!Ids(r) = Scene!Ids(t) \ {id} /\ Descends(r, t)
<1> DEFINE p == Scene!IndexOf(t, id)
           m == Len(t)
           s == [t EXCEPT ![p] = Scene!Last(t)]
           left == Scene!Front(s)
           r == [i \in DOMAIN left |-> Scene!Orphaned(left[i], id)]
           From(i) == IF i = p THEN m ELSE i
<1>1. /\ t \in Seq(Entities) /\ Distinct(t) /\ m \in Nat /\ n \in Nat
      /\ Scene!Ids(t) \subseteq 1..n /\ \A i \in 1..m : t[i] \in Entities
  BY DEF IsTable
<1>2. p \in 1..m /\ t[p].id = id
  BY <1>1, IndexFacts
<1> HIDE DEF p
<1>3. s \in Seq(Entities) /\ Len(s) = m /\ \A i \in 1..m : s[i] = t[From(i)]
  BY <1>1, <1>2 DEF Scene!Last
<1> HIDE DEF s
<1>4. left \in Seq(Entities) /\ Len(left) = m - 1 /\ \A i \in 1..(m - 1) : left[i] = t[From(i)]
  <2>1. left = SubSeq(s, 1, m - 1) /\ m - 1 \in 0..m
    BY <1>1, <1>2, <1>3 DEF Scene!Front
  <2>2. \A i \in 1..(m - 1) : i \in 1..m /\ s[i] = t[From(i)]
    BY <1>1, <1>3
  <2>3. left \in Seq(Entities) /\ Len(left) = m - 1 /\ \A i \in 1..(m - 1) : left[i] = s[i]
    <3> HIDE DEF m, left
    <3> QED BY <1>1, <1>3, <2>1
  <2> QED BY <2>2, <2>3
<1> HIDE DEF left
<1>5. DOMAIN left = 1..(m - 1)
  BY <1>4
<1>6. \A i \in 1..(m - 1) : From(i) \in 1..m /\ From(i) # p
  BY <1>1, <1>2
<1>7. \A i, j \in 1..(m - 1) : From(i) = From(j) => i = j
  BY <1>1, <1>2
<1>8. \A k \in 1..m : k # p => \E i \in 1..(m - 1) : From(i) = k
  <2> TAKE k \in 1..m
  <2> HAVE k # p
  <2>1. CASE k = m
    <3>1. p \in 1..(m - 1) /\ From(p) = k
      BY <1>1, <1>2, <2>1
    <3> QED BY <3>1
  <2>2. CASE k # m
    <3>1. k \in 1..(m - 1) /\ From(k) = k
      BY <1>1, <2>2
    <3> QED BY <3>1
  <2> QED BY <2>1, <2>2
<1> HIDE DEF From
<1>9. \A i \in 1..(m - 1) :
        /\ r[i] \in Entities /\ r[i].id = t[From(i)].id
        /\ r[i].parent = IF t[From(i)].parent = id THEN 0 ELSE t[From(i)].parent
  <2> TAKE i \in 1..(m - 1)
  <2>1. r[i] = Scene!Orphaned(t[From(i)], id)
    BY <1>4, <1>5
  <2>2. t[From(i)] \in Entities
    BY <1>1, <1>6
  <2> HIDE DEF r
  <2> QED BY <2>1, <2>2, OrphanedFacts
<1>10. r \in Seq(Entities) /\ Len(r) = m - 1
  <2>1. r = [i \in 1..(m - 1) |-> r[i]] /\ m - 1 \in Nat
    BY <1>1, <1>2, <1>5
  <2> HIDE DEF r
  <2> QED BY <1>9, <2>1
<1> HIDE DEF r
<1>11. Distinct(r)
  <2> SUFFICES ASSUME NEW i \in 1..(m - 1), NEW j \in 1..(m - 1), r[i].id = r[j].id
               PROVE  i = j
    BY <1>10 DEF Distinct
  <2>1. From(i) = From(j)
    BY <1>1, <1>6, <1>9 DEF Distinct
  <2> QED BY <1>7, <2>1
<1>12. Scene!Ids(r) = Scene!Ids(t) \ {id}
  <2>1. ASSUME NEW k \in Scene!Ids(r) PROVE k \in Scene!Ids(t) \ {id}
    <3>1. PICK i \in 1..(m - 1) : r[i].id = k
      BY <1>10, IdsFacts
    <3>2. From(i) \in 1..m /\ t[From(i)].id = k /\ From(i) # p
      BY <1>6, <1>9, <3>1
    <3>3. k # id
      BY <1>1, <1>2, <3>2 DEF Distinct
    <3> QED BY <1>1, <3>2, <3>3, IdsFacts
  <2>2. ASSUME NEW k \in Scene!Ids(t), k # id PROVE k \in Scene!Ids(r)
    <3>1. PICK j \in 1..m : t[j].id = k
      BY <1>1, IdsFacts
    <3>2. j # p
      BY <1>2, <2>2, <3>1
    <3>3. PICK i \in 1..(m - 1) : From(i) = j
      BY <1>8, <3>2
    <3>4. r[i].id = k
      BY <1>9, <3>1, <3>3
    <3> QED BY <1>10, <3>4, IdsFacts
  <2> QED BY <2>1, <2>2
<1>13. \A i \in 1..(m - 1) : r[i].parent \in Scene!Ids(r) \cup {0}
  <2> TAKE i \in 1..(m - 1)
  <2>1. t[From(i)].parent \in Scene!Ids(t) \cup {0}
    BY <1>6 DEF IsTable
  <2> QED BY <1>9, <1>12, <2>1
<1>14. IsTable(r, n)
  BY <1>1, <1>10, <1>11, <1>12, <1>13 DEF IsTable
<1>15. Descends(r, t)
  <2>1. ASSUME NEW j \in 1..(m - 1)
        PROVE  \E i \in 1..m : r[j].id = t[i].id /\ r[j].parent \in {t[i].parent, 0}
    BY <1>6, <1>9
  <2> QED BY <1>10, <2>1 DEF Descends
<1>16. r = Removed(t, id)
  BY DEF r, left, s, p, Removed
<1> QED BY <1>10, <1>12, <1>14, <1>15, <1>16

\* What the entity of the i-th row of the file is in r, with k rows read
CameBack(saved, i, k, r) ==
  LET e == saved[i]
  IN  /\ r.id = e.id
      /\ IF e.id \in (i + 1)..k THEN r = Scene!NewEntity(e.id, "cube")
         ELSE /\ r.parent = e.parent /\ r.kind = e.kind /\ r.bound = e.bound
              /\ \/ \E j \in 1..(i - 1) : saved[j].id = i
                 \/ r = Scene!Read(Scene!NewEntity(e.id, "cube"), e)

\* What the table of k rows has taken over from the file
Taken(t, saved, k) ==
  /\ t \in Seq(Entities) /\ Len(t) = k /\ Distinct(t)
  /\ \A i \in 1..k : saved[i].id \in Scene!Ids(t)
  /\ \A j \in 1..k : \E i \in 1..k :
       t[j].id = saved[i].id /\ t[j].parent \in {saved[i].parent, 0}
  /\ \A i \in 1..k : \E j \in 1..k : CameBack(saved, i, k, t[j])

LEMMA TakenStep ==
  ASSUME NEW n, NEW saved, IsTable(saved, n), NEW k \in Nat, k + 1 \in 1..Len(saved),
         NEW t, Taken(t, saved, k)
  PROVE  Taken(LoadOf(t, saved[k + 1]), saved, k + 1)
<1> DEFINE N == Len(saved)
           K == k + 1
           e == saved[K]
           row == Scene!NewEntity(K, "cube")
           r == LoadOf(t, e)
           f(p) == Scene!Read(IF p = K THEN row ELSE t[p], e)
<1>1. /\ N \in Nat /\ K \in 1..N /\ Distinct(saved) /\ saved \in Seq(Entities)
      /\ \A i \in 1..N : saved[i] \in Entities
  BY DEF IsTable
<1>2. /\ t \in Seq(Entities) /\ Len(t) = k /\ Distinct(t) /\ K = Len(t) + 1 /\ e \in Entities
  BY <1>1 DEF Taken
<1>3. row \in Entities /\ row.id = K /\ row.parent = 0
  <2>1. K \in Nat /\ "cube" \in Scene!Kinds
    BY DEF Scene!Kinds
  <2> QED BY <2>1, NewEntityFacts
<1>4. /\ r \in Seq(Entities) /\ Len(r) = K
      /\ \E p \in 1..K :
           /\ \A i \in 1..K : r[i] = IF i = p THEN f(p) ELSE IF i = K THEN row ELSE t[i]
           /\ p = K => K \notin Scene!Ids(t)
           /\ p < K => t[p].id = K
  <2> HIDE DEF e
  <2>1. Scene!NewEntity(Len(t) + 1, "cube") \in Entities /\ Len(t) + 1 = K
    BY <1>2, <1>3
  <2>2. /\ LoadOf(t, e) \in Seq(Entities) /\ Len(LoadOf(t, e)) = Len(t) + 1
        /\ \E p : GoesTo(p, LoadOf(t, e), t, e)
    BY <1>2, <2>1, ReadFacts, LoadOfFacts
  <2>3. PICK p : GoesTo(p, LoadOf(t, e), t, e)
    BY <2>2
  <2> QED BY <2>1, <2>2, <2>3 DEF GoesTo, ReadAt
<1>5. PICK p \in 1..K :
           /\ \A i \in 1..K : r[i] = IF i = p THEN f(p) ELSE IF i = K THEN row ELSE t[i]
           /\ p = K => K \notin Scene!Ids(t)
           /\ p < K => t[p].id = K
  BY <1>4
<1>6. \A i \in 1..K : i \in 1..k \/ i = K
  OBVIOUS
<1>7. \A i \in 1..k : i \in 1..K /\ i \in 1..N /\ i # K
  BY <1>1
<1>17. /\ f(p) \in Entities /\ f(p).id = e.id
       /\ <<f(p).parent, f(p).kind, f(p).bound>> = <<e.parent, e.kind, e.bound>>
  <2> DEFINE under == IF p = K THEN row ELSE t[p]
  <2>1. p # K => p \in 1..k
    BY <1>5, <1>6
  <2>2. under \in Entities
    BY <1>2, <1>3, <2>1
  <2> HIDE DEF under, e
  <2>3. LET q == Scene!Read(under, e)
        IN  q \in Entities /\ <<q.id, q.parent, q.kind, q.bound>> = <<e.id, e.parent, e.kind, e.bound>>
    BY <1>2, <2>2, ReadFacts
  <2> QED BY <2>3 DEF under
<1>18. f(K) = Scene!Read(Scene!NewEntity(e.id, "cube"), e)
  <2> DEFINE fresh == Scene!NewEntity(e.id, "cube")
  <2>1. fresh \in Entities /\ fresh.color = row.color /\ fresh.rot = row.rot
    <3>1. e.id \in Nat /\ "cube" \in Scene!Kinds
      BY <1>2 DEF Entities, Scene!Kinds
    <3> QED BY <3>1, NewEntityFacts DEF Scene!NewEntity
  <2> HIDE DEF fresh, row, e
  <2>2. Scene!Read(fresh, e) = Scene!Read(row, e)
    BY <1>2, <1>3, <2>1, ReadFacts
  <2> QED BY <2>2 DEF fresh
<1> HIDE DEF r, row, f
<1>8. \A j \in 1..k : t[j].id # e.id
  <2> TAKE j \in 1..k
  <2>1. PICK i \in 1..k : t[j].id = saved[i].id
    BY DEF Taken
  <2> QED BY <1>1, <1>7, <2>1 DEF Distinct
<1> HIDE DEF e, K
<1>9. \A j \in 1..k : j # p => t[j].id # K
  <2> TAKE j \in 1..k
  <2> HAVE j # p
  <2>1. CASE p = K
    BY <1>2, <1>5, <2>1, IdsFacts
  <2>2. CASE p # K
    <3>1. p \in 1..k /\ t[p].id = K
      BY <1>2, <1>5, <1>6, <2>2 DEF K
    <3> QED BY <1>2, <3>1 DEF Distinct
  <2> QED BY <2>1, <2>2
<1>10. Distinct(r)
  <2> SUFFICES ASSUME NEW i \in 1..K, NEW j \in 1..K, i # j PROVE r[i].id # r[j].id
    BY <1>4 DEF Distinct
  <2>0. p < K => e.id # K
    BY <1>5, <1>6, <1>8, <1>2 DEF K
  <2>1. ASSUME NEW a \in 1..K, NEW b \in 1..k, b # p, a # b PROVE r[a].id # r[b].id
    <3>1. r[b] = t[b]
      BY <1>5, <1>7, <2>1
    <3>2. CASE a = p
      BY <1>5, <1>8, <1>17, <2>1, <3>1, <3>2
    <3>3. CASE a # p /\ a = K
      BY <1>3, <1>5, <1>9, <2>1, <3>1, <3>3
    <3>4. CASE a # p /\ a # K
      BY <1>2, <1>5, <1>6, <2>1, <3>1, <3>4 DEF Distinct
    <3> QED BY <3>2, <3>3, <3>4
  <2>2. CASE j \in 1..k /\ j # p
    BY <2>1, <2>2
  <2>3. CASE i \in 1..k /\ i # p
    BY <2>1, <2>3
  <2>4. CASE i = p /\ j = K
    <3>1. p < K /\ r[i] = f(p) /\ r[j] = row
      BY <1>5, <2>4, <1>2
    <3> QED BY <1>3, <1>17, <2>0, <3>1
  <2>5. CASE i = K /\ j = p
    <3>1. p < K /\ r[j] = f(p) /\ r[i] = row
      BY <1>5, <2>5, <1>2
    <3> QED BY <1>3, <1>17, <2>0, <3>1
  <2> QED BY <1>6, <2>2, <2>3, <2>4, <2>5
<1>11. \A id \in Scene!Ids(t) \cup {e.id} : id \in Scene!Ids(r)
  <2>1. e.id \in Scene!Ids(r)
    BY <1>4, <1>5, <1>17, IdsFacts
  <2>2. ASSUME NEW id \in Scene!Ids(t) PROVE id \in Scene!Ids(r)
    <3>1. PICK j \in 1..k : t[j].id = id
      BY <1>2, IdsFacts
    <3>2. CASE j # p
      <4>1. j \in 1..K /\ r[j].id = id
        BY <1>5, <1>7, <3>1, <3>2
      <4> QED BY <1>4, <4>1, IdsFacts
    <3>3. CASE j = p
      <4>1. K \in 1..K /\ K # p /\ id = K /\ r[K] = row
        BY <1>2, <1>5, <1>7, <3>1, <3>3
      <4> QED BY <1>3, <1>4, <4>1, IdsFacts
    <3> QED BY <3>2, <3>3
  <2> QED BY <2>1, <2>2
<1>12. \A i \in 1..K : saved[i].id \in Scene!Ids(r)
  BY <1>6, <1>11 DEF Taken, e
<1>13. ASSUME NEW j \in 1..K
       PROVE  \E i \in 1..K : r[j].id = saved[i].id /\ r[j].parent \in {saved[i].parent, 0}
  <2>1. CASE j = p
    <3>1. K \in 1..K /\ r[j] = f(p)
      BY <1>2, <1>5, <2>1
    <3>2. r[j].id = saved[K].id /\ r[j].parent = saved[K].parent
      BY <1>17, <3>1 DEF e
    <3> QED BY <3>1, <3>2
  <2>2. CASE j # p /\ j = K
    <3>1. p \in 1..k /\ t[p].id = K /\ r[j] = row
      BY <1>2, <1>5, <1>6, <2>2
    <3>2. PICK i \in 1..k : t[p].id = saved[i].id
      BY <3>1 DEF Taken
    <3>3. i \in 1..K /\ r[j].id = saved[i].id /\ r[j].parent = 0
      BY <1>3, <1>7, <3>1, <3>2
    <3> QED BY <3>3
  <2>3. CASE j # p /\ j # K
    <3>1. j \in 1..k /\ r[j] = t[j]
      BY <1>5, <1>6, <2>3
    <3>2. PICK i \in 1..k : t[j].id = saved[i].id /\ t[j].parent \in {saved[i].parent, 0}
      BY <3>1 DEF Taken
    <3> QED BY <1>7, <3>1, <3>2
  <2> QED BY <2>1, <2>2, <2>3
<1>14. ASSUME NEW i \in 1..K PROVE \E j \in 1..K : CameBack(saved, i, K, r[j])
  <2>1. CASE i = K
    <3>1. e.id \notin (i + 1)..K
      BY <1>2, <2>1
    <3>2. p # K => \E j \in 1..(i - 1) : saved[j].id = i
      <4> SUFFICES ASSUME p # K PROVE \E j \in 1..(i - 1) : saved[j].id = i
        OBVIOUS
      <4>1. p \in 1..k /\ t[p].id = K
        BY <1>2, <1>5, <1>6
      <4>2. PICK j \in 1..k : t[p].id = saved[j].id
        BY <4>1 DEF Taken
      <4>3. j \in 1..(i - 1)
        BY <1>7, <2>1, <4>2 DEF K
      <4> QED BY <2>1, <4>1, <4>2, <4>3
    <3>3. CameBack(saved, i, K, f(p))
      BY <1>17, <1>18, <2>1, <3>1, <3>2 DEF CameBack, e
    <3> QED BY <1>5, <3>3
  <2>2. CASE i # K
    <3>1. i \in 1..k /\ i \in 1..N
      BY <1>6, <1>7, <2>2
    <3>2. PICK j \in 1..k : CameBack(saved, i, k, t[j])
      BY <3>1 DEF Taken
    <3>3. t[j].id = saved[i].id
      BY <3>2 DEF CameBack
    <3>4. CASE saved[i].id = K
      <4>1. p # K
        BY <1>2, <1>5, <3>3, <3>4, IdsFacts
      <4>2. K \in 1..K /\ r[K] = row
        BY <1>5, <1>6, <1>2, <4>1
      <4>3. K \in (i + 1)..K
        BY <3>1, <1>2
      <4>4. CameBack(saved, i, K, row)
        BY <1>3, <3>4, <4>3 DEF CameBack, row
      <4> QED BY <4>2, <4>4
    <3>5. CASE saved[i].id # K
      <4>1. j # p
        <5>1. CASE p = K
          BY <1>7, <5>1
        <5>2. CASE p # K
          BY <1>2, <1>5, <1>6, <3>3, <3>5, <5>2
        <5> QED BY <5>1, <5>2
      <4>2. j \in 1..K /\ r[j] = t[j]
        BY <1>5, <1>7, <4>1
      <4>3. saved[i].id \in (i + 1)..K <=> saved[i].id \in (i + 1)..k
        <5> DEFINE a == saved[i].id
        <5>1. a \in Nat /\ a # k + 1
          BY <1>1, <3>1, <3>5 DEF K, Entities
        <5> HIDE DEF a
        <5>2. a \in (i + 1)..(k + 1) <=> a \in (i + 1)..k
          BY <3>1, <5>1
        <5> QED BY <5>2 DEF a, K
      <4>4. CameBack(saved, i, K, t[j])
        BY <3>2, <4>3 DEF CameBack
      <4> QED BY <4>2, <4>4
    <3> QED BY <3>4, <3>5
  <2> QED BY <2>1, <2>2
<1>15. K = k + 1 /\ r = LoadOf(t, saved[k + 1])
  BY DEF K, r, e
<1>16. Taken(r, saved, K)
  BY <1>4, <1>10, <1>12, <1>13, <1>14 DEF Taken
<1> QED BY <1>15, <1>16

\* scene_io_load
LEMMA LoadRowsFacts ==
  ASSUME NEW n, NEW saved, IsTable(saved, n)
  PROVE  LET r == LoadRows(saved)
         IN  /\ IsTable(r, n) /\ Len(r) = Len(saved)
             /\ Scene!Ids(r) = Scene!Ids(saved) /\ Descends(r, saved)
             /\ \A i \in 1..Len(saved) : \E j \in 1..Len(r) :
                  CameBack(saved, i, Len(saved), r[j])
<1> DEFINE N == Len(saved)
           r == LoadRows(saved)
<1>1. saved \in Seq(Entities) /\ N \in Nat /\ n \in Nat /\ Scene!Ids(saved) \subseteq 1..n
  BY DEF IsTable
<1>2. \A m \in Nat : Scene!NewEntity(m, "cube") \in Entities
  BY NewEntityFacts DEF Scene!Kinds
<1>3. PICK c \in [0..N -> Seq(Entities)] : Loading(c, saved)
  <2>1. \A u \in Entities, v \in Entities : Scene!Read(u, v) \in Entities
    BY ReadFacts
  <2> QED BY <1>1, <1>2, <2>1, LoadTables
<1> DEFINE S == {k \in Nat : k <= N => Taken(c[k], saved, k)}
<1>4. 0 \in S
  <2>1. Taken(<<>>, saved, 0)
    BY DEF Taken, Distinct
  <2> QED BY <1>3, <2>1 DEF Loading
<1>5. ASSUME NEW k \in Nat, k \in S PROVE k + 1 \in S
  <2> SUFFICES ASSUME k + 1 <= N PROVE Taken(c[k + 1], saved, k + 1)
    OBVIOUS
  <2>1. k + 1 \in 1..N /\ (k + 1) - 1 = k /\ Taken(c[k], saved, k)
    BY <1>1, <1>5
  <2>2. c[k + 1] = LoadOf(c[k], saved[k + 1])
    BY <1>3, <2>1 DEF Loading
  <2> QED BY <2>1, <2>2, TakenStep
<1>6. Nat \subseteq S
  <2> HIDE DEF S
  <2> QED BY <1>4, <1>5, SetInduction
<1>7. Taken(r, saved, N)
  BY <1>1, <1>3, <1>6 DEF Loading
<1> HIDE DEF r
<1>8. Descends(r, saved)
  BY <1>7 DEF Taken, Descends
<1>9. r \in Seq(Entities) /\ Len(r) = N /\ Distinct(r)
  BY <1>7 DEF Taken
<1>10. Scene!Ids(r) = Scene!Ids(saved)
  <2>1. ASSUME NEW id \in Scene!Ids(r) PROVE id \in Scene!Ids(saved)
    <3>1. PICK j \in 1..N : r[j].id = id
      BY <1>9, IdsFacts
    <3>2. PICK i \in 1..N : id = saved[i].id
      BY <1>8, <1>9, <3>1 DEF Descends
    <3> QED BY <1>1, <3>2, IdsFacts
  <2>2. ASSUME NEW id \in Scene!Ids(saved) PROVE id \in Scene!Ids(r)
    <3>1. PICK i \in 1..N : saved[i].id = id
      BY <1>1, IdsFacts
    <3> QED BY <1>7, <3>1 DEF Taken
  <2> QED BY <2>1, <2>2
<1>11. \A j \in 1..N : r[j].parent \in Scene!Ids(r) \cup {0}
  <2> TAKE j \in 1..N
  <2>1. PICK i \in 1..N : r[j].parent \in {saved[i].parent, 0}
    BY <1>8, <1>9 DEF Descends
  <2> QED BY <1>10, <2>1 DEF IsTable
<1>12. IsTable(r, n)
  BY <1>1, <1>9, <1>10, <1>11 DEF IsTable
<1>13. \A i \in 1..N : \E j \in 1..N : CameBack(saved, i, N, r[j])
  BY <1>7 DEF Taken
<1> QED BY <1>8, <1>9, <1>10, <1>12, <1>13 DEF r

-----------------------------------------------------------------------------
(* The way up *)

LEMMA SameCardinality ==
  ASSUME NEW S PROVE Scene!Cardinality(S) = Cardinality(S)
BY DEF Cardinality, Scene!Cardinality

LEMMA CardIds ==
  ASSUME NEW n, NEW t, IsTable(t, n)
  PROVE  IsFiniteSet(Scene!Ids(t)) /\ Cardinality(Scene!Ids(t)) = Len(t)
<1> DEFINE N == Len(t)
           Q == Scene!Ids(t)
           f == [i \in 1..N |-> t[i].id]
<1>1. t \in Seq(Entities) /\ N \in Nat /\ Distinct(t)
  BY DEF IsTable
<1>2. IsFiniteSet(1..N) /\ Cardinality(1..N) = N
  <2> HIDE DEF N
  <2>1. 0 <= N => Cardinality(1..N) = N
    BY <1>1, FS_Interval
  <2> QED BY <1>1, <2>1, FS_Interval
<1>3. f \in [1..N -> Q]
  BY <1>1, IdsFacts
<1>4. f \in Injection(1..N, Q)
  BY <1>1, <1>3 DEF Injection, IsInjective, Distinct
<1>5. f \in Surjection(1..N, Q)
  <2>1. \A id \in Q : \E i \in 1..N : f[i] = id
    BY <1>1, IdsFacts
  <2> QED BY <1>3, <2>1 DEF Surjection
<1> HIDE DEF f, N, Q
<1>6. IsFiniteSet(Q) /\ Cardinality(Q) = N
  BY <1>2, <1>4, <1>5, FS_Surjection, SMTT(30)
<1> QED BY <1>6 DEF N, Q

Walk(id, f, N) ==
  f = [n \in 0..N |-> IF n = 0 THEN id ELSE Scene!ParentOf(f[n - 1])]

LEMMA WalksExist ==
  ASSUME NEW id, NEW N \in Nat
  PROVE  \E f : Walk(id, f, N)
<1> DEFINE S == {m \in Nat : \E f : Walk(id, f, m)}
           Up(a) == Scene!ParentOf(a)
<1>1. 0 \in S
  <2> DEFINE f == [i \in 0..0 |-> id]
  <2>1. \A i \in 0..0 : i = 0
    OBVIOUS
  <2>2. Walk(id, f, 0)
    BY <2>1 DEF Walk
  <2> QED BY <2>2
<1>2. ASSUME NEW m \in Nat, m \in S PROVE m + 1 \in S
  <2>1. PICK f : f = [i \in 0..m |-> IF i = 0 THEN id ELSE Up(f[i - 1])]
    BY <1>2 DEF Walk
  <2> DEFINE h == [i \in 0..(m + 1) |-> IF i = m + 1 THEN Up(f[m]) ELSE f[i]]
  <2> HIDE DEF Up
  <2>2. \A i \in 0..m : h[i] = f[i] /\ f[i] = IF i = 0 THEN id ELSE Up(f[i - 1])
    <3> TAKE i \in 0..m
    <3>1. i \in 0..(m + 1) /\ i # m + 1
      OBVIOUS
    <3>2. f[i] = IF i = 0 THEN id ELSE Up(f[i - 1])
      BY <2>1
    <3> QED BY <3>1, <3>2
  <2>3. \A i \in 0..(m + 1) : h[i] = IF i = 0 THEN id ELSE Up(h[i - 1])
    <3> TAKE i \in 0..(m + 1)
    <3>1. CASE i = m + 1
      <4>1. h[i] = Up(f[m]) /\ i # 0 /\ i - 1 = m /\ m \in 0..m
        BY <3>1
      <4>2. h[i - 1] = f[m]
        BY <2>2, <4>1
      <4> HIDE DEF h
      <4> QED BY <4>1, <4>2
    <3>2. CASE i = 0
      <4>1. i \in 0..m
        BY <3>2
      <4> HIDE DEF h
      <4> QED BY <2>2, <3>2, <4>1
    <3>3. CASE i \in 1..m
      <4>1. i \in 0..m /\ i - 1 \in 0..m /\ i # 0
        BY <3>3
      <4>2. h[i] = Up(f[i - 1]) /\ h[i - 1] = f[i - 1]
        BY <2>2, <4>1
      <4> HIDE DEF h
      <4> QED BY <4>1, <4>2
    <3>4. i = m + 1 \/ i = 0 \/ i \in 1..m
      OBVIOUS
    <3> HIDE DEF h
    <3> QED BY <3>1, <3>2, <3>3, <3>4
  <2>4. h = [i \in 0..(m + 1) |-> h[i]]
    OBVIOUS
  <2> HIDE DEF h
  <2>5. h = [i \in 0..(m + 1) |-> IF i = 0 THEN id ELSE Up(h[i - 1])]
    BY <2>3, <2>4
  <2>6. Walk(id, h, m + 1)
    BY <2>5 DEF Walk, Up
  <2> QED BY <2>6
<1>3. Nat \subseteq S
  <2> HIDE DEF S
  <2> QED BY <1>1, <1>2, SetInduction
<1> QED BY <1>3

LEMMA LineageFacts ==
  ASSUME NEW id, NEW N \in Nat
  PROVE  /\ Scene!Lineage(id, N)[0] = id
         /\ \A n \in 1..N : Scene!Lineage(id, N)[n] = Scene!ParentOf(Scene!Lineage(id, N)[n - 1])
<1> DEFINE f == Scene!Lineage(id, N)
<1>1. f = CHOOSE g : Walk(id, g, N)
  BY DEF Scene!Lineage, Walk
<1>2. Walk(id, f, N)
  <2>1. \E g : Walk(id, g, N)
    BY WalksExist
  <2> HIDE DEF f
  <2> QED BY <1>1, <2>1
<1> HIDE DEF f
<1>3. \A n \in 0..N : f[n] = IF n = 0 THEN id ELSE Scene!ParentOf(f[n - 1])
  BY <1>2 DEF Walk
<1>4. \A n \in 1..N : n \in 0..N /\ n # 0
  OBVIOUS
<1>5. f[0] = id /\ \A n \in 1..N : f[n] = Scene!ParentOf(f[n - 1])
  BY <1>3, <1>4
<1> QED BY <1>5 DEF f

\* The parent of a row's entity
LEMMA ParentOfFacts ==
  ASSUME NEW n, IsTable(rows, n)
  PROVE  /\ \A i \in 1..Len(rows) : Scene!ParentOf(rows[i].id) = rows[i].parent
         /\ \A id : id \notin Scene!Ids(rows) => Scene!ParentOf(id) = 0
<1>1. rows \in Seq(Entities) /\ Distinct(rows)
  BY DEF IsTable
<1>2. ASSUME NEW i \in 1..Len(rows) PROVE Scene!ParentOf(rows[i].id) = rows[i].parent
  <2> DEFINE p == Scene!IndexOf(rows, rows[i].id)
  <2>1. rows[i].id \in Scene!Ids(rows)
    BY <1>1, IdsFacts
  <2>2. p \in 1..Len(rows) /\ rows[p].id = rows[i].id
    BY <1>1, <2>1, IndexFacts
  <2> HIDE DEF p
  <2>3. p = i
    BY <1>1, <2>2 DEF Distinct
  <2> QED BY <2>1, <2>3 DEF Scene!ParentOf, Scene!Entity, p
<1>3. \A id : id \notin Scene!Ids(rows) => Scene!ParentOf(id) = 0
  BY DEF Scene!ParentOf
<1> QED BY <1>2, <1>3

\* One of the walk up, and the next one
LEMMA ParentLinked ==
  ASSUME NEW n, IsTable(rows, n), NEW id, Scene!ParentOf(id) # 0
  PROVE  id \in Scene!Ids(rows) /\ Linked(rows, id, Scene!ParentOf(id))
<1>1. id \in Scene!Ids(rows)
  BY ParentOfFacts
<1>2. PICK i \in 1..Len(rows) : rows[i].id = id
  BY <1>1, IdsFacts DEF IsTable
<1> QED BY <1>1, <1>2, ParentOfFacts DEF Linked

\* A walk that comes back to where it began is a ring.
LEMMA NoRingNoShortCycle ==
  ASSUME NEW n, IsTable(rows, n), NoRing(rows)
  PROVE  Scene!NoShortCycle
<1> SUFFICES ASSUME NEW id \in Scene!Ids(rows), NEW m \in 1..Guard,
                    Scene!Lineage(id, Guard)[m] = id
             PROVE  FALSE
  BY DEF Scene!NoShortCycle
<1> DEFINE L == Scene!Lineage(id, Guard)
<1>0. Guard \in Nat /\ m \in Nat \ {0} /\ id # 0
  BY SceneAssumption DEF IsTable
<1>1. L[0] = id /\ L[m] = id /\ \A k \in 1..Guard : L[k] = Scene!ParentOf(L[k - 1])
  BY <1>0, LineageFacts
<1> HIDE DEF L
<1>2. \A k \in 1..m : L[k] = Scene!ParentOf(L[k - 1])
  BY <1>0, <1>1
<1> DEFINE R == {k \in Nat : k <= m => L[m - k] # 0}
<1>3. 0 \in R
  BY <1>0, <1>1
<1>4. ASSUME NEW k \in Nat, k \in R PROVE k + 1 \in R
  <2> SUFFICES ASSUME k + 1 <= m PROVE L[m - (k + 1)] # 0
    OBVIOUS
  <2>1. m - k \in 1..m /\ (m - k) - 1 = m - (k + 1) /\ L[m - k] # 0
    BY <1>0, <1>4
  <2>2. Scene!ParentOf(L[m - (k + 1)]) # 0
    BY <1>2, <2>1
  <2>3. L[m - (k + 1)] \in Scene!Ids(rows)
    BY <2>2, ParentLinked
  <2> QED BY <2>3 DEF IsTable
<1>5. \A k \in 0..m : L[k] # 0
  <2>1. Nat \subseteq R
    <3> HIDE DEF R
    <3> QED BY <1>3, <1>4, SetInduction
  <2>2. \A k \in 0..m : m - k \in Nat /\ m - k <= m /\ m - (m - k) = k
    BY <1>0
  <2> QED BY <2>1, <2>2
<1>6. ASSUME NEW k \in 0..(m - 1) PROVE Linked(rows, L[k], L[k + 1])
  <2>1. k + 1 \in 1..m /\ k + 1 \in 0..m /\ (k + 1) - 1 = k
    BY <1>0
  <2>2. L[k + 1] = Scene!ParentOf(L[k]) /\ L[k + 1] # 0
    BY <1>2, <1>5, <2>1
  <2> QED BY <2>2, ParentLinked
<1>7. Ring(rows, L, m)
  BY <1>1, <1>6 DEF Ring
<1> QED BY <1>7 DEF NoRing

\* The walk along a ring, twice around
Round(c, n, k) == IF k <= n THEN c[k] ELSE c[k - n]

LEMMA RoundLinked ==
  ASSUME NEW t, NEW c, NEW n \in Nat \ {0}, Ring(t, c, n), NEW k \in 0..(2 * n - 1)
  PROVE  Linked(t, Round(c, n, k), Round(c, n, k + 1))
<1>1. c[n] = c[0] /\ \A j \in 0..(n - 1) : Linked(t, c[j], c[j + 1])
  BY DEF Ring
<1>2. CASE k < n
  <2>1. k \in 0..(n - 1) /\ k <= n /\ k + 1 <= n
    BY <1>2
  <2> QED BY <1>1, <2>1 DEF Round
<1>3. CASE k >= n
  <2>1. k - n \in 0..(n - 1) /\ (k + 1) - n = (k - n) + 1 /\ ~(k + 1 <= n)
    BY <1>3
  <2>2. Round(c, n, k) = c[k - n]
    <3>1. CASE k = n
      <4>1. k - n = 0
        BY <3>1
      <4> QED BY <1>1, <3>1, <4>1 DEF Round
    <3>2. CASE k # n
      <4>1. ~(k <= n)
        BY <1>3, <3>2
      <4> QED BY <4>1 DEF Round
    <3> QED BY <3>1, <3>2
  <2>3. Round(c, n, k + 1) = c[(k - n) + 1]
    BY <2>1 DEF Round
  <2> QED BY <1>1, <2>1, <2>2, <2>3
<1> QED BY <1>2, <1>3

\* A short ring through a new parent was a way from the parent to the child, on
\* which the search for a descendant finds it.
LEMMA SetParentNoRing ==
  ASSUME NEW n, IsTable(rows, n), NoRing(rows), NEW child \in Scene!Ids(rows), NEW parent,
         parent # 0 => ~Scene!scene_is_descendant(parent, child),
         NEW r, Len(r) = Len(rows), IsTable(r, n),
         NEW p \in 1..Len(rows), rows[p].id = child, r[p].id = child, r[p].parent = parent,
         \A i \in 1..Len(rows) : i # p => r[i] = rows[i]
  PROVE  NoRing(r)
<1> SUFFICES ASSUME NEW m \in 1..Guard, NEW c, Ring(r, c, m) PROVE FALSE
  BY DEF NoRing
<1>0. Guard \in Nat /\ m \in Nat \ {0} /\ m <= Guard
  BY SceneAssumption
<1>1. \A a, b : a # child /\ Linked(r, a, b) => Linked(rows, a, b)
  BY DEF Linked
<1>2. \A b : Linked(r, child, b) => b = parent
  <2> SUFFICES ASSUME NEW b, NEW i \in 1..Len(rows), r[i].id = child, r[i].parent = b
               PROVE  b = parent
    BY DEF Linked
  <2>1. i = p
    BY DEF IsTable, Distinct
  <2> QED BY <2>1
<1>3. PICK k \in 0..(m - 1) : c[k] = child
  <2> SUFFICES ASSUME \A k \in 0..(m - 1) : c[k] # child PROVE FALSE
    OBVIOUS
  <2>1. Ring(rows, c, m)
    BY <1>1 DEF Ring
  <2> QED BY <2>1 DEF NoRing
<1> DEFINE d(j) == Round(c, m, k + 1 + j)
<1>4. ASSUME NEW j \in 0..(m - 1) PROVE d(j) # 0 /\ Linked(r, d(j), d(j + 1))
  <2> DEFINE q == k + 1 + j
  <2>1. q \in 0..(2 * m - 1) /\ q + 1 = k + 1 + (j + 1)
    BY <1>0
  <2> HIDE DEF q
  <2>2. Linked(r, Round(c, m, q), Round(c, m, q + 1))
    BY <1>0, <2>1, RoundLinked
  <2>3. Round(c, m, q) # 0
    BY <2>2, NobodyBelow
  <2> QED BY <2>1, <2>2, <2>3 DEF q
<1>5. d(0) = parent /\ d(m - 1) = child
  <2>1. k \in 0..(2 * m - 1) /\ k <= m /\ k + 1 <= m /\ k + 1 + 0 = k + 1
    BY <1>0
  <2>2. d(0) = Round(c, m, k + 1) /\ Round(c, m, k) = child
    BY <1>3, <2>1 DEF Round
  <2>3. d(0) = parent
    BY <1>0, <1>2, <2>1, <2>2, RoundLinked
  <2>4. d(m - 1) = child
    <3>1. k + 1 + (m - 1) = k + m /\ (k + m) - m = k
      BY <1>0
    <3>2. Round(c, m, k + m) = c[k]
      <4>1. CASE k = 0
        <5>1. k + m = m /\ k + m <= m
          BY <1>0, <4>1
        <5>2. c[m] = c[0]
          BY DEF Ring
        <5> QED BY <4>1, <5>1, <5>2 DEF Round
      <4>2. CASE k # 0
        <5>1. ~(k + m <= m)
          BY <1>0, <4>2
        <5> QED BY <3>1, <5>1 DEF Round
      <4> QED BY <4>1, <4>2
    <3> QED BY <1>3, <3>1, <3>2
  <2> QED BY <2>3, <2>4
<1> HIDE DEF d
<1>6. parent # 0
  <2>1. 0 \in 0..(m - 1)
    BY <1>0
  <2> QED BY <1>4, <1>5, <2>1
<1> DEFINE L == Scene!Lineage(parent, Guard)
<1>7. /\ \A j \in 0..(Guard - 1) : L[j] # child
      /\ L[0] = parent /\ \A j \in 1..Guard : L[j] = Scene!ParentOf(L[j - 1])
  <2>1. \A j \in 0..(Guard - 1) : L[j] # child
    BY <1>6 DEF Scene!scene_is_descendant
  <2> QED BY <1>0, <2>1, LineageFacts
<1> HIDE DEF L
<1> DEFINE W == {j \in Nat : j <= m - 1 => L[j] = d(j)}
<1>8. 0 \in W
  BY <1>5, <1>7
<1>9. ASSUME NEW j \in Nat, j \in W PROVE j + 1 \in W
  <2> SUFFICES ASSUME j + 1 <= m - 1 PROVE L[j + 1] = d(j + 1)
    OBVIOUS
  <2>1. j \in 0..(m - 1) /\ j \in 0..(Guard - 1) /\ j + 1 \in 1..Guard /\ (j + 1) - 1 = j
    BY <1>0
  <2>2. L[j] = d(j) /\ d(j) # child
    <3>1. L[j] = d(j)
      BY <1>9, <2>1
    <3> QED BY <1>7, <2>1, <3>1
  <2>3. Linked(rows, d(j), d(j + 1))
    BY <1>1, <1>4, <2>1, <2>2
  <2>4. Scene!ParentOf(d(j)) = d(j + 1)
    BY <2>3, ParentOfFacts DEF Linked
  <2> QED BY <1>7, <2>1, <2>2, <2>4
<1>10. L[m - 1] = child
  <2>1. Nat \subseteq W
    <3> HIDE DEF W
    <3> QED BY <1>8, <1>9, SetInduction
  <2>2. m - 1 \in Nat
    BY <1>0
  <2> QED BY <1>5, <2>1, <2>2
<1>11. m - 1 \in 0..(Guard - 1)
  BY <1>0
<1> QED BY <1>7, <1>10, <1>11

-----------------------------------------------------------------------------
(* What every step keeps of the table and of the file *)

TableInv ==
  /\ next_id \in Nat \ {0} /\ IsTable(rows, next_id - 1) /\ NoRing(rows)
  /\ selected \in Scene!Ids(rows) \cup {0}
  /\ DOMAIN patches \subseteq Scene!Ids(rows)
  /\ file # Nil => NoRing(file.rows) /\ \E n \in Nat : IsTable(file.rows, n)

LEMMA TableInit == Scene!Init => TableInv
<1> SUFFICES ASSUME Scene!Init PROVE TableInv
  OBVIOUS
<1> DEFINE a == Scene!NewEntity(1, "cube")
           b == Scene!NewEntity(2, "terrain")
<1>1. a \in Entities /\ b \in Entities /\ a.id = 1 /\ b.id = 2 /\ a.parent = 0 /\ b.parent = 0
  BY NewEntityFacts DEF Scene!Kinds
<1>2. rows = <<a, b>> /\ next_id = 3 /\ selected = 1 /\ patches = Scene!NoMaps /\ file = Nil
  BY DEF Scene!Init
<1> HIDE DEF a, b
<1>3. /\ rows \in Seq(Entities) /\ Len(rows) = 2 /\ rows[1] = a /\ rows[2] = b
      /\ DOMAIN rows = {1, 2} /\ 1..2 = {1, 2}
  BY <1>1, <1>2
<1>4. Scene!Ids(rows) = {1, 2}
  BY <1>1, <1>3 DEF Scene!Ids
<1>5. IsTable(rows, 2)
  <2>1. Distinct(rows)
    BY <1>1, <1>3 DEF Distinct
  <2>2. \A i \in 1..Len(rows) : rows[i].parent = 0
    BY <1>1, <1>3
  <2> QED BY <1>3, <1>4, <2>1, <2>2 DEF IsTable
<1>6. NoRing(rows)
  <2> SUFFICES ASSUME NEW m \in 1..Guard, NEW c, Ring(rows, c, m) PROVE FALSE
    BY DEF NoRing
  <2>1. \A i \in 1..Len(rows) : rows[i].parent = 0
    BY <1>1, <1>3
  <2>2. m \in Nat \ {0}
    BY SceneAssumption
  <2>3. 0 \in 0..(m - 1) /\ m - 1 \in 0..(m - 1) /\ (m - 1) + 1 = m
    BY <2>2
  <2>4. c[m] = 0 /\ c[m] = c[0] /\ Linked(rows, c[0], c[0 + 1])
    BY <2>1, <2>3 DEF Ring, Linked
  <2> QED BY <1>5, <2>4, NobodyBelow
<1>7. DOMAIN patches = {}
  BY <1>2 DEF Scene!NoMaps
<1>8. next_id - 1 = 2 /\ next_id \in Nat \ {0}
  BY <1>2
<1> QED BY <1>2, <1>4, <1>5, <1>6, <1>7, <1>8 DEF TableInv

\* A step that changes the fields of an entity, but no id
FieldStep(id, e) ==
  /\ id \in Scene!Ids(rows) /\ e \in Entities /\ e.id = id
  /\ Scene!Update(id, e)
  /\ UNCHANGED <<selected, next_id, file>>

LEMMA EntityFacts ==
  ASSUME NEW n, IsTable(rows, n), NEW id \in Scene!Ids(rows)
  PROVE  Scene!Entity(id) \in Entities /\ Scene!Entity(id).id = id
<1>1. rows \in Seq(Entities)
  BY DEF IsTable
<1>2. Scene!IndexOf(rows, id) \in 1..Len(rows) /\ rows[Scene!IndexOf(rows, id)].id = id
  BY <1>1, IndexFacts
<1> QED BY <1>1, <1>2 DEF Scene!Entity

LEMMA FieldStepFacts ==
  ASSUME TableInv, NEW id, NEW e, FieldStep(id, e),
         e.parent \in Scene!Ids(rows) \cup {0}, DOMAIN patches' \subseteq Scene!Ids(rows)
  PROVE  /\ NoRing(rows') => TableInv'
         /\ Len(rows') = Len(rows) /\ IsTable(rows', next_id - 1)
         /\ \E p \in 1..Len(rows) :
              /\ rows[p].id = id /\ rows[p] = Scene!Entity(id)
              /\ \A i \in 1..Len(rows) : rows'[i] = IF i = p THEN e ELSE rows[i]
<1> DEFINE n == next_id - 1
           r == [rows EXCEPT ![Scene!IndexOf(rows, id)] = e]
<1>1. IsTable(rows, n) /\ id \in Scene!Ids(rows) /\ e \in Entities /\ e.id = id
  BY DEF TableInv, FieldStep
<1>2. rows' = r /\ selected' = selected /\ next_id' = next_id /\ file' = file
  BY DEF FieldStep, Scene!Update
<1>3. /\ r \in Seq(Entities) /\ Len(r) = Len(rows) /\ Distinct(r)
      /\ Scene!Ids(r) = Scene!Ids(rows)
      /\ \E p \in 1..Len(rows) :
           /\ p = Scene!IndexOf(rows, id) /\ rows[p].id = id
           /\ \A i \in 1..Len(rows) : r[i] = IF i = p THEN e ELSE rows[i]
  <2> HIDE DEF n
  <2> QED BY <1>1, UpdateFacts
<1>4. PICK p \in 1..Len(rows) :
        /\ p = Scene!IndexOf(rows, id) /\ rows[p].id = id
        /\ \A i \in 1..Len(rows) : r[i] = IF i = p THEN e ELSE rows[i]
  BY <1>3
<1> HIDE DEF r
<1>5. \A i \in 1..Len(r) : r[i].parent \in Scene!Ids(r) \cup {0}
  BY <1>1, <1>3, <1>4 DEF IsTable
<1>6. IsTable(r, n)
  BY <1>1, <1>3, <1>5 DEF IsTable
<1>7. NoRing(rows') => TableInv'
  BY <1>2, <1>3, <1>6 DEF TableInv
<1>8. rows[p] = Scene!Entity(id)
  BY <1>4 DEF Scene!Entity
<1> QED BY <1>2, <1>3, <1>4, <1>6, <1>7, <1>8

\* If it keeps the parent, there are the rings there were.
LEMMA FieldStepKeeps ==
  ASSUME TableInv, NEW id, NEW e, FieldStep(id, e),
         e.parent = Scene!Entity(id).parent, DOMAIN patches' \subseteq Scene!Ids(rows)
  PROVE  TableInv'
<1>1. IsTable(rows, next_id - 1) /\ rows \in Seq(Entities)
      /\ id \in Scene!Ids(rows) /\ e.id = id
  BY DEF TableInv, FieldStep, IsTable
<1>2. e.parent \in Scene!Ids(rows) \cup {0}
  <2>1. Scene!IndexOf(rows, id) \in 1..Len(rows)
    BY <1>1, IndexFacts
  <2> QED BY <1>1, <2>1 DEF IsTable, Scene!Entity
<1>3. /\ NoRing(rows') => TableInv'
      /\ Len(rows') = Len(rows) /\ IsTable(rows', next_id - 1)
      /\ \E p \in 1..Len(rows) :
              /\ rows[p].id = id /\ rows[p] = Scene!Entity(id)
              /\ \A i \in 1..Len(rows) : rows'[i] = IF i = p THEN e ELSE rows[i]
  BY <1>2, FieldStepFacts
<1>4. PICK p \in 1..Len(rows) :
              /\ rows[p].id = id /\ rows[p] = Scene!Entity(id)
              /\ \A i \in 1..Len(rows) : rows'[i] = IF i = p THEN e ELSE rows[i]
  BY <1>3
<1>5. \A i \in 1..Len(rows) : rows'[i].id = rows[i].id /\ rows'[i].parent = rows[i].parent
  BY <1>1, <1>4
<1>6. Descends(rows', rows)
  BY <1>3, <1>5 DEF Descends
<1>7. NoRing(rows')
  <2>1. NoRing(rows)
    BY DEF TableInv
  <2> DEFINE r == rows'
             n == next_id - 1
  <2>2. IsTable(r, n) /\ Descends(r, rows)
    BY <1>3, <1>6
  <2> HIDE DEF r, n
  <2>3. NoRing(r)
    BY <2>1, <2>2, DescendsNoRing
  <2> QED BY <2>3 DEF r
<1> QED BY <1>3, <1>7

LEMMA AddStep ==
  ASSUME TableInv, NEW kind \in Scene!Kinds, Scene!AddEntity(kind)
  PROVE  TableInv'
<1> DEFINE n == next_id - 1
           r == Append(rows, Scene!NewEntity(n + 1, kind))
<1>1. IsTable(rows, n) /\ n + 1 = next_id /\ n \in Nat /\ Len(rows) \in Nat
  BY DEF TableInv, IsTable
<1>2. /\ Len(rows) < Cap
      /\ rows' = r /\ selected' = next_id /\ next_id' = next_id + 1
      /\ patches' = patches /\ file' = file
  BY <1>1 DEF Scene!AddEntity
<1>3. /\ IsTable(r, n + 1) /\ Len(r) = Len(rows) + 1
      /\ Scene!Ids(r) = Scene!Ids(rows) \cup {n + 1}
      /\ NoRing(r)
  <2> HIDE DEF n
  <2> QED BY <1>1, AddFacts DEF TableInv
<1> HIDE DEF r
<1>4. TableInv'
  <2>1. next_id' - 1 = n + 1 /\ next_id' \in Nat \ {0}
    BY <1>1, <1>2
  <2>2. selected' \in Scene!Ids(rows')
    BY <1>1, <1>2, <1>3
  <2> HIDE DEF n
  <2> QED BY <1>2, <1>3, <2>1, <2>2 DEF TableInv
<1> QED BY <1>4

LEMMA RestrictedFacts ==
  ASSUME NEW store, NEW id
  PROVE  LET r == Scene!terrain_store_remove(store, id)
         IN  /\ DOMAIN r = DOMAIN store \ {id}
             /\ r = [k \in DOMAIN store \ {id} |-> store[k]]
BY DEF Scene!terrain_store_remove, Scene!Restrict

LEMMA RemoveStep ==
  ASSUME TableInv, NEW id, Scene!RemoveEntity(id)
  PROVE  TableInv'
<1> DEFINE n == next_id - 1
           r == Removed(rows, id)
<1>1. IsTable(rows, n) /\ id \in Scene!Ids(rows) /\ Len(rows) \in Nat
  BY DEF TableInv, IsTable, Scene!RemoveEntity
<1>2. /\ rows' = r /\ selected' = IF selected = id THEN 0 ELSE selected
      /\ next_id' = next_id /\ file' = file
      /\ patches' = Scene!terrain_store_remove(patches, id)
  BY DEF Scene!RemoveEntity, Removed
<1>3. /\ IsTable(r, n) /\ Len(r) = Len(rows) - 1
      /\ Scene!Ids(r) = Scene!Ids(rows) \ {id} /\ Descends(r, rows)
  <2> HIDE DEF n
  <2> QED BY <1>1, RemovedFacts
<1> HIDE DEF r
<1>4. DOMAIN patches' = DOMAIN patches \ {id}
  BY <1>2, RestrictedFacts
<1>5. NoRing(r)
  <2> HIDE DEF n
  <2> QED BY <1>3, DescendsNoRing DEF TableInv
<1> QED BY <1>2, <1>3, <1>4, <1>5 DEF TableInv

LEMMA ParentStep ==
  ASSUME TableInv, NEW child, NEW parent \in Nat, Scene!SetParent(child, parent)
  PROVE  TableInv'
<1> DEFINE e == [Scene!Entity(child) EXCEPT !.parent = parent]
<1>1. /\ child \in Scene!Ids(rows) /\ Scene!Update(child, e)
      /\ parent # 0 => parent \in Scene!Ids(rows) /\ ~Scene!scene_is_descendant(parent, child)
      /\ UNCHANGED <<selected, next_id, patches, file>>
  BY DEF Scene!SetParent
<1>2. Scene!Entity(child) \in Entities /\ Scene!Entity(child).id = child
  <2>1. IsTable(rows, next_id - 1)
    BY DEF TableInv
  <2> QED BY <1>1, <2>1, EntityFacts
<1>3. e \in Entities /\ e.id = child /\ e.parent = parent
  BY <1>2 DEF Entities
<1> HIDE DEF e
<1>4. FieldStep(child, e) /\ e.parent \in Scene!Ids(rows) \cup {0}
  BY <1>1, <1>3 DEF FieldStep
<1>5. DOMAIN patches' \subseteq Scene!Ids(rows)
  BY <1>1 DEF TableInv
<1>6. /\ NoRing(rows') => TableInv'
      /\ Len(rows') = Len(rows) /\ IsTable(rows', next_id - 1)
      /\ \E p \in 1..Len(rows) :
              /\ rows[p].id = child /\ rows[p] = Scene!Entity(child)
              /\ \A i \in 1..Len(rows) : rows'[i] = IF i = p THEN e ELSE rows[i]
  BY <1>4, <1>5, FieldStepFacts
<1>7. NoRing(rows')
  <2>1. PICK p \in 1..Len(rows) :
              /\ rows[p].id = child
              /\ \A i \in 1..Len(rows) : rows'[i] = IF i = p THEN e ELSE rows[i]
    BY <1>6
  <2> DEFINE r == rows'
             n == next_id - 1
  <2>2. /\ Len(r) = Len(rows) /\ IsTable(r, n)
        /\ r[p].id = child /\ r[p].parent = parent
        /\ \A i \in 1..Len(rows) : i # p => r[i] = rows[i]
    BY <1>3, <1>6, <2>1
  <2>3. IsTable(rows, n) /\ NoRing(rows)
    BY DEF TableInv
  <2> HIDE DEF r, n
  <2>4. NoRing(r)
    BY <1>1, <2>1, <2>2, <2>3, SetParentNoRing
  <2> QED BY <2>4 DEF r
<1> QED BY <1>6, <1>7

LEMMA EditStep ==
  ASSUME TableInv, NEW id, Scene!EditEntity(id)
  PROVE  TableInv'
<1> DEFINE old == Scene!Entity(id)
<1>1. /\ id \in Scene!Ids(rows)
      /\ \E e \in Scene!Edited(old) : Scene!Update(id, e)
      /\ UNCHANGED <<selected, next_id, patches, file>>
  BY DEF Scene!EditEntity
<1>2. old \in Entities /\ old.id = id
  <2>1. IsTable(rows, next_id - 1)
    BY DEF TableInv
  <2> QED BY <1>1, <2>1, EntityFacts
<1> HIDE DEF old
<1>3. PICK e \in Scene!Edited(old) : Scene!Update(id, e)
  BY <1>1
<1>4. e \in Entities /\ e.id = id /\ e.parent = old.parent
  <2>1. CASE \E kind \in Scene!Kinds : e = [old EXCEPT !.kind = kind]
    BY <1>2, <2>1 DEF Entities
  <2>2. CASE \E c \in Painted, v \in Shades : e = [old EXCEPT !.color = Scene!SetComp(@, c, v)]
    <3>1. PICK c \in Painted, v \in Shades : e = [old EXCEPT !.color = Scene!SetComp(@, c, v)]
      BY <2>2
    <3> DEFINE color == Scene!SetComp(old.color, c, v)
    <3>2. old.color \in Colours /\ v \in Nat
      BY <1>2, SceneAssumption DEF Entities
    <3>3. color \in Colours /\ e = [old EXCEPT !.color = color]
      BY <3>1, <3>2, SetCompFacts
    <3> HIDE DEF color
    <3> QED BY <1>2, <3>3 DEF Entities
  <2>3. CASE \E rot \in Rotations : e = [old EXCEPT !.rot = rot]
    BY <1>2, <2>3 DEF Entities
  <2> QED BY <2>1, <2>2, <2>3 DEF Scene!Edited
<1>5. FieldStep(id, e) /\ DOMAIN patches' \subseteq Scene!Ids(rows)
  BY <1>1, <1>3, <1>4 DEF FieldStep, TableInv
<1> QED BY <1>4, <1>5, FieldStepKeeps DEF old

\* What terrain_store_create_grid leaves of the other heightmaps
LEMMA CreatedFacts ==
  ASSUME NEW id, NEW store \in Scene!terrain_store_create_grid(patches, id)
  PROVE  /\ store = [k \in DOMAIN store |-> store[k]]
         /\ DOMAIN store \subseteq DOMAIN patches \cup {id}
         /\ \A k \in DOMAIN store :
              IF k = id THEN store[k] = [heights |-> 0, dirty |-> TRUE]
              ELSE k \in DOMAIN patches /\ store[k] = patches[k]
<1> DEFINE rest == Scene!terrain_store_remove(patches, id)
<1>1. rest = [k \in DOMAIN patches \ {id} |-> patches[k]]
  BY RestrictedFacts
<1> HIDE DEF rest
<1>2. store = rest \/ store = Scene!Holding(rest, id, [heights |-> 0, dirty |-> TRUE])
  BY DEF Scene!terrain_store_create_grid, rest
<1>3. CASE store = rest
  BY <1>1, <1>3
<1>4. CASE store = Scene!Holding(rest, id, [heights |-> 0, dirty |-> TRUE])
  <2>1. DOMAIN rest = DOMAIN patches \ {id} /\ \A k \in DOMAIN rest : rest[k] = patches[k]
    BY <1>1
  <2>2. store = [k \in DOMAIN rest \cup {id} |->
                   IF k = id THEN [heights |-> 0, dirty |-> TRUE] ELSE rest[k]]
    BY <1>4 DEF Scene!Holding
  <2> QED BY <2>1, <2>2
<1> QED BY <1>2, <1>3, <1>4

\* The inspector's and the brush's terrain
LEMMA TerrainEntity ==
  ASSUME TableInv, Scene!SelectedTerrain, NEW bound \in BOOLEAN, NEW e,
         e = [Scene!Entity(selected) EXCEPT !.bound = bound]
  PROVE  /\ selected \in Scene!Ids(rows)
         /\ e \in Entities /\ e.id = selected /\ e.parent = Scene!Entity(selected).parent
<1>1. IsTable(rows, next_id - 1) /\ selected \in Scene!Ids(rows)
  BY DEF TableInv, Scene!SelectedTerrain
<1>2. Scene!Entity(selected) \in Entities /\ Scene!Entity(selected).id = selected
  BY <1>1, EntityFacts
<1> QED BY <1>1, <1>2 DEF Entities

LEMMA CreateStep ==
  ASSUME TableInv, Scene!CreateHeightmap
  PROVE  TableInv'
<1> DEFINE e == [Scene!Entity(selected) EXCEPT !.bound = TRUE]
<1>1. /\ Scene!SelectedTerrain /\ Scene!Update(selected, e)
      /\ patches' \in Scene!terrain_store_create_grid(patches, selected)
      /\ UNCHANGED <<selected, next_id, file>>
  BY DEF Scene!CreateHeightmap
<1>2. /\ selected \in Scene!Ids(rows)
      /\ e \in Entities /\ e.id = selected /\ e.parent = Scene!Entity(selected).parent
  <2>1. e = [Scene!Entity(selected) EXCEPT !.bound = TRUE]
    OBVIOUS
  <2> HIDE DEF e
  <2> QED BY <1>1, <2>1, TerrainEntity
<1> HIDE DEF e
<1>3. FieldStep(selected, e)
  BY <1>1, <1>2 DEF FieldStep
<1>4. DOMAIN patches' \subseteq Scene!Ids(rows)
  BY <1>1, <1>2, CreatedFacts DEF TableInv
<1> QED BY <1>2, <1>3, <1>4, FieldStepKeeps

\* What a stroke of the brush leaves in the store
LEMMA SculptedFacts ==
  ASSUME NEW h, Scene!Sculpt(h)
  PROVE  /\ patches' = [k \in DOMAIN patches' |-> patches'[k]]
         /\ DOMAIN patches' \subseteq DOMAIN patches \cup {selected}
         /\ \A k \in DOMAIN patches' :
              \/ patches'[k] = [heights |-> h, dirty |-> TRUE]
              \/ k \in DOMAIN patches /\ patches'[k] = patches[k]
<1> DEFINE had == selected \in DOMAIN patches
           map == [heights |-> h, dirty |-> TRUE]
<1>1. PICK store \in IF had THEN {patches}
                     ELSE Scene!terrain_store_create_grid(patches, selected) :
        patches' = IF selected \in DOMAIN store THEN [store EXCEPT ![selected] = map] ELSE store
  BY DEF Scene!Sculpt
<1>2. CASE had
  <2>1. store = patches /\ patches' = [patches EXCEPT ![selected] = map]
    BY <1>1, <1>2
  <2> HIDE DEF map
  <2>2. /\ patches' = [k \in DOMAIN patches' |-> patches'[k]]
        /\ DOMAIN patches' = DOMAIN patches
        /\ \A k \in DOMAIN patches : patches'[k] = IF k = selected THEN map ELSE patches[k]
    BY <2>1
  <2> QED BY <2>2 DEF map
<1>3. CASE ~had
  <2>1. /\ store = [k \in DOMAIN store |-> store[k]]
        /\ DOMAIN store \subseteq DOMAIN patches \cup {selected}
        /\ \A k \in DOMAIN store :
              k # selected => k \in DOMAIN patches /\ store[k] = patches[k]
    BY <1>1, <1>3, CreatedFacts
  <2>2. /\ patches' = [k \in DOMAIN patches' |-> patches'[k]]
        /\ DOMAIN patches' = DOMAIN store
        /\ \A k \in DOMAIN store : patches'[k] = IF k = selected THEN map ELSE store[k]
    <3> HIDE DEF map
    <3> QED BY <1>1, <2>1
  <2> QED BY <2>1, <2>2
<1> QED BY <1>2, <1>3

LEMMA SculptStep ==
  ASSUME TableInv, NEW h, Scene!Sculpt(h)
  PROVE  TableInv'
<1> DEFINE bound == Scene!Entity(selected).bound /\ selected \in DOMAIN patches
           e == [Scene!Entity(selected) EXCEPT !.bound = bound]
<1>1. /\ Scene!SelectedTerrain /\ Scene!Update(selected, e)
      /\ UNCHANGED <<selected, next_id, file>>
  BY DEF Scene!Sculpt
<1>2. /\ selected \in Scene!Ids(rows)
      /\ e \in Entities /\ e.id = selected /\ e.parent = Scene!Entity(selected).parent
  <2>1. e = [Scene!Entity(selected) EXCEPT !.bound = bound] /\ bound \in BOOLEAN
    OBVIOUS
  <2> HIDE DEF e, bound
  <2> QED BY <1>1, <2>1, TerrainEntity
<1> HIDE DEF e
<1>3. FieldStep(selected, e)
  BY <1>1, <1>2 DEF FieldStep
<1>4. DOMAIN patches' \subseteq Scene!Ids(rows)
  BY <1>2, SculptedFacts DEF TableInv
<1> QED BY <1>2, <1>3, <1>4, FieldStepKeeps

LEMMA SavedStep ==
  ASSUME TableInv, Scene!SaveStep
  PROVE  TableInv'
<1>1. /\ UNCHANGED <<rows, selected, next_id>> /\ DOMAIN patches' = DOMAIN patches
      /\ file' = file \/ file' = Nil \/ file'.rows = rows
  BY DEF Scene!SaveStep, Scene!Save, Scene!SaveMaps, Scene!Snapshot
<1>2. next_id - 1 \in Nat
  BY DEF TableInv
<1> QED BY <1>1, <1>2 DEF TableInv

\* What a load leaves of the file
LEMMA LoadFollows ==
  ASSUME TableInv, Scene!Load
  PROVE  /\ Len(rows') = Len(file.rows)
         /\ Scene!Ids(rows') = Scene!Ids(file.rows)
         /\ \A i \in DOMAIN file.rows :
              \E j \in DOMAIN rows' : Scene!ComesBackAs(file.rows, i, rows'[j])
         /\ TableInv'
         /\ \E r \in SUBSET Whole : patches' = ReadMaps(r)
<1> DEFINE saved == file.rows
           r == LoadRows(saved)
           M == Scene!Max(Scene!Ids(saved) \cup {0})
<1>1. /\ file # Nil /\ rows' = r /\ next_id' = M + 1
      /\ selected' = IF file.selected \in Scene!Ids(rows') THEN file.selected
                     ELSE IF rows' = <<>> THEN 0 ELSE rows'[1].id
      /\ \E readable \in SUBSET Whole : patches' = Scene!LoadMaps(rows', readable)
      /\ file' = file /\ maps' = maps
  BY DEF Scene!Load, LoadRows, Whole
<1>2. PICK n \in Nat : IsTable(saved, n)
  BY <1>1 DEF TableInv
<1> HIDE DEF saved, r
<1>3. /\ IsTable(r, n) /\ Len(r) = Len(saved)
      /\ Scene!Ids(r) = Scene!Ids(saved) /\ Descends(r, saved)
      /\ \A i \in 1..Len(saved) : \E j \in 1..Len(r) : CameBack(saved, i, Len(saved), r[j])
  BY <1>2, LoadRowsFacts DEF r
<1>4. M \in Nat /\ Scene!Ids(saved) \subseteq 1..M
  <2> DEFINE s == Scene!Ids(saved) \cup {0}
  <2>1. s \in SUBSET (0..n) /\ s # {}
    BY <1>2 DEF IsTable
  <2> HIDE DEF s
  <2>2. Scene!Max(s) \in s /\ \A k \in s : k <= Scene!Max(s)
    BY <2>1, MaxFacts
  <2>3. M = Scene!Max(s)
    BY DEF s
  <2> HIDE DEF M
  <2>4. M \in Nat
    <3>1. Scene!Max(s) \in 0..n
      BY <2>1, <2>2
    <3> QED BY <2>3, <3>1
  <2>5. ASSUME NEW k \in Scene!Ids(saved) PROVE k \in 1..M
    <3>1. k \in s /\ k \in 1..n
      BY <1>2 DEF IsTable, s
    <3> QED BY <2>2, <2>3, <2>4, <3>1
  <2> QED BY <2>4, <2>5
<1> HIDE DEF M
<1>5. IsTable(r, M)
  BY <1>3, <1>4 DEF IsTable
<1>6. r \in Seq(Entities)
  BY <1>3 DEF IsTable
<1>7. PICK readable \in SUBSET Whole : patches' = Scene!LoadMaps(r, readable)
  BY <1>1
<1>8. PICK q \in SUBSET (Scene!Ids(r) \cap Whole) :
        Scene!LoadMaps(r, readable) = ReadMaps(q)
  BY <1>6, LoadMapsFacts
<1>9. patches' = ReadMaps(q) /\ DOMAIN patches' = q /\ q \in SUBSET Whole
  BY <1>7, <1>8 DEF ReadMaps
<1>10. selected' \in Scene!Ids(r) \cup {0}
  <2>1. r # <<>> => 1 \in 1..Len(r)
    BY <1>6
  <2> QED BY <1>1, <1>6, <2>1, IdsFacts
<1>11. TableInv'
  <2>1. next_id' - 1 = M /\ next_id' \in Nat \ {0}
    BY <1>1, <1>4
  <2>2. file' # Nil => NoRing(file'.rows) /\ \E k \in Nat : IsTable(file'.rows, k)
    BY <1>1 DEF TableInv
  <2>3. NoRing(r)
    <3>1. NoRing(saved)
      BY <1>1 DEF TableInv, saved
    <3> QED BY <1>3, <3>1, DescendsNoRing
  <2> QED BY <1>1, <1>5, <1>8, <1>9, <1>10, <2>1, <2>2, <2>3 DEF TableInv
<1>12. \A i \in DOMAIN saved : \E j \in DOMAIN r : Scene!ComesBackAs(saved, i, r[j])
  <2>1. DOMAIN saved = 1..Len(saved) /\ DOMAIN r = 1..Len(r)
    BY <1>2, <1>6 DEF IsTable
  <2>2. ASSUME NEW i, NEW row, CameBack(saved, i, Len(saved), row)
        PROVE  Scene!ComesBackAs(saved, i, row)
    BY <2>2 DEF CameBack, Scene!ComesBackAs
  <2> QED BY <1>3, <2>1, <2>2
<1> QED BY <1>1, <1>3, <1>9, <1>11, <1>12 DEF saved

LEMMA StillStep ==
  ASSUME TableInv, Scene!Select \/ UNCHANGED Scene!vars
  PROVE  TableInv'
<1>1. /\ UNCHANGED <<rows, next_id, patches, file>>
      /\ selected' \in Scene!Ids(rows) \cup {0}
  BY DEF TableInv, Scene!Select, Scene!SelectEntity, Scene!vars
<1> QED BY <1>1 DEF TableInv

LEMMA TableStep ==
  TableInv /\ [Scene!Next]_Scene!vars => TableInv'
<1> SUFFICES ASSUME TableInv, [Scene!Next]_Scene!vars PROVE TableInv'
  OBVIOUS
<1>1. CASE \E kind \in Scene!Kinds : Scene!AddEntity(kind)
  BY <1>1, AddStep
<1>2. CASE \E id \in Scene!Ids(rows) : Scene!RemoveEntity(id)
  BY <1>2, RemoveStep
<1>3. CASE \E child \in Scene!Ids(rows), parent \in Scene!Ids(rows) \cup {0} :
             Scene!SetParent(child, parent)
  <2>1. PICK child \in Scene!Ids(rows), parent \in Scene!Ids(rows) \cup {0} :
          Scene!SetParent(child, parent)
    BY <1>3
  <2>2. parent \in Nat
    BY DEF TableInv, IsTable
  <2> QED BY <2>1, <2>2, ParentStep
<1>4. CASE \E id \in Scene!Ids(rows) : Scene!EditEntity(id)
  BY <1>4, EditStep
<1>5. CASE Scene!CreateHeightmap
  BY <1>5, CreateStep
<1>6. CASE \E h \in Heights : Scene!Sculpt(h)
  BY <1>6, SculptStep
<1>7. CASE Scene!SaveStep
  BY <1>7, SavedStep
<1>8. CASE Scene!Load
  BY <1>8, LoadFollows
<1>9. CASE Scene!Select \/ UNCHANGED Scene!vars
  BY <1>9, StillStep
<1> QED BY <1>1, <1>2, <1>3, <1>4, <1>5, <1>6, <1>7, <1>8, <1>9
      DEF Scene!Next, Scene!Change, Scene!Edit

LEMMA TableInductive == Scene!Spec => []TableInv
<1>1. Scene!Init => TableInv
  BY TableInit
<1>2. TableInv /\ [Scene!Next]_Scene!vars => TableInv'
  BY TableStep
<1> QED BY <1>1, <1>2, PTL DEF Scene!Spec

\* The references inside a scene hold, whatever is added, removed, reparented,
\* edited, saved and loaded, with files that fail to open and writes that are cut
\* short, and a search for a descendant of any length, longer or shorter than
\* the chains of parents (scene_add, scene_remove, scene_set_parent,
\* scene_is_descendant, scene_io_load).
THEOREM SceneReferences == Scene!Spec => []ReferencesHold
<1>1. TableInv => ReferencesHold
  <2> SUFFICES ASSUME TableInv PROVE ReferencesHold
    OBVIOUS
  <2>1. IsTable(rows, next_id - 1)
    BY DEF TableInv
  <2>2. Scene!Cardinality(Scene!Ids(rows)) = Len(rows)
    BY <2>1, CardIds, SameCardinality
  <2>3. Scene!NoShortCycle
    BY <2>1, NoRingNoShortCycle DEF TableInv
  <2>4. \A i \in DOMAIN rows : rows[i].parent \in Scene!Ids(rows) \cup {0}
    BY <2>1 DEF IsTable
  <2>5. Scene!Ids(rows) \subseteq 1..(next_id - 1)
    BY <2>1 DEF IsTable
  <2> QED BY <2>2, <2>3, <2>4, <2>5 DEF TableInv, ReferencesHold, Scene!ReferencesHold
<1> QED BY <1>1, TableInductive, PTL

\* A load brings back as many entities as were saved, with the ids they had. Each
\* is what was saved, but for a colour and a rotation that are read over those
\* of its row, or, if its id is the number of a later row, a new cube
\* (scene_io_load, sio_apply_prop_line, scene_prop_set_num).
THEOREM SceneLoadKeepsIds == Scene!Spec => LoadKeepsIds
<1>1. TableInv /\ [Scene!Next]_Scene!vars =>
        [Scene!Load => /\ Len(rows') = Len(file.rows)
                       /\ Scene!Ids(rows') = Scene!Ids(file.rows)
                       /\ \A i \in DOMAIN file.rows :
                            \E j \in DOMAIN rows' :
                              Scene!ComesBackAs(file.rows, i, rows'[j])]_Scene!vars
  BY LoadFollows
<1> QED BY <1>1, TableInductive, PTL DEF Scene!Spec, LoadKeepsIds, Scene!LoadKeepsIds

-----------------------------------------------------------------------------
(* Heightmaps and their files *)

Contents == Heights \cup {0}
Patch == [heights : Contents, dirty : BOOLEAN]

\* A clean heightmap is what its file holds, if it was written to its end.
OnDisk(store, disks) ==
  \A id \in DOMAIN store :
    store[id].dirty \/ (id \in DOMAIN disks /\ disks[id] \in {store[id].heights, Nil})

MapInv ==
  /\ patches \in [DOMAIN patches -> Patch] /\ maps \in [DOMAIN maps -> Contents \cup {Nil}]
  /\ OnDisk(patches, maps)

\* Heightmaps that are gone, that are dirty and that are as they were
LEMMA DirtiedMaps ==
  ASSUME MapInv, maps' = maps,
         patches' = [k \in DOMAIN patches' |-> patches'[k]],
         \A k \in DOMAIN patches' :
           \/ \E h \in Contents : patches'[k] = [heights |-> h, dirty |-> TRUE]
           \/ k \in DOMAIN patches /\ patches'[k] = patches[k]
  PROVE  MapInv'
<1>1. ASSUME NEW k \in DOMAIN patches'
      PROVE  /\ patches'[k] \in Patch
             /\ patches'[k].dirty \/ (k \in DOMAIN maps /\ maps[k] \in {patches'[k].heights, Nil})
  <2>1. CASE \E h \in Contents : patches'[k] = [heights |-> h, dirty |-> TRUE]
    BY <2>1 DEF Patch
  <2>2. CASE k \in DOMAIN patches /\ patches'[k] = patches[k]
    BY <2>2 DEF MapInv, OnDisk
  <2> QED BY <1>1, <2>1, <2>2
<1>2. patches' \in [DOMAIN patches' -> Patch]
  BY <1>1
<1>3. OnDisk(patches', maps')
  BY <1>1 DEF OnDisk
<1> QED BY <1>2, <1>3 DEF MapInv

\* A save writes some of the dirty ones.
LEMMA SavedMaps ==
  ASSUME MapInv, Scene!SaveStep
  PROVE  MapInv'
<1>1. PICK written \in SUBSET Scene!DirtyMaps :
        \E torn \in SUBSET written :
          \E left \in {file, Scene!Snapshot, Nil} : Scene!Save(written, torn, left)
  BY DEF Scene!SaveStep
<1>2. PICK torn \in SUBSET written :
        /\ maps' = [id \in DOMAIN maps \cup written |->
                      IF id \in torn THEN Nil
                      ELSE IF id \in written THEN patches[id].heights ELSE maps[id]]
        /\ patches' = [id \in DOMAIN patches |->
                         [patches[id] EXCEPT !.dirty = @ /\ id \notin written]]
  BY <1>1 DEF Scene!Save, Scene!SaveMaps
<1>3. written \subseteq DOMAIN patches
  BY DEF Scene!DirtyMaps
<1>4. /\ \A id \in DOMAIN patches : patches[id] \in Patch
      /\ \A id \in DOMAIN maps : maps[id] \in Contents \cup {Nil}
  BY DEF MapInv
<1>5. ASSUME NEW id \in DOMAIN patches
      PROVE  /\ patches'[id] \in Patch /\ patches'[id].heights = patches[id].heights
             /\ patches'[id].dirty <=> (patches[id].dirty /\ id \notin written)
  <2>1. patches'[id] = [patches[id] EXCEPT !.dirty = patches[id].dirty /\ id \notin written]
    BY <1>2
  <2>2. patches[id] \in Patch
    BY <1>4
  <2> QED BY <2>1, <2>2 DEF Patch
<1>6. patches' \in [DOMAIN patches' -> Patch] /\ DOMAIN patches' = DOMAIN patches
  BY <1>2, <1>5
<1>7. maps' \in [DOMAIN maps' -> Contents \cup {Nil}] /\ DOMAIN maps' = DOMAIN maps \cup written
  <2>1. \A id \in written : patches[id].heights \in Contents
    BY <1>3, <1>4 DEF Patch
  <2> QED BY <1>2, <1>4, <2>1
<1>8. OnDisk(patches', maps')
  <2> SUFFICES ASSUME NEW id \in DOMAIN patches, ~patches'[id].dirty
               PROVE  id \in DOMAIN maps' /\ maps'[id] \in {patches'[id].heights, Nil}
    BY <1>6 DEF OnDisk
  <2>1. CASE id \in written
    BY <1>2, <1>5, <2>1
  <2>2. CASE id \notin written
    <3>1. ~patches[id].dirty
      BY <1>5, <2>2
    <3>2. id \in DOMAIN maps /\ maps[id] \in {patches[id].heights, Nil}
      BY <3>1 DEF MapInv, OnDisk
    <3> QED BY <1>2, <1>5, <2>2, <3>2
  <2> QED BY <2>1, <2>2
<1> QED BY <1>6, <1>7, <1>8 DEF MapInv

LEMMA MapStep ==
  TableInv /\ MapInv /\ [Scene!Next]_Scene!vars => MapInv'
<1> SUFFICES ASSUME TableInv, MapInv, [Scene!Next]_Scene!vars PROVE MapInv'
  OBVIOUS
<1>0. 0 \in Contents /\ Heights \subseteq Contents
  BY DEF Contents
<1>1. CASE patches' = patches /\ maps' = maps
  BY <1>1 DEF MapInv
<1>2. CASE \E id \in Scene!Ids(rows) : Scene!RemoveEntity(id)
  <2>1. PICK id : Scene!RemoveEntity(id)
    BY <1>2
  <2>2. maps' = maps /\ patches' = Scene!terrain_store_remove(patches, id)
    BY <2>1 DEF Scene!RemoveEntity
  <2>3. patches' = [k \in DOMAIN patches \ {id} |-> patches[k]]
    BY <2>2, RestrictedFacts
  <2>4. /\ patches' = [k \in DOMAIN patches' |-> patches'[k]]
        /\ \A k \in DOMAIN patches' : k \in DOMAIN patches /\ patches'[k] = patches[k]
    BY <2>3
  <2> QED BY <2>2, <2>4, DirtiedMaps
<1>3. CASE Scene!CreateHeightmap
  <2>1. maps' = maps /\ patches' \in Scene!terrain_store_create_grid(patches, selected)
    BY <1>3 DEF Scene!CreateHeightmap
  <2>2. /\ patches' = [k \in DOMAIN patches' |-> patches'[k]]
        /\ \A k \in DOMAIN patches' :
             IF k = selected THEN patches'[k] = [heights |-> 0, dirty |-> TRUE]
             ELSE k \in DOMAIN patches /\ patches'[k] = patches[k]
    BY <2>1, CreatedFacts
  <2> QED BY <1>0, <2>1, <2>2, DirtiedMaps
<1>4. CASE \E h \in Heights : Scene!Sculpt(h)
  <2>1. PICK h \in Heights : Scene!Sculpt(h)
    BY <1>4
  <2>2. maps' = maps
    BY <2>1 DEF Scene!Sculpt
  <2>3. /\ patches' = [k \in DOMAIN patches' |-> patches'[k]]
        /\ \A k \in DOMAIN patches' :
             \/ patches'[k] = [heights |-> h, dirty |-> TRUE]
             \/ k \in DOMAIN patches /\ patches'[k] = patches[k]
    BY <2>1, SculptedFacts
  <2> QED BY <1>0, <2>1, <2>2, <2>3, DirtiedMaps
<1>5. CASE Scene!SaveStep
  BY <1>5, SavedMaps
<1>6. CASE Scene!Load
  <2>1. maps' = maps
    BY <1>6 DEF Scene!Load
  <2>2. PICK r \in SUBSET Whole : patches' = ReadMaps(r)
    BY <1>6, LoadFollows
  <2>3. DOMAIN patches' = r
        /\ \A id \in r : patches'[id] = [heights |-> maps[id], dirty |-> FALSE]
    BY <2>2 DEF ReadMaps
  <2>4. \A id \in r : id \in DOMAIN maps /\ maps[id] \in Contents
    BY DEF MapInv, Whole
  <2>5. patches' \in [DOMAIN patches' -> Patch]
    BY <2>2, <2>3, <2>4 DEF ReadMaps, Patch
  <2>6. OnDisk(patches', maps')
    BY <2>1, <2>3, <2>4 DEF OnDisk
  <2> QED BY <2>1, <2>5, <2>6 DEF MapInv
<1> QED BY <1>1, <1>2, <1>3, <1>4, <1>5, <1>6
      DEF Scene!Next, Scene!Change, Scene!Edit, Scene!Select, Scene!AddEntity, Scene!SetParent,
          Scene!EditEntity, Scene!SelectEntity, Scene!vars

\* Heights that count as saved are what their file holds, if it was written to
\* its end, whatever files fail to open: a save that could not open a terrain's
\* file leaves it dirty
\* (scene_terrain_save_dirty_maps, terrain_store_save_file, scene_terrain_reload_all).
THEOREM CleanHeightsOnDisk == Scene!Spec => []CleanIsOnDisk
<1>1. Scene!Init => TableInv /\ MapInv
  <2> SUFFICES ASSUME Scene!Init PROVE MapInv
    BY TableInit
  <2>1. patches = Scene!NoMaps /\ maps = Scene!NoMaps
    BY DEF Scene!Init
  <2>2. Scene!NoMaps = [id \in {} |-> 0] /\ DOMAIN Scene!NoMaps = {}
    BY DEF Scene!NoMaps
  <2> QED BY <2>1, <2>2 DEF MapInv, OnDisk
<1>2. TableInv /\ MapInv /\ [Scene!Next]_Scene!vars => (TableInv /\ MapInv)'
  BY TableStep, MapStep
<1>3. TableInv /\ MapInv => CleanIsOnDisk
  BY DEF MapInv, OnDisk, CleanIsOnDisk, Scene!CleanIsOnDisk
<1> QED BY <1>1, <1>2, <1>3, PTL DEF Scene!Spec
=============================================================================
