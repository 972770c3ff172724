----------------------------- MODULE UndoHistory -----------------------------
(***************************************************************************)
(* What undo and redo promise the user of an editor: past and future are   *)
(* the texts that undo and redo go through, nearest last and nearest       *)
(* first, and an edit never changes a text that is already in the past.    *)
(***************************************************************************)
EXTENDS Integers, Sequences

VARIABLES
    text, past, future,
    lost            \* the step gave the history up

Removals == {SubSeq(text, 1, i) \o SubSeq(text, j + 1, Len(text)) :
               i \in 0..Len(text), j \in 0..Len(text)}

\* An edit is a step of its own, or two when it first removes a selection, or
\* belongs to the step before it.
Edit ==
    /\ ~lost'
    /\ future' = <<>>
    /\ \/ past # <<>> /\ past' = past
       \/ past' = Append(past, text)
       \/ /\ Len(past') = Len(past) + 2
          /\ \E mid \in Removals : past' = past \o <<text, mid>>

\* Without room for more, the past begins anew, with the edit or within it.
GiveUp ==
    /\ lost'
    /\ future' = <<>>
    /\ Len(past') <= 1 \/ \E mid \in Removals : past' = <<text, mid>>

Undo ==
    /\ past # <<>> /\ ~lost'
    /\ text' = past[Len(past)]
    /\ past' = SubSeq(past, 1, Len(past) - 1)
    /\ future' = <<text>> \o future

Redo ==
    /\ future # <<>> /\ ~lost'
    /\ text' = Head(future)
    /\ past' = Append(past, text)
    /\ future' = Tail(future)

Load == past' = <<>> /\ future' = <<>>

Next == Edit \/ GiveUp \/ Undo \/ Redo \/ Load
=============================================================================
