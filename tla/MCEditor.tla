------------------------------ MODULE MCEditor ------------------------------
(* The editor's two documents for TLC: the scene and the open script.  They *)
(* share no state, and a frame of the editor hands its input to one of the  *)
(* two, so it is enough to look at sessions that work on one of them: on    *)
(* the script, or on the scene with at most MaxChanges changes, saves and   *)
(* loads, of which the inspector makes the first MaxEdits at most, and      *)
(* between which the selection moves freely.                                *)
EXTENDS MCCodeEditor

CONSTANTS Cap, TerrainCap, Guard, MaxId, Heights, Shades, Painted,
          Rotations, Upright, Renormalised, MaxChanges, MaxEdits

ASSUME SceneAssumption ==
  /\ {Cap, Guard} \subseteq Nat /\ Cap >= 2
  /\ Shades \subseteq Nat /\ Painted \subseteq 1..3
  /\ Upright \in Rotations
  /\ Renormalised \in [Rotations \X Rotations -> Rotations]

(* Rotations for TLC, as turns out of the upright: what is read of one, four  *)
(* times normalised, is turned less, and the upright is read as it is.        *)
Angles == {0, 1}
Unturned == [q \in Angles \X Angles |-> IF q[2] = 0 THEN 0 ELSE q[2] - 1]

VARIABLES rows, selected, next_id, patches, file, maps,
          document,  \* what the session works on
          changes    \* of the scene so far

scene_vars == <<rows, selected, next_id, patches, file, maps>>

Scene == INSTANCE SceneModel

MCInit ==
  /\ Init
  /\ Scene!Init
  /\ document \in {"scene", "script"}
  /\ changes = 0

EditScript ==
  /\ document = "script"
  /\ Next
  /\ UNCHANGED <<scene_vars, document, changes>>

EditScene ==
  /\ document = "scene"
  /\ \/ /\ changes < MaxChanges
        /\ Scene!Change \/ (changes < MaxEdits /\ Scene!Edit)
        /\ changes' = IF UNCHANGED scene_vars THEN changes ELSE changes + 1
     \/ Scene!Select /\ UNCHANGED changes
  /\ UNCHANGED <<vars, document>>

MCNext == EditScript \/ EditScene

MCSpec == MCInit /\ [][MCNext]_<<vars, scene_vars, document, changes>>

(* What SceneModel says of its scene, in the composition. *)
ReferencesHold == Scene!ReferencesHold
CleanIsOnDisk == Scene!CleanIsOnDisk
LoadKeepsIds == Scene!LoadKeepsIds
=============================================================================
