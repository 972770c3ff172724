------------------------------ MODULE SceneModel ------------------------------
(* The editor's scene: the table of entities (engine_scene.mettle), the       *)
(* heightmaps of its terrains (engine_terrain_store.mettle), and the files    *)
(* both are saved to and loaded from (engine_scene_io.mettle).                *)
(*                                                                            *)
(* An entity keeps its id for life, a row of the table keeps nothing:         *)
(* removing an entity moves the last row into the hole, and loading a file    *)
(* gives every row first a new id and then the one of the file.  Of an        *)
(* entity's properties the model keeps the parent, the kind, the two that a   *)
(* load does not read back as they were saved (colour and rotation), and      *)
(* whether the entity is bound, that is whether its mesh_path names its own   *)
(* .mthmap file (the path is made from the id).  A terrain may have heights   *)
(* in memory without being bound.  A heightmap is one value of Heights.       *)
EXTENDS Naturals, SequencesExt

CONSTANTS Cap,         \* rows the scene holds (512 in the editor)
          TerrainCap,  \* heightmaps the store holds (128)
          Guard,       \* steps scene_is_descendant walks (256)
          MaxId,       \* bound: the largest id scene_add hands out in the model
          Heights,     \* contents of a heightmap; 0 is the procedural one
          Shades,      \* values of a colour's component
          Painted,     \* bound: the components that the inspector sets
          Rotations,   \* unit quaternions
          Upright,     \* the identity
          Renormalised,  \* what is read over one rotation from another's lines
          Nil          \* no file yet, or one whose writing was cut short

VARIABLES
  rows,      \* Scene.rows[0..count-1]
  selected,  \* Scene.selected_id, 0 for none
  next_id,   \* Scene.next_id
  patches,   \* TerrainStore.patches, by id: heights and whether they are dirty
  file,      \* the scene file
  maps       \* the .mthmap files, by the id their name is made from

vars == <<rows, selected, next_id, patches, file, maps>>

NoMaps == [id \in {} |-> 0]

Ids(table) == {table[i].id : i \in DOMAIN table}

Grey(v) == [c \in 1 .. 3 |-> v]
NoColour == Grey(0)

NewEntity(id, kind) ==
  [id |-> id, parent |-> 0, kind |-> kind, bound |-> FALSE,
   color |-> NoColour, rot |-> Upright]

(* scene_index_of: the first row that holds id, 0 for none. *)
IndexOf(table, id) == SelectInSeq(table, LAMBDA e : e.id = id)

Entity(id) == rows[IndexOf(rows, id)]

Update(id, e) == rows' = [rows EXCEPT ![IndexOf(rows, id)] = e]

(* scene_seed_default, which the editor calls when there is no file to load:  *)
(* its cube and its terrain (the four boxes are left out).                    *)
Init ==
  /\ rows = <<NewEntity(1, "cube"), NewEntity(2, "terrain")>>
  /\ selected = 1
  /\ next_id = 3
  /\ patches = NoMaps
  /\ file = Nil
  /\ maps = NoMaps

(* ---- The table ---------------------------------------------------------- *)

(* The buttons that add an entity and select it. *)
AddEntity(kind) ==
  /\ Len(rows) < Cap
  /\ next_id <= MaxId
  /\ rows' = Append(rows, NewEntity(next_id, kind))
  /\ selected' = next_id
  /\ next_id' = next_id + 1
  /\ UNCHANGED <<patches, file, maps>>

terrain_store_remove(store, id) == Restrict(store, DOMAIN store \ {id})

(* The store when a free patch of it is given to id. *)
Holding(store, id, patch) ==
  [k \in DOMAIN store \union {id} |-> IF k = id THEN patch ELSE store[k]]

KeepsParent(e, id) == e   \* mutant
Orphaned(e, id) == IF e.parent = id THEN [e EXCEPT !.parent = 0] ELSE e

(* scene_remove: the last row takes the place of the one removed. *)
RemoveEntity(id) ==
  /\ id \in Ids(rows)
  /\ LET left == Front([rows EXCEPT ![IndexOf(rows, id)] = Last(rows)])
     IN  rows' = [i \in DOMAIN left |-> Orphaned(left[i], id)]
  /\ patches' = terrain_store_remove(patches, id)
  /\ selected' = IF selected = id THEN 0 ELSE selected
  /\ UNCHANGED <<next_id, file, maps>>

SelectEntity(id) ==
  /\ id \in Ids(rows) \union {0}
  /\ selected' = id
  /\ UNCHANGED <<rows, next_id, patches, file, maps>>

ParentOf(id) == IF id \in Ids(rows) THEN Entity(id).parent ELSE 0

(* The entities met on the way up from id: its own id, its parent's, ... *)
Lineage(id, steps) ==
  LET up[n \in 0 .. steps] == IF n = 0 THEN id ELSE ParentOf(up[n - 1])
  IN  up

(* scene_is_descendant gives up after Guard steps and answers no. *)
scene_is_descendant(child, parent) ==
  \E n \in 0 .. Guard - 1 : Lineage(child, Guard)[n] = parent

SetParent(child, parent) ==
  /\ child \in Ids(rows)
  /\ parent # child
  /\ parent # 0 => parent \in Ids(rows) /\ ~scene_is_descendant(parent, child)
  /\ Update(child, [Entity(child) EXCEPT !.parent = parent])
  /\ UNCHANGED <<selected, next_id, patches, file, maps>>

Kinds == {"cube", "terrain"}

(* Black in all components would be no colour at all. *)
SetComp(color, c, v) ==
  LET packed == [color EXCEPT ![c] = v]
  IN  IF packed = NoColour THEN Grey(1) ELSE packed

(* What the inspector makes of an entity. *)
Edited(e) ==
  {[e EXCEPT !.kind = kind] : kind \in Kinds}
    \union {[e EXCEPT !.color = SetComp(@, c, v)] : c \in Painted, v \in Shades}
    \union {[e EXCEPT !.rot = rot] : rot \in Rotations}

EditEntity(id) ==
  /\ id \in Ids(rows)
  /\ \E e \in Edited(Entity(id)) : Update(id, e)
  /\ UNCHANGED <<selected, next_id, patches, file, maps>>

(* ---- Heightmaps --------------------------------------------------------- *)

(* What terrain_store_create_grid may leave: it removes the terrain's own     *)
(* grid first, and then may find no room or no memory for the new one.        *)
terrain_store_create_grid(store, id) ==
  LET rest == terrain_store_remove(store, id)
      full == Cardinality(DOMAIN rest) >= TerrainCap
  IN  {rest} \union IF full THEN {}
                    ELSE {Holding(rest, id, [heights |-> 0, dirty |-> TRUE])}

SelectedTerrain == selected \in Ids(rows) /\ Entity(selected).kind = "terrain"

(* The inspector's button binds the terrain to the file of its own id. *)
CreateHeightmap ==
  /\ SelectedTerrain
  /\ Update(selected, [Entity(selected) EXCEPT !.bound = TRUE])
  /\ patches' \in terrain_store_create_grid(patches, selected)
  /\ UNCHANGED <<selected, next_id, file, maps>>

(* A stroke of the brush: a terrain without heights is given some first, and  *)
(* bound to no file.                                                          *)
Sculpt(h) ==
  /\ SelectedTerrain
  /\ LET had == selected \in DOMAIN patches
     IN  /\ Update(selected, [Entity(selected) EXCEPT !.bound = @ /\ had])
         /\ \E store \in IF had THEN {patches}
                        ELSE terrain_store_create_grid(patches, selected) :
              patches' = IF selected \in DOMAIN store
                         THEN [store EXCEPT ![selected] = [heights |-> h, dirty |-> TRUE]]
                         ELSE store
  /\ UNCHANGED <<selected, next_id, file, maps>>

(* ---- Files -------------------------------------------------------------- *)

(* The heightmaps scene_terrain_save_dirty_maps writes. *)
DirtyMaps ==
  {id \in DOMAIN patches : /\ patches[id].dirty
                           /\ Entity(id).kind = "terrain"
                           /\ Entity(id).bound}

\* Mutant: every heightmap counts as saved, whether its file opened or not.
SaveMapsBlindly(written, torn) ==
  /\ maps' = [id \in DOMAIN maps \union written |->
               IF id \in torn THEN Nil
               ELSE IF id \in written THEN patches[id].heights ELSE maps[id]]
  /\ patches' = [id \in DOMAIN patches |->
                   [patches[id] EXCEPT !.dirty = @ /\ id \notin DirtyMaps]]

(* A heightmap counts as clean once its file was opened: what fwrite answers  *)
(* is not looked at, and leaves the files of torn cut short.                  *)
SaveMaps(written, torn) ==
  /\ maps' = [id \in DOMAIN maps \union written |->
               IF id \in torn THEN Nil
               ELSE IF id \in written THEN patches[id].heights ELSE maps[id]]
  /\ patches' = [id \in DOMAIN patches |->
                   [patches[id] EXCEPT !.dirty = @ /\ id \notin written]]

Snapshot == [selected |-> selected, rows |-> rows]

(* scene_io_save: the heightmaps first, then the scene.  Each file may fail   *)
(* to open, and only the scene's failure is reported; each may be cut short,  *)
(* which is not.  A playtest's snapshot is the same call with another name    *)
(* for the scene: it leaves the scene file as it is, as a failed save does.   *)
Save(written, torn, left) ==
  /\ SaveMaps(written, torn)
  /\ file' = left
  /\ UNCHANGED <<rows, selected, next_id>>

SaveStep ==
  \E written \in SUBSET DirtyMaps : \E torn \in SUBSET written :
    \E left \in {file, Snapshot, Nil} : Save(written, torn, left)

(* The lines of an entity are read over what the row has: a colour component  *)
(* by component, a rotation normalised after each of its components.          *)
ReadColour(color, saved) ==
  SetComp(SetComp(SetComp(color, 1, saved[1]), 2, saved[2]), 3, saved[3])

Read(row, e) ==
  [e EXCEPT !.color = ReadColour(row.color, @),
            !.rot = Renormalised[<<row.rot, @>>]]

\* Mutant: no row is appended for an id that is taken.
LoadEntityOver(table, e) ==
  LET n     == Len(table) + 1
      taken == IndexOf(table, n)
  IN  IF taken # 0 THEN [table EXCEPT ![taken] = Read(@, e)]
      ELSE Append(table, Read(NewEntity(n, "cube"), e))

(* One entity of the file.  scene_clear has made the next id 1, so the row    *)
(* appended as the n-th gets id n, and the fields go to the first row that    *)
(* has this id, which an earlier line of the file may have given to another.  *)
LoadEntity(table, e) ==
  LET n     == Len(table) + 1
      added == Append(table, NewEntity(n, "cube"))
  IN  [added EXCEPT ![IndexOf(added, n)] = Read(@, e)]

(* scene_terrain_reload_all, when the heightmap files that can be read are    *)
(* those of readable; a file that is too short cannot.                        *)
LoadMaps(table, readable) ==
  LET LoadMap(store, e) ==
        IF /\ e.kind = "terrain" /\ e.bound
           /\ e.id \in readable
           /\ Cardinality(DOMAIN store) < TerrainCap
        THEN Holding(store, e.id, [heights |-> maps[e.id], dirty |-> FALSE])
        ELSE store
  IN  FoldLeft(LoadMap, NoMaps, table)

(* scene_io_load of the file last saved, if it was written to its end. *)
Load ==
  /\ file # Nil
  /\ rows' = FoldLeft(LoadEntity, <<>>, file.rows)
  /\ next_id' = Max(Ids(file.rows) \union {0}) + 1
  /\ selected' = IF file.selected \in Ids(rows') THEN file.selected
                 ELSE IF rows' = <<>> THEN 0 ELSE rows'[1].id
  /\ \E readable \in SUBSET {id \in DOMAIN maps : maps[id] # Nil} :
       patches' = LoadMaps(rows', readable)
  /\ UNCHANGED <<file, maps>>

(* Everything but setting a property and moving the selection. *)
Change ==
  \/ \E kind \in Kinds : AddEntity(kind)
  \/ \E id \in Ids(rows) : RemoveEntity(id)
  \/ \E child \in Ids(rows), parent \in Ids(rows) \union {0} : SetParent(child, parent)
  \/ CreateHeightmap
  \/ \E h \in Heights : Sculpt(h)
  \/ SaveStep
  \/ Load

(* The inspector writes a property. *)
Edit == \E id \in Ids(rows) : EditEntity(id)

Select == \E id \in Ids(rows) \union {0} : SelectEntity(id)

Next == Change \/ Edit \/ Select

Spec == Init /\ [][Next]_vars

(* ---- Properties --------------------------------------------------------- *)

(* No entity is its own ancestor in as many steps as the search for a         *)
(* descendant takes.  In more steps it can be, for all that scene_io.mettle   *)
(* says of parents ("cycles can't form because every id is unique and the     *)
(* editor re-validates on reparent"): scene_set_parent does not see a child   *)
(* at the end of a chain of more than Guard parents.                          *)
NoShortCycle ==
  \A id \in Ids(rows), n \in 1 .. Guard : Lineage(id, Guard)[n] # id

(* The references inside a scene hold whatever is added, removed, reparented, *)
(* saved and loaded in whatever order: an id names one entity and is never    *)
(* handed out twice, a parent exists and is no descendant that the search     *)
(* finds, the selection and every heightmap belong to an entity of the table. *)
ReferencesHold ==
  /\ Cardinality(Ids(rows)) = Len(rows)
  /\ Ids(rows) \subseteq 1 .. next_id - 1
  /\ \A i \in DOMAIN rows : rows[i].parent \in Ids(rows) \union {0}
  /\ NoShortCycle
  /\ selected \in Ids(rows) \union {0}
  /\ DOMAIN patches \subseteq Ids(rows)

(* Heights that count as saved are what their file holds, unless its writing  *)
(* was cut short, which nobody notices: a save that could not open a          *)
(* terrain's file leaves it dirty, so that the next save writes it.           *)
CleanIsOnDisk ==
  \A id \in DOMAIN patches :
    patches[id].dirty \/ (id \in DOMAIN maps /\ maps[id] \in {patches[id].heights, Nil})

(* What the entity of the i-th row of a file comes back as.  One whose id is  *)
(* the number of a later row is overwritten by it, and a new cube has its id. *)
ComesBackAs(table, i, r) ==
  LET e == table[i]
  IN  /\ r.id = e.id
      /\ IF e.id \in (i + 1) .. Len(table) THEN r = NewEntity(e.id, "cube")
         ELSE /\ <<r.parent, r.kind, r.bound>> = <<e.parent, e.kind, e.bound>>
              /\ \/ \E k \in 1 .. i - 1 : table[k].id = i
                 \/ r = Read(NewEntity(e.id, "cube"), e)

(* Loading brings back as many entities as were saved, with the same ids.     *)
(* Each has the parent, the kind and the heightmap it was saved with, except  *)
(* one that is overwritten while the file is read, and a colour and rotation  *)
(* that were read over those of a new cube, except one that overwrites.       *)
LoadKeepsIds ==
  [][Load => /\ Len(rows') = Len(file.rows)
             /\ Ids(rows') = Ids(file.rows)
             /\ \A i \in DOMAIN file.rows :
                  \E j \in DOMAIN rows' : ComesBackAs(file.rows, i, rows'[j])]_vars
===============================================================================
