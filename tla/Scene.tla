------------------------------- MODULE Scene -------------------------------
(***************************************************************************)
(* The canonical scene of crates/core/src/scene: the surface tree, the     *)
(* mapping law, the damage every change accumulates, and the snapshot the  *)
(* renderer composites from.  The scene is a value, as it is in the code   *)
(* (Scene has no threading of its own): each operation of state.rs is an   *)
(* operator from a scene to a scene.  Protocol.tla drives them.            *)
(*                                                                         *)
(* Abstractions.  The output is one row of cells, so a rectangle is a set  *)
(* of consecutive cells and a Region is the set of its cells (Region.tla   *)
(* models the rectangle list and its coalescing, which only adds cells).   *)
(* Every protocol surface has z = 0, so roots stack by SurfaceId alone.    *)
(***************************************************************************)
EXTENDS Integers, SequencesExt

CONSTANTS
  Surface,               \* SurfaceIds that may ever be allocated
  NoSurface,             \* Option::None for a surface
  NoPixels,              \* Option::None for a node's source
  Colour, Translucent,   \* the colours of pixels, and those whose alpha is below 255
  Output,                \* the cells of the one output
  MAX_SUBSURFACE_DEPTH   \* the depth guard of every tree walk (16 in the code)

(* What a buffer shows: one pixel at least, as wl_shm demands.               *)
Blocks == Seq(Colour) \ {<<>>}

ASSUME SurfaceAssumption ==
  /\ Surface \subseteq Nat /\ IsFiniteSet(Surface)
  /\ NoSurface \notin Surface
  /\ NoPixels \notin Blocks /\ Translucent \subseteq Colour
  /\ Output \subseteq Int
  /\ MAX_SUBSURFACE_DEPTH \in Nat \ {0}

Roles == {"none", "toplevel", "subsurface"}

FreshNode(client) ==
  [client |-> client, role |-> "none", parent |-> NoSurface, children |-> <<>>,
   offset |-> 0, size |-> 0, source |-> NoPixels, opaque |-> FALSE]

EmptyScene == [nodes |-> <<>>, damage |-> {}, full |-> TRUE]

(* The elements of a set of numbers in ascending order, and a sequence       *)
(* without those in a set.                                                   *)
Ascending(S) ==
  LET below[n \in 0..(IF S = {} THEN 0 ELSE Max(S) + 1)] ==
        IF n = 0 THEN <<>>
        ELSE IF n - 1 \in S THEN Append(below[n - 1], n - 1) ELSE below[n - 1]
  IN  below[IF S = {} THEN 0 ELSE Max(S) + 1]

Without(list, S) ==
  LET kept[i \in 0..Len(list)] ==
        IF i = 0 THEN <<>>
        ELSE IF list[i] \in S THEN kept[i - 1] ELSE Append(kept[i - 1], list[i])
  IN  kept[Len(list)]

(* A map after insert(x, v).                                                 *)
Inserted(f, x, v) == [y \in DOMAIN f \cup {x} |-> IF y = x THEN v ELSE f[y]]

Live(sc) == DOMAIN sc.nodes

IsVisible(node) == node.role # "none" /\ node.source # NoPixels /\ node.size > 0

-----------------------------------------------------------------------------
(* Walks of the tree.                                                       *)

(* The mapping law and the output offset of every mapped node: a node is     *)
(* placed if it and every ancestor is visible, at its parent's place plus    *)
(* its own offset.  A chain longer than the depth guard, or one that never   *)
(* reaches a root, is not placed.                                            *)
Placed(sc) ==
  LET at[d \in 0..MAX_SUBSURFACE_DEPTH] ==
        IF d = 0 THEN <<>>
        ELSE LET above == at[d - 1]
                 hangs(node) == node.parent = NoSurface \/ node.parent \in DOMAIN above
                 base(node) == IF node.parent = NoSurface THEN 0 ELSE above[node.parent]
             IN  [id \in {x \in Live(sc) : IsVisible(sc.nodes[x]) /\ hangs(sc.nodes[x])} |->
                    base(sc.nodes[id]) + sc.nodes[id].offset]
  IN  at[MAX_SUBSURFACE_DEPTH]

IsMapped(sc, id) == id \in DOMAIN Placed(sc)

(* The cells that a set of nodes covers; an unmapped node covers none.       *)
CellsOf(sc, ids) ==
  LET at == Placed(sc)
  IN  UNION {at[id]..(at[id] + sc.nodes[id].size - 1) : id \in ids \cap DOMAIN at}

NodeCells(sc, id) == CellsOf(sc, {id})

(* A node and every descendant its children lists reach.                     *)
Subtree(sc, id) ==
  LET kids(S) == UNION {ToSet(sc.nodes[p].children) : p \in S \cap Live(sc)}
      reach[d \in 0..MAX_SUBSURFACE_DEPTH] ==
        IF d = 0 THEN {id} ELSE LET above == reach[d - 1] IN above \cup kids(above)
  IN  reach[MAX_SUBSURFACE_DEPTH]

SubtreeCells(sc, id) == CellsOf(sc, Subtree(sc, id))

(* The nodes of one tree that are in `mapped`, in composition order; a       *)
(* node's own entry in its children list says where it stands among its      *)
(* children.  `flat` is by the levels that the depth guard still allows.     *)
FlattenSubtree(sc, root, mapped) ==
  LET own(id) == IF id \in mapped THEN <<id>> ELSE <<>>
      flat[d \in 0..(MAX_SUBSURFACE_DEPTH + 1)] ==
        [id \in Surface |->
           IF d = 0 \/ id \notin Live(sc) THEN <<>>
           ELSE IF sc.nodes[id].children = <<>> THEN own(id)
           ELSE LET kids == sc.nodes[id].children
                IN  FlattenSeq([i \in DOMAIN kids |->
                                  IF kids[i] = id THEN own(id) ELSE flat[d - 1][kids[i]]])]
  IN  flat[MAX_SUBSURFACE_DEPTH + 1][root]

CompositionOrder(sc) ==
  LET roots  == Ascending({id \in Live(sc) : sc.nodes[id].parent = NoSurface})
      mapped == DOMAIN Placed(sc)
  IN  FlattenSeq([i \in DOMAIN roots |-> FlattenSubtree(sc, roots[i], mapped)])

-----------------------------------------------------------------------------
(* Operations.  Each is a no-op on a surface the scene does not know.        *)

AddDamage(sc, cells) == [sc EXCEPT !.damage = @ \cup cells]

(* `after`, with what id itself covered before and covers now damaged.       *)
DamagingNode(sc, after, id) ==
  AddDamage(after, NodeCells(sc, id) \cup NodeCells(after, id))

(* The same for everything in id's subtree.                                  *)
DamagingSubtree(sc, after, id) ==
  AddDamage(after, SubtreeCells(sc, id) \cup SubtreeCells(after, id))

Created(sc, id, client) ==
  [sc EXCEPT !.nodes = Inserted(@, id, FreshNode(client))]

(* SurfaceDestroyed removes the one node: links to it in other nodes stay.   *)
Destroyed(sc, id) ==
  [AddDamage(sc, SubtreeCells(sc, id))
     EXCEPT !.nodes = [x \in Live(sc) \ {id} |-> @[x]]]

(* Mutant of ClientGone: what the client's surfaces covered is not damaged.  *)
ClientGoneSilently(sc, client) ==
  LET lost == {id \in Live(sc) : sc.nodes[id].client = client}
      kept(id) == [sc.nodes[id] EXCEPT !.children = Without(@, lost)]
  IN  [sc EXCEPT !.nodes = [id \in Live(sc) \ lost |-> kept(id)]]

ClientGone(sc, client) ==
  LET lost == {id \in Live(sc) : sc.nodes[id].client = client}
      kept(id) == [sc.nodes[id] EXCEPT !.children = Without(@, lost)]
  IN  [AddDamage(sc, CellsOf(sc, lost))
         EXCEPT !.nodes = [id \in Live(sc) \ lost |-> kept(id)]]

SetRole(sc, id, newRole) ==
  IF id \notin Live(sc) THEN sc
  ELSE DamagingNode(sc, [sc EXCEPT !.nodes[id].role = newRole], id)

AttachSubsurface(sc, child, par) ==
  IF {child, par} \subseteq Live(sc)
  THEN LET old   == sc.nodes[par].children
           start == IF old = <<>> THEN <<par>> ELSE old
           kids  == IF Contains(start, child) THEN start ELSE Append(start, child)
       IN  DamagingSubtree(sc, [sc EXCEPT !.nodes[child].parent = par,
                                          !.nodes[child].role = "subsurface",
                                          !.nodes[par].children = kids], child)
  ELSE sc

SetGeometry(sc, id, offset, size) ==
  IF id \notin Live(sc) THEN sc
  ELSE DamagingNode(sc, [sc EXCEPT !.nodes[id].offset = offset,
                                   !.nodes[id].size = size], id)

SetSubsurfacePosition(sc, id, offset) ==
  IF id \notin Live(sc) \/ sc.nodes[id].offset = offset THEN sc
  ELSE DamagingSubtree(sc, [sc EXCEPT !.nodes[id].offset = offset], id)

SetChildOrder(sc, par, order) ==
  IF par \notin Live(sc) \/ sc.nodes[par].children = order THEN sc
  ELSE DamagingSubtree(sc, [sc EXCEPT !.nodes[par].children = order], par)

(* A new extent damages the node's old and new extents; the same extent      *)
(* damages the client's rectangles (`rects`, surface-local) clipped to it.   *)
AttachContent(sc, id, block, opaque, rects) ==
  IF id \notin Live(sc) THEN sc
  ELSE LET after == [sc EXCEPT !.nodes[id].size = Len(block),
                               !.nodes[id].source = block,
                               !.nodes[id].opaque = opaque]
           old   == NodeCells(sc, id)
           new   == NodeCells(after, id)
       IN  IF old # new \/ new = {} THEN AddDamage(after, old \cup new)
           ELSE AddDamage(after, {Min(new) + x : x \in rects} \cap new)

(* Unmapping unmaps the whole subtree, and that is what is damaged.          *)
ClearSource(sc, id) ==
  IF id \notin Live(sc) THEN sc
  ELSE [AddDamage(sc, SubtreeCells(sc, id))
          EXCEPT !.nodes[id].source = NoPixels, !.nodes[id].opaque = FALSE]

DamageFull(sc) == [sc EXCEPT !.full = TRUE]

(* One effective commit: its updates applied in order, as one message.       *)
ApplyUpdate(sc, u) ==
  CASE u.kind = "geometry" -> SetGeometry(sc, u.surface, u.offset, u.size)
    [] u.kind = "position" -> SetSubsurfacePosition(sc, u.surface, u.offset)
    [] u.kind = "order"    -> SetChildOrder(sc, u.surface, u.order)
    [] u.kind = "content"  -> AttachContent(sc, u.surface, u.block, u.opaque, u.rects)
    [] u.kind = "unmap"    -> ClearSource(sc, u.surface)

Applied(sc, updates) ==
  LET applied[i \in 0..Len(updates)] ==
        IF i = 0 THEN sc ELSE ApplyUpdate(applied[i - 1], updates[i])
  IN  applied

ApplyCommit(sc, updates) == Applied(sc, updates)[Len(updates)]

-----------------------------------------------------------------------------
(* The snapshot and the retained-frame compositor of backend-headless.       *)

SnapshotNode(node, offset) == [at |-> offset, source |-> node.source, opaque |-> node.opaque]

SnapshotNodes(sc) ==
  LET ids == CompositionOrder(sc)
      at  == Placed(sc)
  IN  [i \in DOMAIN ids |-> SnapshotNode(sc.nodes[ids[i]], at[ids[i]])]

Drained(sc) == [sc EXCEPT !.damage = {}, !.full = FALSE]

Clear == << <<"clear", "copy">> >>

(* source_over: an opaque node, or an opaque pixel, replaces what is below;  *)
(* a translucent one is layered on it.                                       *)
SourceOver(below, node, cell) ==
  LET i == cell - node.at + 1
  IN  IF i \notin DOMAIN node.source THEN below
      ELSE IF node.source[i] \notin Translucent THEN << <<node.source[i], "copy">> >>
      ELSE IF node.opaque THEN << <<node.source[i], "forced">> >>
      ELSE Append(below, <<node.source[i], "over">>)

Composite(nodes, cell) ==
  LET painted[i \in 0..Len(nodes)] ==
        IF i = 0 THEN Clear ELSE SourceOver(painted[i - 1], nodes[i], cell)
  IN  painted[Len(nodes)]

(* What compositing the scene from nothing puts in a cell.                   *)
FromScratch(sc) ==
  LET nodes == SnapshotNodes(sc) IN [c \in Output |-> Composite(nodes, c)]

(* Recompute the damaged cells of the retained frame, keep the others.       *)
CompositeInto(retained, sc) ==
  LET nodes == SnapshotNodes(sc)
  IN  [c \in Output |-> IF sc.full \/ c \in sc.damage
                        THEN Composite(nodes, c) ELSE retained[c]]
=============================================================================
