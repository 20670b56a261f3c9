------------------------- MODULE ProtocolInvariants -------------------------
(***************************************************************************)
(* What the proofs about Protocol.tla say of a state.  IInv is the         *)
(* inductive invariant for the types and keyboard focus, DInv the one for  *)
(* damage, which holds beside it; the other operators are their parts and  *)
(* the terms in which ProtocolProofs argues.                               *)
(***************************************************************************)
EXTENDS Protocol

-----------------------------------------------------------------------------
(* Lists.                                                                    *)

(* list has the elements of S in ascending order.                            *)
Lists(list, S) ==
  /\ list \in Seq(S)
  /\ \A x \in S : \E i \in 1..Len(list) : list[i] = x
  /\ \A i, j \in 1..Len(list) : i < j => list[i] < list[j]

(* Ascending as its recursion builds it, one number after the other.         *)
AscendsBy(g, n, S) ==
  /\ g[0] = <<>>
  /\ \A i \in 1..n : g[i] = IF i - 1 \in S THEN Append(g[i - 1], i - 1) ELSE g[i - 1]

(* Without as its recursion builds it, one element after the other.          *)
KeepsBy(g, list, S) ==
  /\ g[0] = <<>>
  /\ \A i \in 1..Len(list) :
       g[i] = IF list[i] \in S THEN g[i - 1] ELSE Append(g[i - 1], list[i])

(* rest is list without the elements in S.                                   *)
Remains(rest, list, S, U) ==
  /\ rest \in Seq(U)
  /\ \A i \in 1..Len(rest) : rest[i] \notin S /\ \E j \in 1..Len(list) : list[j] = rest[i]
  /\ \A j \in 1..Len(list) : list[j] \notin S => \E i \in 1..Len(rest) : rest[i] = list[j]

-----------------------------------------------------------------------------
(* The scene.                                                                *)

(* The types of the map of the nodes, and of a scene.                        *)
Forests == UNION {[S -> Nodes] : S \in SUBSET Surface}

Scenes == [nodes : Forests, damage : SUBSET Int, full : BOOLEAN]

(* The places of the nodes level by level: at[d] has those whose chain to a  *)
(* root is of at most d nodes, all of them visible.                          *)
Hangs(node, above) == node.parent = NoSurface \/ node.parent \in DOMAIN above

(* Where the offset of a node counts from.                                   *)
Origin(node, above) == IF node.parent = NoSurface THEN 0 ELSE above[node.parent]

(* The nodes that have a place when those in `above` have one.               *)
PlacedBelow(sc, above) == {x \in Live(sc) : IsVisible(sc.nodes[x]) /\ Hangs(sc.nodes[x], above)}

Places(at, sc) ==
  /\ at[0] = <<>>
  /\ \A d \in 0..MAX_SUBSURFACE_DEPTH : \E S \in SUBSET Live(sc) : at[d] \in [S -> Int]
  /\ \A d \in 1..MAX_SUBSURFACE_DEPTH :
       at[d] = [id \in PlacedBelow(sc, at[d - 1]) |->
                  Origin(sc.nodes[id], at[d - 1]) + sc.nodes[id].offset]

(* The nodes that set_geometry and attach_content make.                      *)
Sized(node, offset, size) == [node EXCEPT !.offset = offset, !.size = size]

Filled(node, block, opaque) ==
  [node EXCEPT !.size = Len(block), !.source = block, !.opaque = opaque]

(* par after child was attached to it: child may be new in its list.         *)
GainedChild(node, before, par, child) ==
  \E kids \in Seq(Surface) :
    /\ node = [before EXCEPT !.children = kids]
    /\ \E i \in 1..Len(kids) : kids[i] = par
    /\ \A i \in 1..Len(kids) :
         kids[i] \in {child, par} \/ \E j \in 1..Len(before.children) : before.children[j] = kids[i]

(* The node that attach_subsurface makes of the child.                       *)
HungBelow(node, par) == [node EXCEPT !.parent = par, !.role = "subsurface"]

-----------------------------------------------------------------------------
(* Smithay's tree, the toplevels, the routing table: the inductive           *)
(* invariant.                                                                *)

(* A stacking order, or a children list, of s holds s itself and others that *)
(* are in S.                                                                 *)
Around(list, s, S) ==
  /\ list # <<>> => \E i \in 1..Len(list) : list[i] = s
  /\ \A i \in 1..Len(list) : list[i] = s \/ list[i] \in S

(* A surface's children in Smithay's tree.                                   *)
Children(w, s) == {x \in DOMAIN w : w[x].parent = s}

(* Smithay's tree: children hang below their parents, and only a subsurface  *)
(* hangs, is synchronized or has a commit cached.                            *)
TreeOK(w) ==
  /\ DOMAIN w \in SUBSET Surface
  /\ w \in [DOMAIN w -> WlSurfaces]
  /\ \A s \in DOMAIN w :
       /\ w[s].parent \in (DOMAIN w \ {s}) \cup {NoSurface}
       /\ w[s].role # "subsurface" =>
            w[s].parent = NoSurface /\ w[s].cached = Nothing /\ ~w[s].sync
       /\ Around(w[s].order, s, Children(w, s))

(* SurfaceIds are handed out in order and never again.                       *)
IdsOK ==
  /\ nextSurface \in Nat /\ nextToplevel \in Nat
  /\ \A s \in DOMAIN wl : s < nextSurface

(* A toplevel is mapped exactly while it has pixels.                         *)
ToplevelsOK(w, pix, tops) ==
  /\ DOMAIN tops \in SUBSET (DOMAIN w)
  /\ tops \in [DOMAIN tops -> Toplevels]
  /\ DOMAIN pix \in SUBSET (DOMAIN w)
  /\ pix \in [DOMAIN pix -> Blocks]
  /\ \A s \in DOMAIN tops : /\ w[s].role = "toplevel"
                            /\ tops[s].mapped <=> s \in DOMAIN pix
                            /\ tops[s].mapped => tops[s].configure = "acked"

(* The windows of the routing table, and those of the toplevels.             *)
Focusable(table) == {s \in DOMAIN table : table[s].focusable}

(* The windows of the routing table are S, stacked by SurfaceId.             *)
TableOK(table, S) ==
  /\ DOMAIN table \in SUBSET Surface
  /\ table \in [DOMAIN table -> Entries]
  /\ Focusable(table) = S
  /\ \A r, s \in S : r < s => table[r].z < table[s].z

MappedToplevels(tops) == {s \in DOMAIN tops : tops[s].mapped}

(* The scene has a node for each surface of a client that is still there,    *)
(* and the node agrees with what this thread knows of the surface.           *)
NodeOK(node, s, w, next, pix, tops) ==
  /\ node.client = w[s].client
  /\ node.role = "toplevel" <=> s \in DOMAIN tops
  /\ node.parent # NoSurface => w[s].role = "subsurface"
  /\ node.source # NoPixels <=> s \in DOMAIN pix
  /\ node.source # NoPixels => node.size > 0
  /\ Around(node.children, s, {x \in Surface : /\ x < next
                                               /\ x \in DOMAIN w => w[x].role = "subsurface"})

(* The scene has those nodes and no others.                                  *)
SceneOK(sc, w, away, next, pix, tops) ==
  /\ sc \in Scenes
  /\ Live(sc) = {s \in DOMAIN w : w[s].client \notin away}
  /\ \A s \in Live(sc) : NodeOK(sc.nodes[s], s, w, next, pix, tops)

(* The render side is of the right types.                                    *)
ScreenOK ==
  /\ DOMAIN screen = Output
  /\ exposed \in SUBSET Surface

(* The inductive invariant for types and focus.                              *)
IInv ==
  /\ TreeOK(wl)
  /\ IdsOK
  /\ gone \in SUBSET Client
  /\ ToplevelsOK(wl, pixels, toplevels)
  /\ TableOK(focusMap, MappedToplevels(toplevels))
  /\ keyboardFocus = Focus!Topmost(focusMap)
  /\ SceneOK(scene, wl, gone, nextSurface, pixels, toplevels)
  /\ ScreenOK

(* What is left of the types, beside it: the routing table is of live        *)
(* surfaces, and the frame of layers.                                        *)
SidesOK == DOMAIN focusMap \subseteq alive /\ screen \in [Output -> Stacks]

(* But for s, v has every child that w has in a stacking order.              *)
KeepsKids(w, v, s) ==
  \A x \in DOMAIN w \ {s} : \A y \in ToSet(w[x].order) \ {s, x} : y \in ToSet(v[x].order)

(* s gone, its children left without a parent.                               *)
Orphaned(w, s) ==
  LET u == Drop(Unlinked(w, s), s)
  IN  [x \in DOMAIN u |-> IF u[x].parent = s
                          THEN [u[x] EXCEPT !.parent = NoSurface, !.sync = FALSE, !.cached = Nothing]
                          ELSE u[x]]

-----------------------------------------------------------------------------
(* What a commit carries, and what it leaves of a scene.                     *)

(* The updates of a commit.                                                  *)
Updates ==
  [kind : {"position"}, surface : Surface, offset : Int]
    \cup [kind : {"geometry"}, surface : Surface, size : Nat \ {0}, offset : Int]
    \cup [kind : {"order"}, surface : Surface, order : Seq(Surface)]
    \cup [kind : {"content"}, surface : Surface, block : Blocks, opaque : BOOLEAN, rects : SUBSET Int]
    \cup [kind : {"unmap"}, surface : Surface]

(* The updates about x alone, when x assigned a.                             *)
OwnUpdates(set, x, a, tops) ==
  /\ \A u \in set : u \in Updates /\ u.surface = x /\ u.kind # "order"
  /\ \A u \in set :
       u.kind = "content" => LET built == BuildPixelBlock(BlockOf(x), a.buffer, a.damage)
                             IN  u.block = built.block /\ u.rects = built.rects
  /\ (\E u \in set : u.kind = "content") <=> (a # Nothing /\ a.kind # "detach")
  /\ (\E u \in set : u.kind = "unmap") <=> (a # Nothing /\ a.kind = "detach")
  /\ (\E u \in set : u.kind = "geometry") <=>
        (a # Nothing /\ a.kind # "detach" /\ x \in DOMAIN tops /\ ~tops[x].mapped)

(* Everything in list is one of the updates a surface of w has, with all the *)
(* others that surface has, or a stacking order; and a surface that is not   *)
(* one of roots is a subsurface.                                             *)
Gathered(list, w, assigned, roots) ==
  /\ list \in Seq(Updates)
  /\ \A u \in ToSet(list) :
       /\ u.surface \in DOMAIN w
       /\ u.kind = "order" \/ u.surface \in roots \/ w[u.surface].role = "subsurface"
       /\ IF u.kind = "order" THEN u.order = OrderedChildren(w, u.surface)
          ELSE LET own == ToSet(CollectSurface(w, u.surface, assigned[u.surface]))
               IN  u \in own /\ own \subseteq ToSet(list)

(* What every surface may have assigned.                                     *)
AssignedOK(w, assigned) == \A x \in DOMAIN w : assigned[x] \in Acts

(* What an update makes of the node it is about.                             *)
NodeAfter(node, before, u) ==
  /\ node \in Nodes
  /\ node.client = before.client /\ node.role = before.role /\ node.parent = before.parent
  /\ node.children = IF u.kind = "order" THEN u.order ELSE before.children
  /\ u.kind = "content" => node.source = u.block /\ node.source # NoPixels /\ node.size > 0
  /\ u.kind = "unmap" => node.source = NoPixels
  /\ u.kind \notin {"content", "unmap"} => node.source = before.source
  /\ before.source # NoPixels /\ before.size > 0 => node.size > 0

(* Whether one of the first i updates is of that kind and about x.           *)
Among(updates, i, kind, x) ==
  \E j \in 1..i : updates[j].kind = kind /\ updates[j].surface = x

(* The node of x after the first i updates.                                  *)
NodeSince(node, before, updates, i, x) ==
  /\ node.client = before.client /\ node.role = before.role /\ node.parent = before.parent
  /\ \/ node.children = before.children
     \/ \E j \in 1..i : /\ updates[j].kind = "order" /\ updates[j].surface = x
                        /\ node.children = updates[j].order
  /\ node.source # NoPixels <=>
       \/ Among(updates, i, "content", x)
       \/ before.source # NoPixels /\ ~Among(updates, i, "unmap", x)
  /\ Among(updates, i, "content", x) =>
       \E j \in 1..i : /\ updates[j].kind = "content" /\ updates[j].surface = x
                      /\ node.source = updates[j].block
  /\ ~Among(updates, i, "content", x) /\ ~Among(updates, i, "unmap", x) =>
       node.source = before.source
  /\ node.source # NoPixels => node.size > 0

(* No surface is given content and unmapped by the same commit.              *)
Decided(updates) ==
  \A x : ~(Among(updates, Len(updates), "content", x) /\ Among(updates, Len(updates), "unmap", x))

(* A commit leads from sc through the scenes of run, one for each update.    *)
LeadsThrough(run, sc, updates) ==
  /\ run[0] = sc
  /\ \A i \in 1..Len(updates) : run[i] = ApplyUpdate(run[i - 1], updates[i])
  /\ \A i \in 0..Len(updates) :
       /\ run[i] \in Scenes /\ Live(run[i]) = Live(sc)
       /\ \A x \in Live(sc) : NodeSince(run[i].nodes[x], sc.nodes[x], updates, i, x)

-----------------------------------------------------------------------------
(* The routing table, and composition order.                                 *)

(* A surface and where it is drawn.                                          *)
Spots == Surface \X Int

(* What a tree shows: its root, if it has pixels, and subsurfaces.           *)
Shows(shown, w, pix, root) ==
  /\ shown \in Seq(Spots)
  /\ \A i \in 1..Len(shown) :
       /\ shown[i][1] \in DOMAIN pix
       /\ shown[i][1] = root \/ w[shown[i][1]].role = "subsurface"

(* What a node draws of itself, and with what its children draw.             *)
OwnPlace(id, mapped) == IF id \in mapped THEN <<id>> ELSE <<>>

(* What each of a node's children draws, the node itself among them.         *)
Branches(kids, id, own, below) ==
  [i \in DOMAIN kids |-> IF kids[i] = id THEN own ELSE below[kids[i]]]

Arranged(kids, id, own, below) ==
  IF kids = <<>> THEN own ELSE FlattenSeq(Branches(kids, id, own, below))

(* The trees of the scene drawn level by level.                              *)
Flattens(flat, sc, mapped) ==
  /\ flat \in [0..(MAX_SUBSURFACE_DEPTH + 1) -> [Surface -> Seq(mapped)]]
  /\ \A id \in Surface : flat[0][id] = <<>>
  /\ \A d \in 1..(MAX_SUBSURFACE_DEPTH + 1) : \A id \in Surface :
       flat[d][id] = IF id \notin Live(sc) THEN <<>>
                     ELSE Arranged(sc.nodes[id].children, id, OwnPlace(id, mapped), flat[d - 1])

(* No window hangs below another node.                                       *)
WindowsHangNowhere(sc, W) ==
  \A id \in Live(sc) : Around(sc.nodes[id].children, id, Surface \ W)

(* What a tree of the scene draws: its root, if it is mapped, and nothing of *)
(* W besides.                                                                *)
Draws(shown, root, W) ==
  /\ shown \in Seq(Surface)
  /\ \A i \in 1..Len(shown) : shown[i] = root \/ shown[i] \notin W

(* Every tree does.                                                          *)
AllDraw(above, W) ==
  above \in [Surface -> Seq(Surface)] /\ \A x \in Surface : Draws(above[x], x, W)

(* A tree that changes without adding or removing anyone, the scene as it is *)
(* or with one node, that of s, replaced.                                    *)
SameSurfaces(w, v) ==
  /\ DOMAIN v = DOMAIN w
  /\ \A x \in DOMAIN w : /\ v[x].client = w[x].client
                         /\ w[x].role = "subsurface" => v[x].role = "subsurface"

-----------------------------------------------------------------------------
(* A commit as the dispatch thread sees it.                                  *)

(* What a commit sends: content for the surfaces it attaches a buffer to, an *)
(* unmap for those it attaches a null one to, geometry for a toplevel whose  *)
(* content is its first, and stacking orders.                                *)
CommitUpdates(updates, w, assigned) ==
  LET content == Updated(updates, "content")
      unmap   == Updated(updates, "unmap")
  IN  /\ updates \in Seq(Updates)
      /\ content \in SUBSET (DOMAIN w) /\ unmap \in SUBSET (DOMAIN w) /\ content \cap unmap = {}
      /\ \A x \in content \cup unmap : assigned[x] # Nothing
      /\ Updated(updates, "geometry") = {x \in content \cap DOMAIN toplevels : ~toplevels[x].mapped}
      /\ \A i \in 1..Len(updates) :
           updates[i].kind = "order" =>
             /\ updates[i].surface \in DOMAIN w
             /\ updates[i].order = OrderedChildren(w, updates[i].surface)

(* Who may commit what: only the committing surface may be a toplevel with   *)
(* an assignment, and then its configure is acknowledged.                    *)
CommitOf(s, w, assigned) ==
  /\ TreeOK(w) /\ DOMAIN w = DOMAIN wl /\ s \in DOMAIN w
  /\ \A x \in DOMAIN w : w[x].client = wl[x].client /\ w[x].role = wl[x].role
  /\ AssignedOK(w, assigned)
  /\ \A x \in DOMAIN toplevels : assigned[x] # Nothing => x = s /\ toplevels[x].configure = "acked"

-----------------------------------------------------------------------------
(* What a scene paints in one cell.                                          *)

(* What a node, or a list of nodes, does to a cell.                          *)
Effects == [Stacks -> Stacks]

(* A surface that is not drawn does nothing.                                 *)
NoEffect == [below \in Stacks |-> below]

(* First f, then g.                                                          *)
Then(f, g) == [below \in Stacks |-> g[f[below]]]

(* One after the other.                                                      *)
Chained(fs) ==
  LET upto[i \in 0..Len(fs)] == IF i = 0 THEN NoEffect ELSE Then(upto[i - 1], fs[i])
  IN  upto[Len(fs)]

(* The effects of the prefixes of fs, one after the other.                   *)
PrefixEffects(upto, fs) ==
  /\ upto \in [0..Len(fs) -> Effects]
  /\ upto[0] = NoEffect
  /\ \A i \in 1..Len(fs) : upto[i] = Then(upto[i - 1], fs[i])

(* What a list of surfaces paints, each with its own brush.                  *)
Strokes(list, brush) == [i \in 1..Len(list) |-> brush[list[i]]]

(* What they paint together.                                                 *)
Painted(list, brush) == Chained(Strokes(list, brush))

(* What each surface paints.                                                 *)
Brushes == [Surface -> Effects]

(* What a node paints of itself and with what its children paint.            *)
Layers(kids, id, own, below) ==
  [i \in 1..Len(kids) |-> IF kids[i] = id THEN own ELSE below[kids[i]]]

(* ... and that as one effect.                                               *)
Composed(kids, id, own, below) == IF kids = <<>> THEN own ELSE Chained(Layers(kids, id, own, below))

(* paint is what the lists in `below` paint.                                 *)
Depicts(paint, below, brush) == \A x \in Surface : paint[x] = Painted(below[x], brush)

(* What a node paints in one cell.                                           *)
Drawn == [at : Int, source : Blocks, opaque : BOOLEAN]

(* What that is as an effect.                                                *)
Laid(node, cell) == [below \in Stacks |-> SourceOver(below, node, cell)]

(* What each surface of a scene paints in one cell, by itself.               *)
Brush(sc, cell) ==
  [x \in Surface |-> IF x \in DOMAIN Placed(sc)
                     THEN Laid(SnapshotNode(sc.nodes[x], Placed(sc)[x]), cell) ELSE NoEffect]

(* The node x is drawn over the cell.                                        *)
Covers(sc, x, cell) ==
  x \in DOMAIN Placed(sc) /\ cell \in Placed(sc)[x]..(Placed(sc)[x] + sc.nodes[x].size - 1)

(* The size of a node is that of its pixels.                                 *)
Fitted(sc) == \A x \in Live(sc) : LET node == sc.nodes[x]
                                  IN  node.source # NoPixels => node.size = Len(node.source)

(* The roots S below n, in ascending order; other numbers paint nothing.     *)
RootLayers(S, top, n) == [i \in 1..n |-> IF i - 1 \in S THEN top[i - 1] ELSE NoEffect]

(* The trees painted level by level.                                         *)
Paints(paint, sc, brush) ==
  /\ paint \in [0..(MAX_SUBSURFACE_DEPTH + 1) -> Brushes]
  /\ \A x \in Surface : paint[0][x] = NoEffect
  /\ \A d \in 1..(MAX_SUBSURFACE_DEPTH + 1) : \A x \in Surface :
       paint[d][x] = IF x \notin Live(sc) THEN NoEffect
                     ELSE Composed(sc.nodes[x].children, x, brush[x], paint[d - 1])

(* The nodes that hang nowhere.                                              *)
Roots(sc) == {x \in Live(sc) : sc.nodes[x].parent = NoSurface}

(* What each level of the flattened trees paints.                            *)
PaintedLevels(flat, brush) ==
  [d \in 0..(MAX_SUBSURFACE_DEPTH + 1) |-> [x \in Surface |-> Painted(flat[d][x], brush)]]

(* A number above every SurfaceId.                                           *)
Above(n) == \A x \in Surface : x < n

-----------------------------------------------------------------------------
(* Two scenes that paint a cell the same way, and what a change reaches.     *)

(* The surfaces Q paint nothing, however deep they stand.                    *)
Silent(paint, Q) == \A d \in 0..(MAX_SUBSURFACE_DEPTH + 1) : \A x \in Q : paint[d][x] = NoEffect

(* x composes the list now as it did kids, if Q paints nothing.              *)
Relisted(kids, now, x, Q) ==
  \A own \in Effects, below \in Brushes :
    (\A y \in Q : below[y] = NoEffect) => Composed(now, x, own, below) = Composed(kids, x, own, below)

(* The scenes' trees are the same, but for the surfaces Q.                   *)
SameTrees(sc, after, Q) ==
  /\ Live(sc) \ Q = Live(after) \ Q
  /\ \A x \in Live(sc) \ Q :
       /\ Relisted(sc.nodes[x].children, after.nodes[x].children, x, Q)
       /\ sc.nodes[x].parent = NoSurface <=> after.nodes[x].parent = NoSurface

(* What is reached from below by children's lists: a family of sets, each    *)
(* with the children of those in the one before it.                          *)
Spreads(reach, sc) ==
  \A e \in 1..MAX_SUBSURFACE_DEPTH :
    /\ reach[e - 1] \subseteq reach[e]
    /\ \A p \in reach[e - 1] \cap Live(sc) : ToSet(sc.nodes[p].children) \cap Live(sc) \subseteq reach[e]

(* A list's layers as the strokes of one brush.                              *)
ListBrush(x, own, below) == [y \in Surface |-> IF y = x THEN own ELSE below[y]]

(* A family of sets that spreads from its first, none above the last.        *)
Reaches(reach, sc) ==
  /\ Spreads(reach, sc)
  /\ \A e \in 0..MAX_SUBSURFACE_DEPTH :
       reach[0] \subseteq reach[e] /\ reach[e] \subseteq reach[MAX_SUBSURFACE_DEPTH]

(* A set closed under children's lists reaches nothing else.                 *)
Always(S) == [e \in 0..MAX_SUBSURFACE_DEPTH |-> S]

(* A node with a live parent is in that parent's list.                       *)
Listed(sc) ==
  \A x \in Live(sc) : sc.nodes[x].parent \in Live(sc) => x \in ToSet(sc.nodes[sc.nodes[x].parent].children)

(* A visible node of sc is one of `after`, and hangs where it did.           *)
Hung(sc, after, x) ==
  IsVisible(sc.nodes[x]) =>
    /\ x \in Live(after) /\ IsVisible(after.nodes[x])
    /\ after.nodes[x].parent = sc.nodes[x].parent /\ after.nodes[x].offset = sc.nodes[x].offset

(* A scene in which the links and the sizes are those of the protocol.       *)
Neat(sc) == sc \in Scenes /\ Fitted(sc) /\ Listed(sc)

(* A visible node of sc is the same one in `after`.                          *)
Kept(sc, after, x) ==
  IsVisible(sc.nodes[x]) =>
    LET node == sc.nodes[x]
        now  == after.nodes[x]
    IN  /\ x \in Live(after) /\ IsVisible(now)
        /\ now.parent = node.parent /\ now.offset = node.offset
        /\ now.size = node.size /\ now.source = node.source /\ now.opaque = node.opaque

(* What shows in a cell in sc shows there in `after`.                        *)
Seen(sc, after, cell) ==
  \A x \in DOMAIN Placed(sc) : Covers(sc, x, cell) =>
    LET node == sc.nodes[x]
        now  == after.nodes[x]
    IN  /\ x \in DOMAIN Placed(after) /\ Placed(after)[x] = Placed(sc)[x]
        /\ now.size = node.size /\ now.source = node.source /\ now.opaque = node.opaque

(* The surfaces that differ, and those in Q, are the first of those reached. *)
Spares(sc, after, Q, reach) ==
  /\ Reaches(reach, sc)
  /\ Q \subseteq reach[0]
  /\ \A x \in Live(sc) \ reach[0] : Kept(sc, after, x)

-----------------------------------------------------------------------------
(* Damage that is conservative.                                              *)

(* The two scenes composite a cell to the same, and nothing left it.         *)
Alike(sc, after, cell) ==
  /\ Composite(SnapshotNodes(after), cell) = Composite(SnapshotNodes(sc), cell)
  /\ \A x : Covers(sc, x, cell) => Covers(after, x, cell)

(* `after` damages every cell that it shows otherwise than sc, but for those *)
(* of `gained`; and all that `lost` covers.                                  *)
Conservative(sc, after, lost, gained) ==
  /\ sc.full => after.full
  /\ sc.damage \subseteq after.damage
  /\ \A cell \in Output \ after.damage :
       \/ cell \in CellsOf(after, gained)
       \/ Alike(sc, after, cell) /\ \A x \in lost : ~Covers(sc, x, cell)

(* What is on screen is what a composite from nothing would show, but in     *)
(* cells that are damaged or lie under the exposed surfaces.                 *)
Fresh(sc, frame, ids) ==
  sc.full \/ \A cell \in Output : \/ cell \in sc.damage
                                  \/ cell \in CellsOf(sc, ids)
                                  \/ frame[cell] = Composite(SnapshotNodes(sc), cell)

(* The same surfaces, each but id the same as long as it shows; what id and  *)
(* its subtree cover before and after is damaged.                            *)
SameBut(sc, after, id) ==
  /\ Live(after) = Live(sc)
  /\ \A x \in Live(sc) \ {id} : Kept(sc, after, x) /\ Kept(after, sc, x)

(* The nodes of a scene with one replaced.                                   *)
Swapped(sc, id, node) == [sc.nodes EXCEPT ![id] = node]

(* A scene with one node replaced is a scene, and damages nothing more.      *)
Replaces(mid, sc, id, node) == mid = [sc EXCEPT !.nodes = Swapped(sc, id, node)]

(* Nodes that leave: the others stay as they are, and hang where they did.   *)
Leaves(sc, after, Q) ==
  /\ Live(after) = Live(sc) \ Q
  /\ \A x \in Live(sc) \ Q : Kept(sc, after, x) /\ Kept(after, sc, x)

(* Whatever a list names that is live is the same client's.                  *)
Kin(sc) ==
  \A p \in Live(sc) : \A y \in ToSet(sc.nodes[p].children) \cap Live(sc) :
    sc.nodes[y].client = sc.nodes[p].client

(* A node's list of children, unless empty, has its own entry.               *)
SelfListed(sc) == \A x \in Live(sc) : Around(sc.nodes[x].children, x, Surface)

(* A list after one more child has been attached to it.                      *)
MoreKids(old, par, child) ==
  LET start == IF old = <<>> THEN <<par>> ELSE old
  IN  IF Contains(start, child) THEN start ELSE Append(start, child)

(* A block differs from the pixels it replaces in the rectangles only, and   *)
(* the rectangles are all of it if the whole surface is repainted.           *)
Patches(sc, id, block, rects, whole) ==
  /\ LET shown == sc.nodes[id].source
     IN  shown # NoPixels /\ Len(shown) = Len(block) =>
           \A i \in 1..Len(block) : i - 1 \in rects \/ block[i] = shown[i]
  /\ whole => \A i \in 1..Len(block) : i - 1 \in rects

(* What new content of id shows without damaging it.                         *)
Gained(sc, after, id, whole) ==
  (DOMAIN Placed(after) \ (DOMAIN Placed(sc) \cup {id}))
    \cup {s \in {id} \cap Live(sc) : ~whole /\ sc.nodes[s].opaque # after.nodes[s].opaque}

-----------------------------------------------------------------------------
(* The updates of a commit, as damage.                                       *)

(* The content of a surface is the block built from what it shows and what   *)
(* it assigned.                                                              *)
ContentBuilt(updates, assigned) ==
  \A u \in ToSet(updates) : u.kind = "content" =>
    LET a     == assigned[u.surface]
        built == BuildPixelBlock(BlockOf(u.surface), a.buffer, a.damage)
    IN  /\ a \in [kind : {"attach"}, buffer : [block : Blocks, opaque : BOOLEAN],
                  damage : SUBSET Int]
        /\ u.block = built.block /\ u.rects = built.rects

(* One step of ExposedAfter, and the steps.                                  *)
NextExposed(ids, before, after, u) ==
  LET kept == IF RepaintsAll(u) THEN ids \ {u.surface} ELSE ids
  IN  IF u.kind # "content" THEN ids
      ELSE kept \cup Revealed(before, after, u) \cup Reblended(before, after, u)

(* What an update must be to be conservative: an order names all the         *)
(* children, a place is given to what shows nothing yet, and content patches *)
(* what is shown.                                                            *)
Sound(sc, u) ==
  u.surface \in Live(sc) =>
    /\ u.kind = "order" =>
         \A x \in Live(sc) : sc.nodes[x].parent = u.surface => x \in ToSet(u.order)
    /\ u.kind = "geometry" => sc.nodes[u.surface].source = NoPixels
    /\ u.kind = "content" =>
         /\ LET shown == sc.nodes[u.surface].source
            IN  shown # NoPixels /\ Len(shown) = Len(u.block) =>
                  \A i \in 1..Len(u.block) : i - 1 \in u.rects \/ u.block[i] = shown[i]
         /\ RepaintsAll(u) => \A i \in 1..Len(u.block) : i - 1 \in u.rects

-----------------------------------------------------------------------------
(* The inductive invariant for damage.                                       *)

(* A surface and its parent are of one client, and the parent's stacking     *)
(* order has the surface.                                                    *)
LinkOK(w) ==
  \A x \in DOMAIN w : w[x].parent # NoSurface =>
    /\ w[w[x].parent].client = w[x].client
    /\ x \in ToSet(w[w[x].parent].order)

(* A node hangs where Smithay's surface does, if its parent is still there,  *)
(* and shows the pixels that this thread holds.                              *)
Follows(sc, w, next, pix) ==
  \A x \in Live(sc) :
    /\ sc.nodes[x].parent # NoSurface => sc.nodes[x].parent < next
    /\ sc.nodes[x].parent \in Live(sc) => w[x].parent = sc.nodes[x].parent
    /\ x \in DOMAIN pix => sc.nodes[x].source = pix[x]

(* With it, the frame is fresh but for what is exposed.                      *)
DInv ==
  /\ LinkOK(wl)
  /\ Follows(scene, wl, nextSurface, pixels)
  /\ Neat(scene)
  /\ Kin(scene)
  /\ Fresh(scene, screen, exposed)

(* A scene after sc that has no node and no link more, beside a tree v after *)
(* w and pixels `now` after pix.                                             *)
Dwindles(sc, after, w, v, pix, now) ==
  /\ Live(after) \subseteq Live(sc)
  /\ \A x \in Live(after) :
       /\ after.nodes[x].parent = sc.nodes[x].parent
       /\ after.nodes[x].client = sc.nodes[x].client
       /\ ToSet(after.nodes[x].children) \subseteq ToSet(sc.nodes[x].children)
       /\ sc.nodes[x].parent \in Live(after) => v[x].parent = w[x].parent
       /\ x \in DOMAIN now => /\ x \in DOMAIN pix /\ now[x] = pix[x]
                              /\ after.nodes[x].source = sc.nodes[x].source
=============================================================================
