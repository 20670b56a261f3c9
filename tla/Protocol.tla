------------------------------ MODULE Protocol ------------------------------
(***************************************************************************)
(* The dispatch thread of crates/core/src/protocol.rs, with the scene it   *)
(* publishes to and the frames the renderer composites from that scene.    *)
(*                                                                         *)
(* One action per handler Smithay calls (new_surface, new_toplevel,        *)
(* toplevel_destroyed, new_subsurface, commit, destroyed), one for a       *)
(* client's disconnection, and two for the render side (a frame, and the   *)
(* "repaint everything" of an output resize or a VT switch).  `wl` is      *)
(* Smithay's own state of each wl_surface, which the handlers read; it is  *)
(* external, and only legal requests are made of it.                       *)
(*                                                                         *)
(* The scene channel is one FIFO and each handler sends at most one        *)
(* message that changes what is drawn, so a handler's messages are applied *)
(* in its own step: a snapshot taken between two steps sees exactly the    *)
(* prefixes of the message stream a real one can see.                      *)
(***************************************************************************)
EXTENDS Scene

CONSTANTS
  Client,            \* ClientKeys
  Windows,           \* the surfaces the clients make toplevels of, if they use them
  Nothing,           \* no buffer assignment in a commit
  Buffers(_),        \* what a client may attach to a surface: [block: Seq(colour),
                     \* opaque: BOOLEAN], or NoPixels for a null buffer
  Damages,           \* what it may declare damaged: sets of surface-local cells
  Locations,         \* subsurface positions
  Origins(_),        \* window-geometry origins of a surface (set_window_geometry)
  Requests,          \* the optional requests and events of this instance
  CASCADE_ORIGIN, CASCADE_STEP, CASCADE_WRAP,
  MaxToplevels       \* bound of the model: toplevel roles ever assigned

ASSUME ProtocolAssumption ==
  /\ Requests \subseteq {"move", "restack", "geometry", "desync", "unsubsurface",
                         "untoplevel", "destroy", "disconnect", "repaint"}
  /\ \A s \in Surface : /\ Buffers(s) \subseteq [block : Blocks, opaque : BOOLEAN] \cup {NoPixels}
                         /\ Origins(s) \subseteq Int
  /\ Damages \subseteq SUBSET Int /\ Locations \subseteq Int
  /\ CASCADE_ORIGIN \in Int /\ CASCADE_STEP \in Int /\ CASCADE_WRAP \in Nat \ {0}
  /\ MaxToplevels \in Nat

VARIABLES
  wl,             \* Smithay's live wl_surfaces (obj_to_surface has the same keys)
  nextSurface,    \* next_surface_id
  nextToplevel,   \* next_toplevel_index
  pixels,         \* surface_pixels: the block each surface shows
  toplevels,      \* the live xdg toplevels
  focusMap,       \* the focus routing table
  keyboardFocus,  \* keyboard_focus
  gone,           \* clients whose connection has ended
  scene,          \* the scene thread's state
  screen,         \* the compositor's retained frame
  exposed         \* history: surfaces a commit drew without damaging (see Revealed)

protoVars == <<nextSurface, nextToplevel, pixels, toplevels, focusMap, keyboardFocus>>
vars == <<wl, protoVars, gone, scene, screen, exposed>>

Focus == INSTANCE FocusMap

alive == DOMAIN wl

-----------------------------------------------------------------------------
(* Smithay's surface tree.                                                   *)

NewWl(client) ==
  [client |-> client, role |-> "none", parent |-> NoSurface, order |-> <<>>,
   location |-> 0, sync |-> FALSE, cached |-> Nothing, origin |-> 0]

(* ordered_children: the children in stacking order, the parent in its slot. *)
OrderedChildren(w, s) == IF w[s].order = <<>> THEN <<s>> ELSE w[s].order

(* The surfaces S and everything below them.                                 *)
WithDescendants(w, S) ==
  LET down[d \in 0..Cardinality(Surface)] ==
        IF d = 0 THEN S
        ELSE LET above == down[d - 1] IN above \cup {x \in DOMAIN w : w[x].parent \in above}
  IN  down[Cardinality(Surface)]

(* is_sync_subsurface: the surface, or a subsurface above it, is synchronized. *)
Synchronized(w) == WithDescendants(w, {x \in DOMAIN w : w[x].sync})

(* What becomes current when s commits: s, and what synchronized subsurfaces *)
(* of it (and everything under those) have cached.                           *)
Effective(w, s) ==
  {s} \cup WithDescendants(w, {x \in DOMAIN w : w[x].parent = s /\ w[x].sync})

Unlinked(w, s) ==
  LET p == w[s].parent
      kids(x) == LET rest == Without(w[x].order, {s})
                 IN  IF rest = <<x>> THEN <<>> ELSE rest
      detached == [w EXCEPT ![s].parent = NoSurface, ![s].sync = FALSE, ![s].cached = Nothing]
  IN  IF p = NoSurface THEN detached ELSE [detached EXCEPT ![p].order = kids(p)]

-----------------------------------------------------------------------------
(* What a commit carries to the scene.                                       *)

Attach(buffer, damage) == [kind |-> "attach", buffer |-> buffer, damage |-> damage]
Detach == [kind |-> "detach"]

(* A synchronized subsurface's commits accumulate until its parent's.        *)
Merge(old, new) ==
  IF new = Nothing THEN old
  ELSE IF old # Nothing /\ old.kind = "attach" /\ new.kind = "attach"
       THEN Attach(new.buffer, IF old.damage = {} \/ new.damage = {} THEN {}
                               ELSE old.damage \cup new.damage)
       ELSE new

(* Mutant of build_pixel_block: the whole buffer is taken, but only what the *)
(* client declared is damaged.                                               *)
BuildPixelBlockCopyingAll(prev, buffer, damage) ==
  LET cells   == 0..(Len(buffer.block) - 1)
      clipped == damage \cap cells
      partial == /\ prev # NoPixels /\ Len(prev) = Len(buffer.block)
                 /\ clipped # {}
  IN  [block |-> buffer.block, rects |-> IF partial THEN clipped ELSE cells]

(* build_pixel_block: patch the damaged cells of the block already shown if  *)
(* the dimensions match and the damage is partial; copy it all otherwise.    *)
BuildPixelBlock(prev, buffer, damage) ==
  LET cells   == 0..(Len(buffer.block) - 1)
      clipped == damage \cap cells
      partial == /\ prev # NoPixels /\ Len(prev) = Len(buffer.block)
                 /\ clipped # {} /\ clipped # cells
  IN  [block |-> [i \in DOMAIN buffer.block |->
                    IF partial /\ (i - 1) \notin clipped THEN prev[i] ELSE buffer.block[i]],
       rects |-> IF partial THEN clipped ELSE cells]

BlockOf(s) == IF s \in DOMAIN pixels THEN pixels[s] ELSE NoPixels

(* collect_surface: one surface's updates, given what it committed.          *)
CollectSurface(w, s, a) ==
  LET position == IF w[s].role = "subsurface"
                  THEN <<[kind |-> "position", surface |-> s, offset |-> w[s].location]>>
                  ELSE <<>>
      built    == BuildPixelBlock(BlockOf(s), a.buffer, a.damage)
      mapping  == s \in DOMAIN toplevels /\ ~toplevels[s].mapped
      place    == IF mapping
                  THEN <<[kind |-> "geometry", surface |-> s, size |-> Len(built.block),
                          offset |-> toplevels[s].placement - w[s].origin]>>
                  ELSE <<>>
      content  == IF a = Nothing THEN <<>>
                  ELSE IF a.kind = "detach" THEN <<[kind |-> "unmap", surface |-> s]>>
                  ELSE place \o <<[kind |-> "content", surface |-> s, block |-> built.block,
                                   opaque |-> a.buffer.opaque, rects |-> built.rects]>>
  IN  position \o content

(* collect_tree: this surface's updates, its stacking order if it has        *)
(* subsurfaces, then theirs.                                                 *)
CollectTree(w, s, assigned) ==
  LET tree[d \in 0..(MAX_SUBSURFACE_DEPTH + 1)] ==
        [x \in DOMAIN w |->
           IF d = 0 THEN <<>>
           ELSE LET ordered == OrderedChildren(w, x)
                    order   == <<[kind |-> "order", surface |-> x, order |-> ordered]>>
                    below   == FlattenSeq([i \in DOMAIN ordered |->
                                 IF ordered[i] = x THEN <<>> ELSE tree[d - 1][ordered[i]]])
                IN  CollectSurface(w, x, assigned[x])
                      \o (IF Len(ordered) <= 1 THEN <<>> ELSE order \o below)]
  IN  tree[MAX_SUBSURFACE_DEPTH + 1][s]

-----------------------------------------------------------------------------
(* Input routing.                                                            *)

Shifted(placed, by) == [i \in DOMAIN placed |-> <<placed[i][1], placed[i][2] + by>>]

(* Mutant of flatten_for_input: children at their parent's own place.        *)
FlattenForInputInPlace(w, pix, root, origin) ==
  LET own(x) == IF x \in DOMAIN pix THEN << <<x, 0>> >> ELSE <<>>
      flat[d \in 0..(MAX_SUBSURFACE_DEPTH + 1)] ==
        [x \in DOMAIN w |->
           IF d = 0 THEN <<>>
           ELSE LET kids == OrderedChildren(w, x)
                IN  FlattenSeq([i \in DOMAIN kids |->
                                  IF kids[i] = x THEN own(x) ELSE flat[d - 1][kids[i]]])]
  IN  Shifted(flat[MAX_SUBSURFACE_DEPTH + 1][root], origin)

(* flatten_for_input: the surfaces of a tree that have pixels (the others    *)
(* are skipped by the caller), in composition order, with absolute offsets.  *)
FlattenForInput(w, pix, root, origin) ==
  LET own(x) == IF x \in DOMAIN pix THEN << <<x, 0>> >> ELSE <<>>
      flat[d \in 0..(MAX_SUBSURFACE_DEPTH + 1)] ==
        [x \in DOMAIN w |->
           IF d = 0 THEN <<>>
           ELSE LET kids == OrderedChildren(w, x)
                IN  FlattenSeq([i \in DOMAIN kids |->
                                  IF kids[i] = x THEN own(x)
                                  ELSE Shifted(flat[d - 1][kids[i]], w[kids[i]].location)])]
  IN  Shifted(flat[MAX_SUBSURFACE_DEPTH + 1][root], origin)

(* refresh_input_routing: the table rebuilt from every mapped toplevel's     *)
(* tree, roots by ascending SurfaceId, z the index in that order.            *)
RefreshInputRouting(w, pix, tops) ==
  LET roots   == Ascending({s \in DOMAIN tops : tops[s].mapped})
      shown   == FlattenSeq([i \in DOMAIN roots |->
                   FlattenForInput(w, pix, roots[i], tops[roots[i]].placement)])
      last(s) == Max({z \in DOMAIN shown : shown[z][1] = s})
      entry(s, z) == Focus!Entry(shown[z][2]..(shown[z][2] + Len(pix[s]) - 1), z, s \in DOMAIN tops)
  IN  [s \in {shown[z][1] : z \in DOMAIN shown} |-> entry(s, last(s))]

(* refocus_keyboard: focus is the topmost toplevel of the table, always.     *)
SetRouting(table) ==
  /\ focusMap' = table
  /\ keyboardFocus' = Focus!Topmost(table)

-----------------------------------------------------------------------------
Init ==
  /\ wl = <<>>
  /\ nextSurface = 0
  /\ nextToplevel = 0
  /\ pixels = <<>>
  /\ toplevels = <<>>
  /\ focusMap = Focus!EmptyTable
  /\ keyboardFocus = NoSurface
  /\ gone = {}
  /\ scene = EmptyScene
  /\ screen = [c \in Output |-> Clear]
  /\ exposed = {}

(* Surfaces whose client can still make requests.                            *)
Served == {s \in alive : wl[s].client \notin gone}

Drop(f, s) == [x \in DOMAIN f \ {s} |-> f[x]]

(* Mutant of Forget: the pixels are left behind.                            *)
ForgetAllButPixels(s) ==
  /\ toplevels' = Drop(toplevels, s)
  /\ SetRouting(Focus!Unmap(focusMap, s))
  /\ UNCHANGED pixels

(* What this thread keeps by surface goes when a toplevel or surface does.   *)
Forget(s) ==
  /\ pixels' = Drop(pixels, s)
  /\ toplevels' = Drop(toplevels, s)
  /\ SetRouting(Focus!Unmap(focusMap, s))

(* Surfaces that new content of another puts on screen: an ancestor became   *)
(* visible, which damages only what that ancestor covers.                    *)
Revealed(before, after, u) ==
  DOMAIN Placed(after) \ (DOMAIN Placed(before) \cup {u.surface})

RepaintsAll(u) == Cardinality(u.rects) >= Len(u.block)

(* A surface whose opacity changed while only part of it was repainted.      *)
Reblended(before, after, u) ==
  {s \in {u.surface} \cap Live(before) :
     ~RepaintsAll(u) /\ before.nodes[s].opaque # after.nodes[s].opaque}

(* `exposed` after the updates of a commit that led through the scenes run:  *)
(* each adds what it shows otherwise than before without damaging it, and    *)
(* takes off what it repaints in full.                                       *)
ExposedAfter(run, updates) ==
  LET upto[i \in 0..Len(updates)] ==
        IF i = 0 THEN exposed
        ELSE LET u == updates[i]
                 kept == IF RepaintsAll(u) THEN upto[i - 1] \ {u.surface} ELSE upto[i - 1]
             IN  IF u.kind # "content" THEN upto[i - 1]
                 ELSE kept \cup Revealed(run[i - 1], run[i], u) \cup Reblended(run[i - 1], run[i], u)
  IN  upto[Len(updates)]

(* The surfaces that the updates of one kind are about.                      *)
Updated(updates, kind) == {u.surface : u \in {v \in ToSet(updates) : v.kind = kind}}

StillExposed(after, ids) == IF ids = {} THEN {} ELSE ids \cap DOMAIN Placed(after)

(* The scene processes one message from this thread.                         *)
Publish(after) ==
  /\ scene' = after
  /\ exposed' = StillExposed(after, exposed)
  /\ UNCHANGED screen

-----------------------------------------------------------------------------
(* Handlers.                                                                 *)

NewSurface(k) ==
  /\ k \notin gone
  /\ nextSurface \in Surface
  /\ nextSurface' = nextSurface + 1
  /\ wl' = Inserted(wl, nextSurface, NewWl(k))
  /\ Publish(Created(scene, nextSurface, k))
  /\ UNCHANGED <<nextToplevel, pixels, toplevels, focusMap, keyboardFocus, gone>>

AllocCascadePlacement(index) == CASCADE_ORIGIN + (index % CASCADE_WRAP) * CASCADE_STEP

(* A surface takes the toplevel role before it has content: xdg-shell makes  *)
(* anything else a client error, which new_toplevel does not look for.       *)
NewToplevel(s) ==
  /\ s \in (Served \cap Windows) \ DOMAIN toplevels
  /\ wl[s].role = "none" \/ wl[s].role = "toplevel"
  /\ s \notin DOMAIN pixels
  /\ nextToplevel < MaxToplevels
  /\ wl' = [wl EXCEPT ![s].role = "toplevel"]
  /\ toplevels' = Inserted(toplevels, s, [placement |-> AllocCascadePlacement(nextToplevel),
                                          mapped |-> FALSE, configure |-> "unsent"])
  /\ nextToplevel' = nextToplevel + 1
  /\ Publish(SetRole(scene, s, "toplevel"))
  /\ UNCHANGED <<nextSurface, pixels, focusMap, keyboardFocus, gone>>

AckConfigure(s) ==
  /\ s \in Served \cap DOMAIN toplevels
  /\ toplevels[s].configure = "sent"
  /\ toplevels' = [toplevels EXCEPT ![s].configure = "acked"]
  /\ UNCHANGED <<wl, nextSurface, nextToplevel, pixels, focusMap, keyboardFocus, gone,
                 scene, screen, exposed>>

ToplevelDestroyed(s) ==
  /\ s \in alive \cap DOMAIN toplevels
  /\ "untoplevel" \in Requests \/ wl[s].client \in gone
  /\ Forget(s)
  /\ Publish(SetRole(ClearSource(scene, s), s, "none"))
  /\ UNCHANGED <<wl, nextSurface, nextToplevel, gone>>

(* The parent must not be a descendant in Smithay's tree: a client error.    *)
NewSubsurface(s, p, sync) ==
  /\ {s, p} \subseteq Served
  /\ wl[s].client = wl[p].client
  /\ wl[s].role \in {"none", "subsurface"} /\ wl[s].parent = NoSurface
  /\ p \notin WithDescendants(wl, {s})
  /\ sync \/ "desync" \in Requests
  /\ wl' = [wl EXCEPT ![s].role = "subsurface", ![s].parent = p, ![s].sync = sync,
                      ![p].order = OrderedChildren(wl, p) \o <<s>>]
  /\ Publish(AttachSubsurface(scene, s, p))
  /\ UNCHANGED <<protoVars, gone>>

(* wl_subsurface.destroy: Smithay unlinks the surface; no handler runs.      *)
SubsurfaceDestroyed(s) ==
  /\ "unsubsurface" \in Requests
  /\ s \in Served /\ wl[s].parent # NoSurface
  /\ wl' = Unlinked(wl, s)
  /\ UNCHANGED <<protoVars, gone, scene, screen, exposed>>

SurfaceDestroyed(s) ==
  /\ s \in alive
  /\ "destroy" \in Requests \/ wl[s].client \in gone
  /\ wl[s].client \notin gone => s \notin DOMAIN toplevels
  /\ wl' = LET w == Drop(Unlinked(wl, s), s)
           IN  [x \in DOMAIN w |-> IF w[x].parent = s
                                   THEN [w[x] EXCEPT !.parent = NoSurface, !.sync = FALSE,
                                                     !.cached = Nothing]
                                   ELSE w[x]]
  /\ Forget(s)
  /\ Publish(Destroyed(scene, s))
  /\ UNCHANGED <<nextSurface, nextToplevel, gone>>

(* ClientData::disconnected; the client's objects are then destroyed in any  *)
(* order, each by its own handler.                                           *)
Disconnect(k) ==
  /\ "disconnect" \in Requests
  /\ k \notin gone
  /\ gone' = gone \cup {k}
  /\ Publish(ClientGone(scene, k))
  /\ UNCHANGED <<wl, protoVars>>

-----------------------------------------------------------------------------
(* Commits.                                                                  *)

(* A synchronized subsurface's commit is cached by Smithay.                  *)
CachedCommit(s, a) ==
  /\ s \in Served \cap Synchronized(wl)
  /\ wl' = [wl EXCEPT ![s].cached = Merge(@, a)]
  /\ UNCHANGED <<protoVars, gone, scene, screen, exposed>>

(* A buffer (or a null one) on an unconfigured toplevel is a protocol error: *)
(* the commit returns early and the client is disconnected.                  *)
UnconfiguredCommit(s, a) ==
  /\ s \in Served \cap DOMAIN toplevels
  /\ "disconnect" \in Requests
  /\ a # Nothing /\ toplevels[s].configure # "acked"
  /\ gone' = gone \cup {wl[s].client}
  /\ Publish(ClientGone(scene, wl[s].client))
  /\ UNCHANGED <<wl, protoVars>>

(* Mutant of the bookkeeping: an unmapped toplevel keeps its table entry.    *)
PostCommitKeepingRoute(s, w, pix, tops) ==
  LET unmapped == s \in DOMAIN tops /\ s \notin DOMAIN pix /\ tops[s].mapped
      unsent   == s \in DOMAIN tops /\ tops[s].configure = "unsent"
      cleared  == IF unmapped
                  THEN [tops EXCEPT ![s].mapped = FALSE, ![s].configure = "unsent"]
                  ELSE tops
  IN  /\ toplevels' = IF unsent THEN [tops EXCEPT ![s].configure = "sent"] ELSE cleared
      /\ SetRouting(IF unmapped THEN focusMap ELSE RefreshInputRouting(w, pix, tops))

(* post_commit_bookkeeping, then the configure dance: a toplevel that lost   *)
(* its pixels leaves the table alone; anything else rebuilds the table.      *)
PostCommit(s, w, pix, tops) ==
  LET unmapped == s \in DOMAIN tops /\ s \notin DOMAIN pix /\ tops[s].mapped
      unsent   == s \in DOMAIN tops /\ tops[s].configure = "unsent"
      cleared  == IF unmapped
                  THEN [tops EXCEPT ![s].mapped = FALSE, ![s].configure = "unsent"]
                  ELSE tops
  IN  /\ toplevels' = IF unsent THEN [tops EXCEPT ![s].configure = "sent"] ELSE cleared
      /\ SetRouting(IF unmapped THEN Focus!Unmap(focusMap, s)
                    ELSE RefreshInputRouting(w, pix, tops))

PixelsAfter(updates) ==
  LET shown    == {u \in ToSet(updates) : u.kind = "content"}
      block(x) == (CHOOSE u \in shown : u.surface = x).block
      kept     == DOMAIN pixels \ Updated(updates, "unmap")
  IN  [x \in Updated(updates, "content") \cup kept |->
         IF x \in Updated(updates, "content") THEN block(x) ELSE pixels[x]]

ToplevelsAfter(updates) ==
  [x \in DOMAIN toplevels |->
     [toplevels[x] EXCEPT !.mapped = @ \/ x \in Updated(updates, "geometry")]]

(* What the updates of a commit of s leave behind, here and in the scene.    *)
Effect(s, w, updates, pix, tops, run) ==
  /\ wl' = [x \in DOMAIN w |-> IF x \in Effective(w, s) THEN [w[x] EXCEPT !.cached = Nothing]
                               ELSE w[x]]
  /\ pixels' = pix
  /\ PostCommit(s, w, pix, tops)
  /\ scene' = run[Len(updates)]
  /\ exposed' = StillExposed(run[Len(updates)], ExposedAfter(run, updates))
  /\ UNCHANGED <<nextSurface, nextToplevel, gone, screen>>

(* An effective commit of s in the tree w, with what each surface assigned.  *)
Published(s, w, updates) ==
  Effect(s, w, updates, PixelsAfter(updates), ToplevelsAfter(updates),
         Applied(scene, updates))

EffectiveCommit(s, w, assigned) == Published(s, w, CollectTree(w, s, assigned))

(* A commit that takes effect at once, that of a surface whose parent is     *)
(* gone included: commit() does not look for one.                            *)
Commits(s) == s \in Served \ Synchronized(wl)

(* What each surface's assignment is when s commits a: its cached one if it  *)
(* becomes effective with s, none otherwise.                                 *)
Assigned(s, a) ==
  LET current == Effective(wl, s)
  IN  [x \in alive |-> IF x = s THEN a ELSE IF x \in current THEN wl[x].cached ELSE Nothing]

Commit(s, a) ==
  /\ Commits(s)
  /\ a # Nothing /\ s \in DOMAIN toplevels => toplevels[s].configure = "acked"
  /\ EffectiveCommit(s, wl, Assigned(s, a))

(* A commit that carries double-buffered tree state: a child's new position. *)
CommitMove(s, child, to) ==
  /\ "move" \in Requests
  /\ Commits(s)
  /\ child \in alive /\ to # wl[child].location /\ wl[child].parent \in Effective(wl, s)
  /\ EffectiveCommit(s, [wl EXCEPT ![child].location = to], Assigned(s, Nothing))

(* ... or a new stacking order of its children and itself.                   *)
CommitRestack(s, i, j) ==
  /\ "restack" \in Requests
  /\ Commits(s)
  /\ i \in DOMAIN wl[s].order /\ j \in DOMAIN wl[s].order /\ i < j
  /\ LET old == wl[s].order
     IN  EffectiveCommit(s, [wl EXCEPT ![s].order = [old EXCEPT ![i] = old[j], ![j] = old[i]]],
                         Assigned(s, Nothing))

(* ... or a toplevel's declared window geometry.                             *)
CommitGeometry(s, origin) ==
  /\ "geometry" \in Requests
  /\ Commits(s) /\ s \in DOMAIN toplevels /\ origin # wl[s].origin
  /\ EffectiveCommit(s, [wl EXCEPT ![s].origin = origin], Assigned(s, Nothing))

-----------------------------------------------------------------------------
(* The render side.                                                          *)

(* RenderLoop::tick: take a snapshot, which drains the damage, and           *)
(* recompute the damaged cells of the retained frame.                        *)
Tick ==
  /\ screen' = CompositeInto(screen, scene)
  /\ scene' = Drained(scene)
  /\ exposed' = IF scene.full THEN {} ELSE exposed
  /\ UNCHANGED <<wl, protoVars, gone>>

(* An output resize, or the session coming back from another VT.             *)
RepaintAll ==
  /\ "repaint" \in Requests
  /\ Publish(DamageFull(scene))
  /\ UNCHANGED <<wl, protoVars, gone>>

Assignments(s) ==
  {Nothing} \cup {Attach(b, d) : b \in Buffers(s) \ {NoPixels}, d \in Damages}
            \cup {Detach : b \in Buffers(s) \cap {NoPixels}}

Next ==
  \/ \E k \in Client : NewSurface(k) \/ Disconnect(k)
  \/ \E s \in alive :
       \/ NewToplevel(s)
       \/ AckConfigure(s)
       \/ ToplevelDestroyed(s)
       \/ SubsurfaceDestroyed(s)
       \/ SurfaceDestroyed(s)
       \/ \E p \in alive, sync \in BOOLEAN : NewSubsurface(s, p, sync)
       \/ \E a \in Assignments(s) :
            CachedCommit(s, a) \/ UnconfiguredCommit(s, a) \/ Commit(s, a)
       \/ \E child \in alive, to \in Locations : CommitMove(s, child, to)
       \/ \E i, j \in 1..Cardinality(Surface) : CommitRestack(s, i, j)
       \/ \E origin \in Origins(s) : CommitGeometry(s, origin)
  \/ Tick
  \/ RepaintAll

Spec == Init /\ [][Next]_vars

-----------------------------------------------------------------------------
(* Properties.                                                               *)

(* What a commit may have assigned to a surface, and what Smithay keeps of   *)
(* it.                                                                       *)
Acts ==
  {Nothing, Detach}
    \cup [kind : {"attach"}, buffer : [block : Blocks, opaque : BOOLEAN], damage : SUBSET Int]

WlSurfaces ==
  [client : Client, role : Roles, parent : Surface \cup {NoSurface}, order : Seq(Surface),
   location : Int, sync : BOOLEAN, cached : Acts, origin : Int]

(* What the dispatch thread keeps of a toplevel.                             *)
Toplevels == [placement : Int, mapped : BOOLEAN, configure : {"unsent", "sent", "acked"}]

(* What it keeps of a surface in the routing table.                          *)
Entries == [cells : SUBSET Int, z : Nat, focusable : BOOLEAN]

(* A node of the scene.                                                      *)
Nodes ==
  [client : Client, role : Roles, parent : Surface \cup {NoSurface}, children : Seq(Surface),
   offset : Int, size : Nat, source : Blocks \cup {NoPixels}, opaque : BOOLEAN]

(* What is painted in a cell: the layers from the bottom up.                 *)
Stacks == Seq((Colour \cup {"clear"}) \X {"copy", "over", "forced"})

(* Every variable holds what its Rust type can hold, down to the nodes of    *)
(* the scene and the layers of the frame; and what is kept by surface (the   *)
(* pixels, the toplevels, the routing table, the focus) is kept of live      *)
(* surfaces only, in whatever order a client's objects go away.              *)
TypeOK ==
  /\ alive \subseteq Surface /\ wl \in [alive -> WlSurfaces]
  /\ \A s \in alive : wl[s].parent \in alive \cup {NoSurface}
  /\ nextSurface \in Nat /\ nextToplevel \in Nat
  /\ DOMAIN pixels \subseteq alive /\ pixels \in [DOMAIN pixels -> Blocks]
  /\ DOMAIN toplevels \subseteq alive /\ toplevels \in [DOMAIN toplevels -> Toplevels]
  /\ DOMAIN focusMap \subseteq alive /\ focusMap \in [DOMAIN focusMap -> Entries]
  /\ keyboardFocus \in alive \cup {NoSurface}
  /\ gone \subseteq Client
  /\ Live(scene) \subseteq Surface /\ scene.nodes \in [Live(scene) -> Nodes]
  /\ scene.damage \subseteq Int /\ scene.full \in BOOLEAN
  /\ screen \in [Output -> Stacks]
  /\ exposed \subseteq Surface

(* Cells that show something else than a composite from nothing would, and   *)
(* that the next frame will not recompute.                                   *)
StaleCells ==
  LET fresh == FromScratch(scene)
  IN  IF scene.full THEN {} ELSE {c \in Output \ scene.damage : screen[c] # fresh[c]}

(* Damage is conservative, but for two gaps: every stale cell lies under a   *)
(* subsurface that came back with its parent, or a surface whose opacity     *)
(* changed under partial damage.  Nothing else is ever left on screen.       *)
StaleOnlyWhereExposed ==
  StaleCells \subseteq CellsOf(scene, exposed)

(* scene_graph_v1.md 9.1, "Incremental must equal from-scratch", for every   *)
(* sequence of commits: no cell is ever left stale.                          *)
IncrementalEqualsFromScratch == StaleCells = {}

(* The scene's own replica of the tree: which toplevels are drawn.           *)
DrawnToplevels ==
  {s \in DOMAIN Placed(scene) : scene.nodes[s].role = "toplevel"}

(* Keyboard focus is the window drawn topmost, after every handler: the      *)
(* dispatch thread's table and the scene agree on which that is, except      *)
(* while a departed client's surfaces are still being destroyed.             *)
FocusIsTopmostWindow ==
  (\A s \in alive : wl[s].client \notin gone) =>
     LET windows == DrawnToplevels
         order   == CompositionOrder(scene)
     IN  IF windows = {} THEN keyboardFocus = NoSurface
         ELSE \E i \in DOMAIN order :
                /\ order[i] = keyboardFocus /\ keyboardFocus \in windows
                /\ \A j \in (i + 1)..Len(order) : order[j] \notin windows \ {keyboardFocus}

(* Whatever is drawn can be clicked: every drawn surface is in the routing   *)
(* table, where it is drawn, and the table stacks the drawn surfaces as the  *)
(* scene composites them.  Checked while no client changes a tree's shape    *)
(* (get_subsurface on a surface with content is drawn at once, but routed    *)
(* only by the next commit).                                                 *)
DrawnIsRoutable ==
  LET order == CompositionOrder(scene)
      z(i)  == focusMap[order[i]].z
  IN  /\ \A i \in DOMAIN order : /\ order[i] \in DOMAIN focusMap
                                /\ focusMap[order[i]].cells = NodeCells(scene, order[i])
      /\ \A i, j \in DOMAIN order : i < j => z(i) < z(j)

(* scene_graph_v1.md 11.3: a click lands on the surface the user sees there. *)
ClickLandsOnWhatIsSeen ==
  \A c \in Output :
    LET under == SelectSeq(CompositionOrder(scene), LAMBDA s : c \in NodeCells(scene, s))
    IN  Focus!At(focusMap, c) = IF under = <<>> THEN NoSurface ELSE Last(under)
=============================================================================
