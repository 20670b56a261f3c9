# Parhelion: a TLA+ model of the compositor

Parhelion is a Wayland compositor built as a handful of threads that share
nothing and talk by message: a dispatch thread that owns every protocol object,
a scene thread that owns the canonical scene, a render thread that composites
snapshots of it, and, on metal, a commit thread that owns the display device.
This directory holds the TLA+ modules that model those parts, the TLC instances
that check them and the TLAPS proofs about them. `PROJECT.json` maps every
definition to the source lines it stands for.

## 1. Inventory

| Part | State it keeps | Operations | Modelled by |
|---|---|---|---|
| Scene (`core/src/scene/state.rs`, `node.rs`, `snapshot.rs`) | nodes (role, parent, children with a self-marker, offset, size, source, opacity), pending damage, the full-damage flag | `apply` (created, destroyed, client gone), `set_role`, `attach_subsurface`, `set_child_order`, `set_subsurface_position`, `set_geometry`, `attach_content`, `clear_source`, `apply_commit`, `damage_full`, `snapshot` | `Scene` |
| Damage region (`scene/region.rs`) | at most 16 rectangles | `add` with coalescing, `intersect`, `translate` | `Region` |
| Scene thread (`scene/thread.rs`) | one mailbox, one waiter slot | `emit`, `mutate`, `snapshot`, `query`, `wait_until`; the message loop, deadlines, shutdown | `SceneThread`; its place in the frame cycle in `FrameCallbacks` |
| Protocol dispatch (`core/src/protocol.rs`) | id maps, retained pixel blocks, toplevels (placement, mapped, configure state), focus table, keyboard focus | the Smithay handlers: `new_surface`, `new_toplevel`, `toplevel_destroyed`, `new_subsurface`, `commit`, `destroyed`, `ClientState::disconnected` | `Protocol` |
| Focus table (`core/src/input.rs`) | surface -> (rectangle, z, focusable) | `map`, `unmap`, `clear`, `topmost`, `at` | `FocusMap` |
| Backpressure, frame callbacks | callback backlog and readiness source of each client | `admit_client`, `dispatch_one_client`, `update_throttles`, `present`, the one flush | `FrameCallbacks` |
| Keyboard focus and clipboard (`protocol.rs`) | `keyboard_focus`, `selection_needs_refresh`; in Smithay the focus, the selection, the offers | `refocus_keyboard`, `refresh_selection`, `destroyed`, `dispatch_one_client` | `Seat` |
| Pointer and key events, drags, popups | the pointer's position; the rest is Smithay's | `apply_input` | not modelled (section 6) |
| Render loop and CPU compositor (`core/src/render.rs`, `backend-headless/src/composite.rs`) | the retained frame | `RenderLoop::tick`, `composite` | `Scene`, `Protocol`; the tick's steps in `FrameCallbacks` |
| T-commit and T-render (`backend-drm/src/commit.rs`, `render.rs`, `buffer.rs`) | two scanout buffers, the loop's flags, two channels | `request_frame`, `on_frame`, `submit`, `on_vblank`, `on_pause`, `on_activate`, the loop callback; the render loop | `CommitLoop` |
| Discovery and mode selection (`mode.rs`, `scan`) | none | `refresh_mhz`, `select_mode`, `select_output`, `scan` | `Discovery` |
| Starting and stopping (`backend-drm/src/lib.rs`, `setup` and `run` in `commit.rs`, `main` with `--drm`) | two threads, the report channel, the opened devices, what the CRTC drives; `wl_output`'s mode, the control channel | spawn, wait for the mode, tell it, join; the candidate loop, setup and its failures; the control source | `Startup` |
| Winit backend, pixel conversion, harness | | | not modelled |

How they interact. Clients' requests reach the dispatch thread through Smithay,
which keeps its own tree of surfaces and the double-buffered state of each. A
handler updates the dispatch thread's tables and sends at most one message that
changes the scene. T-render asks the scene thread for a snapshot, which carries
the damage accumulated since the last one and clears it, and repaints only that
part of a frame it retains. On metal the cycle is driven by the display: a
vblank lets T-commit send a tick, T-render answers with pixels, T-commit writes
them into the buffer that is not on screen and submits it. The dispatch thread
routes input by a table of its own, so that input never waits for the scene;
table and scene are two replicas of one stacking order. After each frame
T-render pings the dispatch thread, which answers the clients' frame callbacks;
a client with too many unanswered ones is not read until then.

What is hard:

* damage must cover every change (5 operations and 3 kinds of disappearance
  damage different things, by a mapping law that looks at all ancestors);
* the two replicas of the stacking order must agree after every handler;
* synchronized subsurfaces: several surfaces' commits take effect with their
  ancestor's, and must reach the screen in one snapshot;
* a client's objects go away one at a time, after the scene has already been
  told that the client is gone;
* on metal, four handlers may restart one frame cycle, while commits fail, the
  VT is switched away with a flip queued or a frame in the making, and shutdown
  or a panic ends either thread first;
* starting on metal: any of a dozen steps fails, on either of two threads that
  wait for each other, while clients already connect and ask for a mode that is
  not known yet;
* the scene thread's callers block on reply channels while one of them
  supersedes another, deadlines pass and the thread is asked to stop;
* the clipboard's source dies at some point of its client's teardown, and Smithay
  notices only when the selection is sent again;
* a frame callback passes through three threads while presents coalesce, clients
  flood, are parked, hang up while parked, and commit on subsurfaces whose
  commits take effect later.

What makes each part correct: the screen shows what compositing from nothing
would show (Scene, Region); the window with keyboard focus is the one on top and
what is drawn is clickable where it is drawn (FocusMap, Protocol); exactly one
frame in flight, no write to a buffer being scanned out, a screen that only
moves on to newer whole frames and catches up, and a shutdown that ends both
threads (CommitLoop); the right output driven and truthfully advertised, the
screen given back and `run` returning whatever fails (Startup, Discovery; with
one exception, section 3); a scene that looks atomic to each caller, and calls that all return (SceneThread);
a clipboard that follows the keyboard and is never offered from the dead (Seat); each callback fired once,
not before its commit was sent and by the frame that shows it at the latest, a
bounded backlog, and nobody parked for ever (FrameCallbacks).

## 2. Modules

| Module | Models | Extends / instantiates |
|---|---|---|
| `Scene` | the scene as a value: one operator per method of `Scene`, the snapshot, the compositor | |
| `FocusMap` | the focus table as a value | |
| `Protocol` | the dispatch thread with scene and renderer: one action per handler | `Scene`, `FocusMap` |
| `MCProtocol` | instances of `Protocol` | `Protocol` |
| `ProtocolInvariants` | the inductive invariants of `Protocol`, their parts, and the terms of its proofs | `Protocol` |
| `ProtocolProofs` | the theorems about `Protocol`, and so about `Scene` and `FocusMap` | `ProtocolInvariants`, `Recursion` |
| `Region` | the rectangle list, its i32 arithmetic, and the pixels it stands for | |
| `MCRegion` | an instance of `Region` | `Region` |
| `RegionProofs` | its theorems | `Region`, `Recursion` |
| `CommitLoop` | T-commit, T-render, their channels, the kernel and the VT | instantiates `Display` |
| `Display` | what the frame cycle promises the person at the screen: an abstract specification | |
| `CommitLoopProofs` | the theorems about both | `CommitLoop` |
| `Discovery` | the refresh rate, and the choice of connector and mode | |
| `Startup` | main, T-commit's setup, the ends of all threads, `wl_output`'s mode | `Discovery` |
| `MCStartup` | machines to start on | `Startup` |
| `StartupProofs` | its theorems | `Startup`, `Recursion` |
| `AtomicScene` | what a `SceneHandle` promises its callers: an abstract specification | |
| `SceneThread` | the handle, the mailbox and the loop of the scene thread | instantiates `AtomicScene` |
| `SceneThreadProofs` | its theorems | `SceneThread`, `Recursion` |
| `Seat` | keyboard focus and clipboard over one dispatch after another | `FocusMap` |
| `MCSeat` | instances of `Seat` | `Seat` |
| `SeatProofs` | its theorems | `Seat` |
| `FrameCallbacks` | frame callbacks and backpressure, across dispatch thread, scene thread and T-render | |
| `MCFrameCallbacks` | instances of it | `FrameCallbacks` |
| `FrameCallbacksProofs` | its theorems | `FrameCallbacks` |
| `Recursion` | lemmas: induction, functions defined by recursion, concatenation | |

### Scene, FocusMap and Protocol

The code's `Scene` has no threading of its own, so it is a record `[nodes,
damage, full]` and every method an operator from scenes to scenes. The output is
one row of cells: a rectangle is a set of consecutive cells, a region the set of
its cells (what the rectangle list adds to that is `Region`'s subject). A colour
is a model value; blending is kept symbolic, as the stack of layers that make up
a cell, so that two different blends are never equal by accident. `Placed`
combines `is_mapped` and `absolute_offset`: the mapped nodes and where they are.

`Protocol` has one action per handler. A handler sends its messages before it
returns, the mailbox is one FIFO, and no handler sends two messages that change
what is drawn with another sender's in between that could matter; the messages
are therefore applied in the handler's own step. That a commit's updates are one
message, and so never half on screen, is part of this and not checked. (`toplevel_destroyed` sends two,
an unmap and the loss of the role: after the first nothing of that surface is
drawn, and the second damages only what is drawn.) `wl` is Smithay's own state,
modelled from how the handlers read it, and is marked external in the map. A
commit becomes effective at once or, for a synchronized subsurface, is cached
(`CachedCommit`) until its ancestor's. A surface that lost its parent commits for
itself, as `commit` has it. Clients are legal: `NewToplevel` is not tried on a
surface with content, which xdg-shell makes an error and `new_toplevel` does not
look for. `CollectTree` builds the list of updates
as `collect_tree` does, and the scene applies the list as one message.

Kept symbolic or left out: titles, output enter/leave, popups, buffer release,
the counters. A buffer that cannot be read counts as no buffer.

`exposed` is a history variable. It collects the surfaces for which the code is
known to raise too little damage (see the findings): those that become visible
only because an ancestor did, and those whose opacity changed under partial
damage. It is kept update by update along a commit (`ExposedAfter`), because what
one update of a commit shows, the next may hide or repaint: a content update that
damages the whole surface takes the surface out again, a repaint of the output all
of them, and a surface that is no longer drawn is out too. `StaleOnlyWhereExposed`
says that nothing else is ever left stale, so the other ways to forget damage are
still checked, and proved absent, around the known ones.

### CommitLoop

T-commit is a single calloop, so each handler is one action; `LoopTurn` is the
callback after each dispatch, with the shutdown test and the watchdog. T-render
is two steps (snapshot and composite, then send), so that every handler of
T-commit can fall in between. A frame is the version of the scene it shows;
the pixel buffer travels in the ticks and frames and is only counted. The kernel is external: one queued flip,
performed at some later time, with an event that is dispatched later still; a
commit while a flip is queued is refused. `VtTaken` is the other VT's modeset,
and it is assumed of the environment that the session comes back only after it
(`Returning`); `on_activate` has no such test.

`LateEvents` is the one assumption about the kernel that matters: whether a
flip event of before a pause can be dispatched after the return. `on_vblank`
cannot tell such an event from the next flip's. With `LateEvents = FALSE`
(events are read before the session comes back) the buffers are never written
while scanned out; with TRUE that property fails, while one-frame-in-flight and
the liveness properties hold. Which of the two the kernel does, the code does not
show; no property here catches it.

`Display` has four variables (the scene's version, whose session it is, whether
the screen is ours, which version it shows) and no buffers, flips, threads or
failures: a frame shown is a whole one, no older than the one before. The
refinement maps the screen to the contents of the buffer that the kernel scans
out. It is the property that a torn, stale or resurrected frame would break,
whichever handler is at fault, and that a frame drawn before a VT switch and
submitted after it does not.

### Discovery and Startup

`Discovery` is `mode.rs` as operators over a connector's answer to the probe, a
sequence of modes with their timings, and `scan`, which reads a device's
connectors. The division is the code's, with 1000 for 1 000 000 so that TLC's
32-bit integers suffice; the cap at `i32::MAX` is a constant too.

`Startup` has one action per step of the main thread (bind the socket, spawn
T-commit, wait for the mode, tell it, spawn T-render, join, drop the host), of
T-commit (session, one turn of the candidate loop, the rest of setup, the event
loop's sources, the loop's end) and of the dispatch thread's control source.
Every call that can fail may fail. `opened` and `driven` are what T-commit holds;
dropping its state releases both. A panic of T-commit (the index past the end,
see `probe`) ends the thread without a report, and main reads a closed channel.
The loop itself is `CommitLoop`'s subject; here it only ends. Clients bind
`wl_output` at any time after the socket is listened on. `candidate` starts at 1
where the code's index starts at 0.

### SceneThread and AtomicScene

A caller is a thread with a clone of `SceneHandle`. Its scene is a set of
surfaces: `create` and `destroy` stand for every `Protocol` and `Mutate` message,
and a waiter's condition is how many surfaces there are, which distinguishes a
condition that a message makes true from one that it makes false. `late` are the
callers whose deadline is past. Each turn of the loop is one action: the message,
and the check of the parked condition that ends the turn. A deadline that passes
between the look at the clock and the message passes after it. `Stop` drops the
receiver, and with it every reply channel in the mailbox and the slot: a wait
reads false, a read panics ("dead").

`AtomicScene` keeps, instead of a mailbox and a slot, one queue of posts per
caller: posts take effect in each caller's order, a read returns the scene after
the caller's own posts, a wait returns true only over a scene where the condition
holds, and false only at its deadline, when another caller waits too, or at the
end. It does not say how the posts of different callers interleave.

### Seat

A turn is one call of `dispatch_one_client`: requests of one client, then clients
torn down, object by object in any order, then the housekeeping. Windows are
toplevels without subsurfaces, stacked by their id as `refresh_input_routing`
does. Smithay is external and modelled as the code's comments and calls rely on
it: `set_data_device_focus` sends the selection only if the focus changes; a dead
source is noticed only when the selection is sent; during a client's teardown a
surface of it may or may not still count as alive (`SurfaceFor`). `unnoticed` is
a history variable: the sources that died in a turn in which no surface did,
which is the case the code does not look at (see `corpse`). `OfferIsAlive` says
that it is the only one.

### Region

Rectangles in two dimensions with i32 arithmetic of any width: addition
saturates and subtraction wraps, as in a build without overflow checks.
`damaged` is the set of pixels the list should stand for. A client's rectangle
goes the way it goes in the code: clipped to the buffer, dropped if nothing is
left, moved to the surface's place, confined to the extent. It may have any
origin, and a negative width or height; extents come from buffer sizes and have
neither. `BoxesFit` says that no two extents lie so far apart that the box around
them is wider than i32 can say, and that none reaches past its end. The extents of
the run satisfy it; see the note under Findings for what happens where it fails.

### FrameCallbacks

A request is a `wl_surface.frame` with the commit that carries it; its number
names the request, the callback and the commit. `sent - read` is what is in the
client's socket, `source` the state of its readiness source (`none` before
`admit_client`, `removed` after `remove_client_source`). The dispatch thread is
one loop, so every handler is enabled only while `dispatching = NoClient`; but
`dispatch_single_client` reads a socket until it is empty, and what the client
writes meanwhile is part of it, so it is modelled request by request
(`DispatchOneClient`, any number of `Commit`s, then `EndDispatch` or, at the end
of the stream, `Departed`). `FastWriter` says whether a client can write while
it is being read. The document's bound, "the limit plus one socket-read burst",
takes a burst for what the socket holds, and is stated for `~FastWriter`; the
other properties do not need the assumption.

A commit on a synchronized subsurface is cached, with its callback, until the
parent's; a parent's commit makes all of them current and tells the scene.
`PingReceived` is the ping source's callback: `present` takes every list of
current callbacks and `update_throttles` follows. The messages to the scene
thread are a FIFO with T-render's snapshot requests among them, so a snapshot may
be older or newer than what the dispatch thread knows when the ping arrives.
`Tick`, `TakeSnapshot` and `Present` are the three steps of one `RenderLoop::tick`.

Left out: timestamps, the destruction of one surface with its callbacks (a client
loses its callbacks only with everything else), popups, and the test counters. A
client has one surface and at most one subsurface; the backlog sums over
surfaces, so more of them would not tell more apart.

## 3. Runs

| Run | Question | Bounds |
|---|---|---|
| `tree` | does a tree of subsurfaces keep screen, scene and table together when its members map, unmap, move and restack? | 3 surfaces, nested and sibling; 3 cells; offsets 0 and 1 |
| `windows` | two surfaces as windows or as window and subsurface, and every way either goes away: focus and ghosts | 2 surfaces, 2 clients, 2 toplevel roles, opaque and translucent buffers, geometry origins 0 and 1 |
| `commit` | the frame cycle with failures | 2 failures, 2 VT switches, 2 scene changes |
| `region` | coalescing | lists of 3, 4-bit arithmetic, 4 extents, 4 client rectangles, one as large as can be and one of negative height |
| `feedback` | throttling, callbacks and frames across three threads | 2 clients: a flooder with a subsurface that may hang up, 3 requests, and one with 1 request; limit 2, resume 1, a socket of 1 |
| `startup` | does starting on metal get the output right, and does `run` return whatever fails? | 1 or 2 devices; 8 kinds of connector, up to 2 on a device; 1 client |
| `seat` | do keyboard, clipboard and offers agree after every dispatch? | 2 clients, 3 windows, 3 sources |
| `owner` | is the scene thread an atomic scene, and does every call return? | 2 callers, 1 surface, a mailbox of 3 |
| `stale`, `click`, `probe`, `corpse` | findings, below | as `tree`, `startup`, `seat` |

Why the bounds are enough. A stale cell needs one surface and one cell that the
surface's change does not damage: two levels of subsurfaces and three cells give
a descendant that reaches beyond the damaged extent. Agreement of the stacking
orders is about pairs of windows. The cycle's flags and channel contents are
finite; the counters only bound how often the environment interferes, and two
interferences suffice for one to fall into the other's recovery. The coalescing
limit is 16 in the code ("a cost knob, not a correctness one"); with 3, the list
is filled, coalesced and filled again. The tree run starts from a configured
window with two subsurfaces, a state the handlers reach, so that its depth is
spent on the tree and not on the handshake. In `feedback` the limit plus one
burst is 3, so three requests reach the limit, are parked and resume; the second
client is the one that must not be affected. Frames are produced without end. In `startup` a machine of two devices has a
rejected one before a chosen one, and a device of two connectors one that is
passed over before one that is not (of two such devices, the first has nothing to
drive, and the second is any pair of four kinds); the connectors are one that fails the probe,
one without a monitor, one without modes, and monitors whose choice is decided by
the preferred flag, the area, the rate and the position. In `seat` two clients
and three windows give one window above and one below another client's; three
sources give a selection replaced by its own client and by the other. In `owner`
a wait supersedes a wait with two callers, and three places in the mailbox hold
a post, a call and the request to stop. TLC checks deadlock but where the system
does stop: `commit`, `startup`, `probe` and `owner` after a shutdown, `seat` and
`corpse` when every client has gone.

Every property of a passing run has a mutant: a definition of the code changed
as a plausible bug would change it, for which TLC finds the property violated.

### Fairness

`CommitLoop` and `FrameCallbacks` have liveness properties. In `CommitLoop` weak
fairness is assumed of each calloop source (calloop dispatches every ready source), of `LoopTurn` (the loop
wakes at least every `LOOP_TIMEOUT`), of T-render's steps (a running thread) and
of the display's flip. `on_pause` and `on_activate`, signals, failures and scene
changes are not fair: they may or may not happen. `ScreenCatchesUp` is stated
for behaviours in which the loop keeps running and, from some point, holds the
session; failures are finitely many (`MaxFailures`), without which no screen
could catch up.

In `FrameCallbacks` it is assumed of each source of the dispatch loop and of the
flush (calloop serves every ready source and the loop wakes every 20 ms), of the
scene thread and of T-render, which is driven by the display. Clients owe
nothing: they may stop writing or never hang up. A dispatch ends because a
client's requests are bounded; a client that could write for ever faster than it
is read would hold the loop, which the code does not exclude.

In `Startup` it is assumed of each thread that can take a step of its own: main,
T-commit, T-render and the dispatch thread. Nothing makes a signal come, a client
connect or `event_loop.run` fail. `RunReturns` says that `run` returns once asked
to, or once T-commit has ended, however it did, and that no device is open in the
end. In `SceneThread` it is assumed of the loop, and of time: the deadline of a wait
that lasts is reached at last. Nobody has to call, and the owner need not drop the
thread.

### Findings

* `stale`: a window that unmaps and maps again damages its own extent only; its
  subsurfaces come back undamaged. Section 9.1 of `docs/scene_graph_v1.md` asks
  that incremental rendering equal compositing from nothing for any sequence.
* `click`: a subsurface below a parent without content is not drawn but is in
  the routing table ("what cannot be seen cannot be clicked").
* `probe`: `scan` skips a connector that fails the probe but numbers the others
  as if it had not; `setup` uses that number as an index into the shortened list.
  T-commit panics before it reports anything, or drives another connector, one
  without a monitor for instance.
* `corpse`: `refresh_selection` is asked for where a surface is destroyed. A
  client that sets the clipboard and destroys its window, as `wl-copy` does, has
  none left when it disconnects; the focused client keeps an offer from it, which
  section 12.2 says that the refresh closes.

More that no run states, met on the way. For the first four, which the hazards of
`PROJECT.json` list as uncovered, TLC finds a trace in the models as they are (in
the instances described), so that none is hidden by the shape of a model:

* A buffer of another format with partial damage changes the opacity of the whole
  surface, of which `attach_content` damages the client's rectangles only
  (protocol.rs:1772; the partial path does not compare formats). With one window, an
  opaque and a translucent buffer and two cells, `IncrementalEqualsFromScratch`
  fails after two commits with buffers. `exposed` excuses it from
  `StaleOnlyWhereExposed`.
* `detach_subsurface`, whose comment (state.rs:327) says that the surface
  is "never displayed", is never called. After `wl_subsurface.destroy` the surface
  stays drawn (`SubsurfaceDestroyed` models that) and keeps its place in its
  parent's list. A client may make it a subsurface of another surface: it is in two
  lists, and if it leaves that role too, the second parent's next restacking drops
  it from the list and the second parent's unmapping hides it undamaged; or it
  hangs below its own former child, in a cycle that is not drawn. With four mapped
  surfaces, a window with two subsurfaces and one of those with another, and these
  requests, cells stay stale that are not exposed. The runs that check
  `StaleOnlyWhereExposed` have two surfaces, or three and not that request, and
  `DamageIsConservative` assumes that nobody makes it.
* The backlog counts only what is current (protocol.rs:2028). A client that commits
  on a synchronized subsurface, and not on its parent, is never throttled; when the
  parent commits, all of it becomes due. The limit is no "hard ceiling on a
  flooder's in-core footprint" (protocol.rs:169), with or without the burst of
  section 8.5: in the instance of `feedback` two requests on the subsurface and one
  on the surface pass it. `BacklogIsBounded` is therefore about the client's own
  surface.
* Every callback that is pending when the ping is handled is fired (section 8.3
  says so), so a commit that arrives between a frame and its ping is answered by a
  frame that does not show it. Section 8.6, and a test of the harness, say "fires
  once the commit is presented". What holds is `NoDoneBeforeItsCommit`, which asks
  only that the commit was sent to the scene thread, and, in the other direction,
  `NoFrameLeavesACallback`.
* Section 13.4 says that a frame in flight at a VT switch is "dropped, not
  queued"; one that arrives after the *return* is submitted as the first frame
  (commit.rs:474). It is no older than what the screen showed, so `Display` holds.
* Section 13.2 and lib.rs:158 say that "no client can ever observe the
  placeholder size". `main` listens on the socket before it calls `run`, and a
  client may bind `wl_output` while T-commit still looks for a device. What holds
  is `ClientsLearnTheMode`: it is told the mode afterwards.
* If the render thread cannot be spawned, `run` returns without joining T-commit
  (lib.rs:218), which still holds the screen. `ScreenIsGivenBack` excepts this case
  and says what is then the most it may hold: T-commit is before or in its loop, and
  the device it chose is the only one open. `RunReturns` has it
  that T-commit ends in this case too: its frame channel is closed, its sender having
  gone with the closure that was not spawned. The process may be gone before.
* `Rect::bounding` computes its extent as `x1 - x0` without saturating: for two
  rectangles more than 2^31 apart, which `wl_subsurface.set_position` allows, a
  build without overflow checks wraps to an empty rectangle and coalescing drops
  the damage. Three subsurfaces at both ends of the range and on the frame, and one
  more change, suffice. `NoneLost` in `RegionProofs` therefore
  assumes `BoxesFit`; of what the client declares damaged it assumes nothing.
* The hysteresis has no effect. `present` drains all callbacks, so a backlog
  never rests between the two marks: a client is parked exactly while it is at or over
  the limit (`ParkedExactlyOverTheLimit`, a theorem), and "a client that is
  genuinely flooding stays parked until it stops" (protocol.rs:209) does not happen:
  every frame lets it in for one more burst.

## 4. Proofs

Each theorem holds for every value of the constants that the module's `ASSUME`
allows. Those are the bounds' types and what the code takes for granted of its
inputs: that names of things and of nothing differ; that limits are naturals, the
callback limit no lower than the mark to resume at (`FrameCallbacksAssumption`);
that the kernel's answers to a probe are unsigned numbers and flags
(`DiscoveryAssumption`, `StartupAssumption`); that every surface and source of the
clipboard has an owner (`SeatAssumption`); that the frame begins at the origin and
no extent has a negative size, both coming from buffer sizes
(`RegionAssumption`); that SurfaceIds are numbers, of which any finite set may be
allocated, that a buffer has a pixel and that the depth limit is at least 1
(`SurfaceAssumption`, `ProtocolAssumption`). TLC evaluates them in every run. A theorem that needs more
says so: `~LateEvents` for three of `CommitLoop`'s, `BoxesFit` for two of `Region`'s, and
`"unsubsurface" \notin Requests`, that no client uses `wl_subsurface.destroy`, for
three of `Protocol`'s.

`ProtocolProofs` proves the type invariant, `FocusIsTopmostWindow` (`FocusOnTop`),
`StaleOnlyWhereExposed` (`DamageIsConservative`) and `SceneFollows`: the scene's
replica has a node for exactly the surfaces of the clients still connected, each of
which agrees with what the dispatch thread knows. It and `SceneHangsAsTheTree`
relate the two threads' copies of the tree, for any number of clients, surfaces,
buffers and commits and any depth limit.

The argument for focus. Focus is the topmost entry of the routing table, rebuilt by
`RefreshInputRouting` from Smithay's tree, or cut by `unmap`; what is drawn is
decided by `Placed` and `CompositionOrder` over the scene's nodes, which commits
changed one update at a time. `IInv` is what ties the two together:

* `TreeOK`: in Smithay's tree a surface's stacking order, if it is not empty, lists
  the surface itself and otherwise its children (`Around`); only subsurfaces have
  parents, cached state or the synchronized mode;
* `IdsOK`: ids are handed out upwards, so that a link to a surface destroyed long
  ago, which the scene may keep, never means a new one;
* `ToplevelsOK`: a toplevel is mapped exactly while it has pixels, and has then
  been acknowledged (the configure dance lets no content pass before);
* `TableOK`: an entry of the table is of an entry's type, and the focusable ones are the mapped toplevels, stacked
  by SurfaceId. The z of an entry is an index into a list made of all trees, so this
  needs to know that a root is listed in its own tree and in no other;
* `SceneOK`: a node is a toplevel exactly if its surface is one, has a source
  exactly if the surface has pixels, hangs below another only if it is a
  subsurface, and lists as its children itself and subsurfaces.

Beside it, `SidesOK` is what of the types `IInv` does not have: the routing table is
of live surfaces, and every cell of the retained frame is a stack of layers. With it
`TypeCorrect` says of every variable, down to the scene's nodes and the frame's
layers, what it can hold.

From these, with everybody's clients connected, the toplevels that the scene draws
are the mapped ones: they have the role, a source, a size, and no parent. And the
scene composites roots in ascending order, each of them once and before the next,
so the topmost window of the two orders is the same (`IInvFocus`). The long part is
that a commit keeps `IInv`. `CollectTree`'s list is shown to hold, for every
surface in the tree and whatever the depth, updates of that surface that fit what
it assigned (a geometry and a content only of a surface that attached, an unmap
only of one that detached, an order that is `Around` its parent); applying them, update by
update, leaves nodes with a source exactly where `PixelsAfter` leaves pixels, and
`ToplevelsAfter` maps exactly those that got some. Each operator that recurses
(`Ascending`, `Without`, `Placed`, `FlattenSubtree`, `CollectTree`,
`FlattenForInput`, `ApplyCommit`) is a recursive function, has a lemma that its
equation has a solution and one that says what it returns; there is one lemma per
action (`...Keeps`), as there is one per operation of the scene.

The argument for damage. `StaleOnlyWhereExposed` compares two composites of the
whole output, so the first part says what a scene paints in *one* cell. Each node
is an effect, a function from what is below it to what is then there; effects
compose, and compositing a snapshot is the composition of its trees' effects
(`PaintingIs`), whatever the depth. A surface that does not cover the cell has no
effect, so two scenes that show the same surfaces in a cell, in trees that differ
only in where silent surfaces stand, composite to the same there (`SameComposite`).

The second part is one lemma per operation of the scene: each is `Conservative`,
which means that a cell it does not damage either lies under what it exposes or is
composited as before. For most of them this is because they damage what the changed
subtree covers, before and after, and nothing outside that subtree's reach changes;
`attach_content` with partial damage is the hard one. What it leaves out are cells
where the old and the new pixels are the same, and that is not in the scene but in
`build_pixel_block`: it is true only if the block that the update carries was made
from the block the scene shows. The third part therefore follows one commit: the
updates that `CollectTree` gathers are each sound for the scene *they are applied
to*, not for the one the commit began with (`EffectiveCommitConserves`): nothing
earlier in the list has changed the source that a later one was built from.

The inductive invariant is `DInv`, beside `IInv` (both in `ProtocolInvariants`):

* `Fresh`: every cell of the retained frame will be recomputed, or lies under an
  exposed surface, or shows what compositing from nothing would. It is the property
  itself, in a form that a step can carry;
* `Follows`: the pixels that the dispatch thread holds of a surface are the ones
  the scene shows (`build_pixel_block` works on its own copy), and a node hangs
  where Smithay's surface does;
* `Kin`: a node's children belong to its client, without which a departure would
  orphan another client's subsurfaces outside the damage;
* `LinkOK`: in Smithay's tree a child is in its parent's order, so that a restacking,
  which replaces the scene's list by that order, drops nothing that is drawn;
* `Neat`: a node is in the list of the node it hangs from, if that is still there,
  and has the size of its content.

`wl_subsurface.destroy` breaks `Follows`: no handler hears of it, so
the scene keeps a link that Smithay has dropped. That is what the assumption
excludes, and with that request the property is false (section 3, Findings).
`IncrementalUnlessExposed` restates the result in the words of
`docs/scene_graph_v1.md` 9.1.

`CommitLoopProofs` proves the type invariant,
`OneFrameInFlight`, `BufferIsRecycled`, `NoFrameWhileFlipping`, and, assuming
`~LateEvents`, `BeliefMatchesKernel`, `NeverWritesTheScannedBuffer` and
`ImplementsDisplay` (`CycleImplementsDisplay`): every step of the cycle is a step
of `Display` or a stutter.

The argument. `Pipe` is the inductive form of the first two: the number of
frames in ticks, T-render's hands and the frame channel is at most one if
T-commit awaits a frame and zero otherwise, and together with the spare slot it
never exceeds the number of buffers allocated, which is at most one. It is
needed because neither property alone says where the buffer is.
`NoFrameWhileFlipping` is inductive by itself: `request_frame` tests both flags,
and `flip_pending` is raised only by `on_frame`, which has just lowered
`awaiting_frame`. The last two rest on `Belief`, which ties `displayed`,
`flipping` and `flip_pending` to what the kernel scans out, has queued and has
completed, in the foreground and while away; `AnswerFindsNoFlip` (a frame that
arrives finds no flip pending) connects it with the pipeline. The refinement
needs one more, `Ordered`: along the pipeline, from the scene over the frame
being drawn and the frame sent to the buffer queued and the buffer scanned out,
versions do not increase. It is inductive because there is only one frame on the
way (`Pipe`) and because a frame is written to the buffer not on screen (`Belief`).

`FrameCallbacksProofs` proves the type invariant, `EachCallbackOnce`,
`ParkedExactlyOverTheLimit`, `NoFrameLeavesACallback`, `NoDoneBeforeItsCommit` and
`BacklogIsBounded`: all of the module's safety properties.

The argument. `Tracked` adds to the types that no callback is known before its
request was read (`ReadOnly`), which keeps the four places a callback can be in
disjoint. Throttling is exact because the backlog changes in three handlers only,
each of which ends in `update_throttles`, and because `present` leaves it empty.
`NoFrameLeavesACallback` needs `CachedIsNews`: whatever the scene, a frame or a
message in the mailbox says of a client is older than any callback still cached,
and than the next request; so a commit that makes cached callbacks current cannot
make a frame of the past responsible for them. `NoDoneBeforeItsCommit` is the other
direction: a callback that is due, or was fired, is of a commit that the scene
knows or that a message will tell it (`DueIsKnown`), though perhaps after the frame that
fired the callback. A message that is handled
must not make the scene forget, and so what is said of one client must only grow
along the mailbox (`InOrder`), which holds because a new message is newer than all
there is (`CachedIsNews` again). `BacklogIsBounded` needs
`RoomForTheBurst`: while a client is dispatched, what it has due and what is left
in its socket stay under the bound together; it starts a dispatch only under the
limit, and the socket holds at most `SocketSize`.

`SceneThreadProofs` proves the type invariant, `BlockedIsHeard`, `ParkedIsFalse`
and `ImplementsAtomicScene` (`MailboxIsAtomic`). The argument. The scene changes in
one handler only, and the check that ends it empties the slot if the condition
holds; a wait enters the slot only after its condition was found false. But the
condition is the caller's own state, and a caller that could call again while
parked would change it. `Heard` excludes that: whoever has a call in the mailbox
or in the slot is in that call, is there once, and no one else is. `Awaited` is
the converse: whoever is in a call has it in the mailbox or in the slot. Together
they are `BlockedIsHeard`. For the refinement the mailbox is split by sender: the
posts of a caller, in their order, are what `AtomicScene` keeps for it. `PostsIn` is
a recursive function over the mailbox, and the lemmas say what a message added at
the end or taken from the front does to it. A read returns the scene after the
caller's own posts because of `Quiet`: behind a call nothing of the same caller is
in the mailbox, so that when the loop answers it, nothing of it is pending.

`StartupProofs` proves the type invariant, `ScreenIsGivenBack`,
`FirstUsableIsDriven` and `AdvertisedIsDriven`, for every machine: any number of
devices, connectors and modes, and any timings. `Lifetimes` says what each thread
may be doing given what main is at, when a report may be in the channel, and what
T-commit holds given what it is at: nothing opened unless it is alive and past the
probe, nothing driven unless it is past setup. Main joins in an order that needs
both; the one way past the joins is a T-render that could not be spawned, which
`ScreenIsGivenBack` excepts. `Candidates` says that the devices passed over had nothing usable and that
what is driven is what setup found on the device at hand; `OnItsWay`, that whatever
is in the control channel or in `wl_output` is what setup reported. What these say
of the choice comes from lemmas about `Discovery`'s functions: `Outranks` is a strict
order, so that a connector with a mode has a best one; what `Scan`'s recursion keeps
of a list of any length, and under which index; what `SelectOutput` and `SelectMode`
pick of it; and that the quotient of `RefreshMhz` is within half a millihertz.

`SeatProofs` proves the type invariant, `ClipboardFollowsTheKeyboard` and
`OfferIsAlive`. `ClipboardFollowsTheKeyboard` is about the ends of turns; during a
teardown Smithay drops the keyboard from a dying surface before the handler moves
it on. `Followed` says what holds after every handler: `keyboard_focus` is the
topmost window, the keyboard is there or, while the focused window's own client is
torn down, nowhere, and the data device is where the keyboard is. It needs
`Stacked`, that the table orders the windows by their ids, through the rebuilding
of the table when one maps. `Offered` says that in a turn in which a surface died
the refresh is asked for, and that between turns the focused client was offered the
selection and only an unnoticed death can have hit it.

`RegionProofs` proves the type invariant and, assuming `BoxesFit`, `NoDamageIsLost`
and `NothingBeyondTheBox`, for integers of any width, any limit, any frame and any
rectangles. Rectangles are products, so most lemmas are about one axis: what the
intersection and the hull of two intervals are when ends saturate and lengths wrap.
Clipping a rectangle to a buffer or to the frame never wraps, since both begin at
0, and the piece, moved to the surface's place, stays exactly the part of the extent
it names (`ClippedIs`, `PlacedIs`). The inductive invariant is `Tracked`: the list
covers the damage, and each rectangle in it lies between extents that were damaged
(which is what keeps the next box from wrapping) and begins and ends, on each axis,
where some damaged pixel does (which is what keeps the box tight). It is carried
through `BoundingBox`'s recursion over the list.

`Recursion` has what these need of recursion. The library's induction theorems take
the induction hypothesis as an operator, which the installed provers cannot
instantiate; here the hypothesis is the *set* of the numbers that satisfy it, and
the proof is from well-foundedness. With it, a function that is defined by recursion
on an interval exists and satisfies its equation (`RecursiveFunction`), which is
what a proof needs to know of `PostsIn`, `Scan`, `BoundingBox` and `Scene`'s walks; these are
written as recursive functions for that reason. `FlattenSeq`, which recurs too, has a
lemma here that says where each element of the concatenation comes from.

Only model-checked:

* the liveness properties, which the provers do not reach: `ScreenCatchesUp`,
  `ShutdownEndsBoth`, `EveryRequestIsRead`, `EveryCallbackIsAnswered`,
  `TheDepartedAreForgotten`, `ClientsLearnTheMode`, `RunReturns`, `EveryCallReturns`;
* `DrawnIsRoutable`: a property of `TreeSpec` only, which starts in a window with two
  subsurfaces and where no client changes a tree's shape. Over all of `Spec` it
  does not hold (see `click`), so there is no theorem to state.

## 5. Plan

Done: `Scene`, `FocusMap`, `Protocol`; `CommitLoop`, `Display` and their proofs;
`Region`, `FrameCallbacks`, `SceneThread` with `AtomicScene`, `Startup` with
`Discovery`, `Seat`, each with its proofs.

Left: the nested backend's window (resize, redraw and close around one render
loop).

## 6. Not modelled

* Pointer and key events (`apply_input`): each event is forwarded to Smithay,
  which keeps the pressed keys, the pointer's focus and its implicit grab. What
  the program decides is which surface a position hits (`FocusMap`, checked
  against what is drawn in `Protocol`) and who has the keyboard (`Seat`).
* Drags: the source is cancelled at once and nothing is kept.
* Popups: dismissed on creation.
* Titles, output enter and leave, ping and pong, counters: no decision of the
  program depends on them.
* Pixel conversion (`present.rs`), key tables and colour blending: pure functions
  of bytes with unit tests of their own; blending is kept symbolic in `Scene`.
* The winit event loop, the headless wiring, the test harness and the spike: no
  logic of the compositor's own. The dialect crate is empty.
