----------------------------- MODULE CommitLoop -----------------------------
(***************************************************************************)
(* The frame cycle on metal: T-commit (crates/backend-drm/src/commit.rs),  *)
(* T-render (its render.rs, around core's RenderLoop::tick), the two       *)
(* channels between them, VT switches, and the display engine.             *)
(*                                                                         *)
(* T-commit is one calloop: each handler is an action and LoopTurn is the  *)
(* callback that runs after every dispatch, at least each LOOP_TIMEOUT.    *)
(* T-render takes two steps, so T-commit's handlers interleave with a      *)
(* frame in the making.  A frame is the version of the scene it shows; a   *)
(* tick is a pixel buffer and nothing else, so the channel of ticks is     *)
(* their number.                                                           *)
(*                                                                         *)
(* External: the kernel's flip queue, the VT, and the moment a commit or a *)
(* mapping fails.  A commit while a flip is queued is refused (EBUSY).     *)
(***************************************************************************)
EXTENDS Integers, Sequences

CONSTANTS
  LateEvents,     \* may a completion event outlive the pause it happened in?
  Foreign,        \* the CRTC shows another VT, or the console we started from
  NoFlip,         \* the kernel has no flip queued
  MaxVersion,     \* bound of the model: changes of the scene
  MaxFailures,    \* bound of the model: commits and writes that fail
  MaxSwitches     \* bound of the model: VT switches

Buffer == {0, 1}

ASSUME CommitLoopAssumption ==
  /\ LateEvents \in BOOLEAN
  /\ Foreign \notin Buffer
  /\ NoFlip \notin Buffer
  /\ MaxVersion \in Nat /\ MaxFailures \in Nat /\ MaxSwitches \in Nat

VARIABLES
  displayed, flipping,     \* the indices T-commit believes in
  flipPending, awaitingFrame, active, needsModeset,
  spare,                   \* a pixel buffer is kept for the next tick
  running,                 \* the loop has not been stopped
  vtSwitches, commitsFailed,
  ticks, frames,           \* what is in the channels to and from T-render
  renderer,                \* what T-render is doing
  drawn,                   \* the frame it has in hand
  shutdown,                \* the flag a signal handler raises
  version, fullDamage,     \* the scene: its content, and damage_full
  contents,                \* what each scanout buffer holds
  scanning,                \* kernel: the buffer on the CRTC
  queued,                  \* kernel: the accepted flip that has not happened
  completions,             \* kernel: flip events not yet dispatched
  session,                 \* libseat: whose VT it is
  allocated                \* history: pixel buffers ever allocated

cycle    == <<displayed, flipping, flipPending, needsModeset>>
pipeline == <<awaitingFrame, spare, running, ticks, allocated>>
render   == <<frames, renderer, drawn>>
kernel   == <<scanning, queued, completions, session>>
scene    == <<version, fullDamage>>
vars == <<cycle, pipeline, render, kernel, scene, active, vtSwitches, commitsFailed,
          shutdown, contents>>

Frame == Nat
NoFrame == 0

Init ==
  /\ displayed = 0 /\ flipping = 0 /\ flipPending = FALSE /\ needsModeset = TRUE
  /\ active \in BOOLEAN
  /\ session = (IF active THEN "here" ELSE "away")
  /\ spare = FALSE /\ running = TRUE
  /\ vtSwitches = 0 /\ commitsFailed = 0
  \* the cycle is primed before the loop starts
  /\ awaitingFrame = active
  /\ ticks = (IF active THEN 1 ELSE 0)
  /\ allocated = (IF active THEN 1 ELSE 0)
  /\ frames = <<>> /\ renderer = "waiting" /\ drawn = NoFrame
  /\ shutdown = FALSE
  /\ version = 0 /\ fullDamage = TRUE
  /\ contents = [b \in Buffer |-> NoFrame]
  /\ scanning = Foreign /\ queued = NoFlip /\ completions = 0

-----------------------------------------------------------------------------
(* T-commit.                                                                 *)

(* Mutants of request_frame: it forgets one of its two early returns.        *)
TickSent(hasSpare) ==
  /\ spare' = FALSE
  /\ allocated' = IF hasSpare THEN allocated ELSE allocated + 1
  /\ ticks' = ticks + 1 /\ awaitingFrame' = TRUE
  /\ UNCHANGED running
RequestFrameWhileAwaiting(isActive, flip) ==
  IF ~isActive \/ flip THEN UNCHANGED pipeline ELSE TickSent(spare)
RequestFrameWhileFlipping(isActive, flip) ==
  IF ~isActive \/ awaitingFrame THEN UNCHANGED pipeline ELSE TickSent(spare)

(* request_frame, for a loop whose `active` and `flip_pending` are these.    *)
(* The spare buffer travels with the tick; without one, a new one does.      *)
RequestFrame(isActive, flip) ==
  IF ~isActive \/ flip \/ awaitingFrame
  THEN UNCHANGED pipeline
  ELSE /\ spare' = FALSE
       /\ allocated' = IF spare THEN allocated ELSE allocated + 1
       /\ IF renderer = "gone"
          THEN running' = FALSE /\ UNCHANGED <<ticks, awaitingFrame>>
          ELSE /\ ticks' = ticks + 1
               /\ awaitingFrame' = TRUE
               /\ UNCHANGED running

(* Mutant of the back buffer's index.                                        *)
NextBuffer == displayed + 1

back == 1 - displayed

(* Mutant of on_frame: a frame dropped while paused takes its buffer along.  *)
AnsweredAndLost ==
  /\ running /\ frames # <<>>
  /\ frames' = Tail(frames)
  /\ awaitingFrame' = FALSE
  /\ spare' = active
  /\ UNCHANGED <<running, ticks, allocated, renderer, drawn, scene, active, vtSwitches,
                 shutdown, displayed, scanning, completions, session>>

(* on_frame: T-render's answer is taken and its allocation kept, whatever    *)
(* becomes of the pixels.                                                    *)
Answered ==
  /\ running /\ frames # <<>>
  /\ frames' = Tail(frames)
  /\ awaitingFrame' = FALSE
  /\ spare' = TRUE
  /\ UNCHANGED <<running, ticks, allocated, renderer, drawn, scene, active, vtSwitches,
                 shutdown, displayed, scanning, completions, session>>

(* Paused: the frame is dropped.                                             *)
FrameWhilePaused ==
  /\ Answered /\ ~active
  /\ UNCHANGED <<flipping, flipPending, needsModeset, contents, commitsFailed, queued>>

(* The back buffer cannot be mapped, or takes only some of the rows.         *)
FrameUnwritable ==
  /\ Answered /\ active
  /\ commitsFailed < MaxFailures
  /\ commitsFailed' = commitsFailed + 1
  /\ contents' \in {contents, [contents EXCEPT ![back] = NoFrame]}
  /\ UNCHANGED <<flipping, flipPending, needsModeset, queued>>

Written == contents' = [contents EXCEPT ![back] = Head(frames)]

(* submit: the kernel accepts the flip, or the modeset.                      *)
FrameSubmitted ==
  /\ Answered /\ active /\ Written
  /\ queued = NoFlip
  /\ queued' = back
  /\ flipping' = back /\ flipPending' = TRUE /\ needsModeset' = FALSE
  /\ UNCHANGED commitsFailed

(* submit: it does not.  Nothing is retried here; the next try is a modeset. *)
FrameRejected ==
  /\ Answered /\ active /\ Written
  /\ commitsFailed < MaxFailures
  /\ commitsFailed' = commitsFailed + 1
  /\ needsModeset' = TRUE
  /\ UNCHANGED <<flipping, flipPending, queued>>

(* Mutant of on_vblank: it does not swap the buffers.                        *)
OnVblankWithoutSwap ==
  /\ running /\ completions > 0
  /\ completions' = completions - 1
  /\ flipPending' = FALSE
  /\ RequestFrame(active, FALSE)
  /\ UNCHANGED <<displayed, flipping, needsModeset, render, scanning, queued, session, scene,
                 active, vtSwitches, commitsFailed, shutdown, contents>>

OnVblank ==
  /\ running /\ completions > 0
  /\ completions' = completions - 1
  /\ flipPending' = FALSE
  /\ displayed' = flipping
  /\ RequestFrame(active, FALSE)
  /\ UNCHANGED <<flipping, needsModeset, render, scanning, queued, session, scene, active,
                 vtSwitches, commitsFailed, shutdown, contents>>

(* Mutant of on_pause: it leaves flip_pending set.                           *)
OnPauseKeepingFlip ==
  /\ running /\ session = "here"
  /\ vtSwitches < MaxSwitches
  /\ session' = "away"
  /\ active' = FALSE
  /\ vtSwitches' = vtSwitches + 1
  /\ UNCHANGED <<cycle, pipeline, render, scanning, queued, completions, scene,
                 commitsFailed, shutdown, contents>>

OnPause ==
  /\ running /\ session = "here"
  /\ vtSwitches < MaxSwitches
  /\ session' = "away"
  /\ active' = FALSE /\ flipPending' = FALSE
  /\ vtSwitches' = vtSwitches + 1
  /\ UNCHANGED <<displayed, flipping, needsModeset, pipeline, render, scanning, queued,
                 completions, scene, commitsFailed, shutdown, contents>>

(* The other VT has had the screen.                                          *)
Returning ==
  /\ running /\ session = "away"
  /\ scanning = Foreign /\ queued = NoFlip
  /\ LateEvents \/ completions = 0
  /\ session' = "here"
  /\ UNCHANGED <<displayed, flipping, flipPending, render, scanning, queued, completions,
                 version, vtSwitches, commitsFailed, shutdown, contents>>

OnActivate ==
  /\ Returning
  /\ fullDamage' = TRUE
  /\ active' = TRUE /\ needsModeset' = TRUE
  /\ RequestFrame(TRUE, flipPending)

(* DrmDevice::activate fails: the handler gives up, and stays inactive.      *)
ActivateFails ==
  /\ Returning
  /\ UNCHANGED <<fullDamage, active, needsModeset, pipeline>>

(* Mutants of the callback: no watchdog; a flag seen only in the foreground. *)
LoopTurnWithoutWatchdog ==
  /\ running /\ shutdown
  /\ running' = FALSE
  /\ UNCHANGED <<awaitingFrame, spare, ticks, allocated, cycle, render, kernel, scene, active,
                 vtSwitches, commitsFailed, shutdown, contents>>
LoopTurnInForeground ==
  /\ running
  /\ IF shutdown /\ active
     THEN running' = FALSE /\ UNCHANGED <<awaitingFrame, spare, ticks, allocated>>
     ELSE RequestFrame(active, flipPending)
  /\ UNCHANGED <<cycle, render, kernel, scene, active, vtSwitches, commitsFailed, shutdown,
                 contents>>

(* The callback after each dispatch: the shutdown flag, else the watchdog.   *)
LoopTurn ==
  /\ running
  /\ IF shutdown THEN running' = FALSE /\ UNCHANGED <<awaitingFrame, spare, ticks, allocated>>
     ELSE RequestFrame(active, flipPending)
  /\ UNCHANGED <<cycle, render, kernel, scene, active, vtSwitches, commitsFailed, shutdown,
                 contents>>

(* ChannelEvent::Closed: T-render has dropped its sender.                    *)
RendererClosed ==
  /\ running /\ renderer = "gone" /\ frames = <<>>
  /\ running' = FALSE
  /\ UNCHANGED <<cycle, awaitingFrame, spare, ticks, allocated, render, kernel, scene, active,
                 vtSwitches, commitsFailed, shutdown, contents>>

-----------------------------------------------------------------------------
(* T-render.                                                                 *)

others == <<cycle, kernel, active, vtSwitches, commitsFailed, shutdown, contents,
            awaitingFrame, spare, running, allocated>>

(* A tick is received; RenderLoop::tick takes the snapshot, which drains the *)
(* scene's damage, and composites it.                                        *)
Render ==
  /\ renderer = "waiting" /\ ticks > 0
  /\ ticks' = ticks - 1
  /\ drawn' = version
  /\ fullDamage' = FALSE
  /\ renderer' = "converting"
  /\ UNCHANGED <<others, frames, version>>

(* The pixels are sent; T-commit gone is the end of the loop.                *)
SendFrame ==
  /\ renderer = "converting"
  /\ IF running THEN frames' = Append(frames, drawn) /\ renderer' = "waiting"
                ELSE renderer' = "gone" /\ UNCHANGED frames
  /\ UNCHANGED <<others, ticks, drawn, scene>>

(* recv fails: T-commit has dropped its sender, and no tick is left.         *)
TicksClosed ==
  /\ renderer = "waiting" /\ ~running /\ ticks = 0
  /\ renderer' = "gone"
  /\ UNCHANGED <<others, ticks, frames, drawn, scene>>

(* A panic in the compositor ends the thread, with the frame it had.         *)
RenderPanics ==
  /\ renderer = "converting"
  /\ renderer' = "gone"
  /\ UNCHANGED <<others, ticks, frames, drawn, scene>>

-----------------------------------------------------------------------------
(* The rest of the world.                                                    *)

(* Any message that changes what the scene shows.                            *)
SceneChanges ==
  /\ version < MaxVersion
  /\ version' = version + 1
  /\ UNCHANGED <<cycle, pipeline, render, kernel, fullDamage, active, vtSwitches,
                 commitsFailed, shutdown, contents>>

RaiseShutdown ==
  /\ ~shutdown
  /\ shutdown' = TRUE
  /\ UNCHANGED <<cycle, pipeline, render, kernel, scene, active, vtSwitches, commitsFailed,
                 contents>>

outside == <<cycle, pipeline, render, scene, active, vtSwitches, commitsFailed, shutdown,
             contents>>

(* The display engine reaches the queued flip.                               *)
Flip ==
  /\ queued # NoFlip
  /\ scanning' = queued
  /\ queued' = NoFlip
  /\ completions' = completions + 1
  /\ UNCHANGED <<session, outside>>

(* The other VT sets its own mode; a flip still queued is lost.              *)
VtTaken ==
  /\ session = "away" /\ scanning # Foreign
  /\ scanning' = Foreign
  /\ queued' = NoFlip
  /\ UNCHANGED <<completions, session, outside>>

-----------------------------------------------------------------------------
OnFrame == FrameWhilePaused \/ FrameUnwritable \/ FrameSubmitted \/ FrameRejected

Commit == OnFrame \/ OnVblank \/ OnPause \/ OnActivate \/ ActivateFails \/ LoopTurn
            \/ RendererClosed
Renderer == Render \/ SendFrame \/ TicksClosed \/ RenderPanics
World == SceneChanges \/ RaiseShutdown \/ Flip \/ VtTaken

Next == Commit \/ Renderer \/ World

Spec == Init /\ [][Next]_vars

(* Each calloop source is dispatched once it is ready, the loop turns at     *)
(* least every LOOP_TIMEOUT, T-render runs, and the display engine keeps     *)
(* flipping.  Nothing is assumed of the VT, the signals or the failures.     *)
Fairness ==
  /\ WF_vars(OnFrame) /\ WF_vars(OnVblank) /\ WF_vars(LoopTurn) /\ WF_vars(RendererClosed)
  /\ WF_vars(Render) /\ WF_vars(SendFrame) /\ WF_vars(TicksClosed)
  /\ WF_vars(Flip)

FairSpec == Spec /\ Fairness

-----------------------------------------------------------------------------
(* Properties.                                                               *)

FlagsOK ==
  /\ flipPending \in BOOLEAN /\ awaitingFrame \in BOOLEAN /\ active \in BOOLEAN
  /\ needsModeset \in BOOLEAN /\ spare \in BOOLEAN /\ running \in BOOLEAN
  /\ shutdown \in BOOLEAN /\ fullDamage \in BOOLEAN

DataOK ==
  /\ displayed \in Buffer /\ flipping \in Buffer
  /\ vtSwitches \in Nat /\ commitsFailed \in Nat
  /\ ticks \in Nat /\ frames \in Seq(Frame)
  /\ renderer \in {"waiting", "converting", "gone"}
  /\ drawn \in Frame
  /\ version \in Nat
  /\ contents \in [Buffer -> Frame]
  /\ scanning \in Buffer \cup {Foreign} /\ queued \in Buffer \cup {NoFlip}
  /\ completions \in Nat /\ session \in {"here", "away"}
  /\ allocated \in Nat

(* Every variable holds what its Rust type, or the kernel, can hold.         *)
TypeOK == FlagsOK /\ DataOK

One(b) == IF b THEN 1 ELSE 0

InFlight == ticks + One(renderer = "converting") + Len(frames)

(* commit.rs: "exactly one frame in flight".  While the loop runs, whatever  *)
(* the order of vblanks, VT switches, failures and watchdog turns, there is  *)
(* never more than one frame between the two threads, and none unless        *)
(* T-commit knows that it is waiting for it.                                 *)
OneFrameInFlight == InFlight <= One(awaitingFrame)

(* The pixel buffer is recycled, never allocated twice: it is in the spare   *)
(* slot or travels with the one frame.                                       *)
BufferIsRecycled == allocated <= 1 /\ InFlight + One(spare) <= allocated

(* A frame is asked for only once the last submission is over, so no frame   *)
(* is in the making while a flip is pending.                                 *)
NoFrameWhileFlipping == ~(awaitingFrame /\ flipPending)

(* While the session is ours, T-commit's belief agrees with the kernel: a    *)
(* flip is pending exactly when one is queued or its event is under way, and *)
(* otherwise `displayed` is the buffer on the CRTC, if any of them is.       *)
BeliefMatchesKernel ==
  active => /\ flipPending <=> (queued # NoFlip \/ completions > 0)
            /\ ~flipPending => scanning \in {displayed, Foreign}

(* buffer.rs: "while the CRTC scans one out, the compositor writes the       *)
(* other": no step writes the buffer on the CRTC or the one queued for it.   *)
NeverWritesTheScannedBuffer ==
  [][\A b \in Buffer : contents'[b] # contents[b] => scanning # b /\ queued # b]_vars

(* The cycle implements the screen that section 13 of scene_graph_v1.md      *)
(* promises: whole frames, never an older one after a newer, through every   *)
(* order of flips, failures and VT switches.                                 *)
Screen == INSTANCE Display WITH
            foreground <- session = "here",
            ours <- scanning # Foreign,
            screen <- IF scanning = Foreign THEN 0 ELSE contents[scanning]
ImplementsDisplay == Screen!Spec

(* The screen catches up with the scene for as long as the loop runs with    *)
(* the session in the foreground: failed commits and writes, VT switches and *)
(* drops never stop the cycle for good.                                      *)
ScreenCatchesUp ==
  <>[](running /\ active) =>
     []<>(scanning # Foreign /\ contents[scanning] = version)

(* Once shutdown is raised both threads end; T-render needs no flag.         *)
ShutdownEndsBoth == shutdown ~> (~running /\ renderer = "gone")
=============================================================================
