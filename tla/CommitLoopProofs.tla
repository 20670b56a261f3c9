-------------------------- MODULE CommitLoopProofs --------------------------
(***************************************************************************)
(* Proofs about CommitLoop, for every scene, every number of VT switches   *)
(* and failures: the types, one frame in flight, the recycled buffer and,  *)
(* when no completion event outlives a pause, that T-commit never writes   *)
(* the buffer the CRTC shows and that the cycle implements Display.        *)
(***************************************************************************)
EXTENDS CommitLoop, TLAPS

(* What a running loop knows of the pipeline: the frame it waits for is the  *)
(* one in flight, and the pixel buffer is in flight or spare.  A T-render    *)
(* that dies under a running loop takes the awaited frame with it.           *)
Conserved ==
  running => \/ /\ renderer # "gone"
                /\ InFlight = One(awaitingFrame)
                /\ InFlight + One(spare) = allocated
             \/ renderer = "gone" /\ awaitingFrame /\ InFlight = 0

PipelineInv == TypeOK /\ OneFrameInFlight /\ BufferIsRecycled /\ Conserved

(* What T-commit's belief says about the kernel, and where the kernel stands *)
(* while the belief says nothing.                                            *)
KernelInv ==
  /\ active => session = "here"
  /\ flipPending => active
  /\ completions <= 1
  /\ queued # NoFlip => completions = 0
  /\ active => (flipPending <=> (queued # NoFlip \/ completions > 0))
  /\ active /\ queued # NoFlip => queued = flipping
  /\ active /\ completions > 0 => scanning = flipping
  /\ active /\ ~flipPending => scanning \in {displayed, Foreign}
  /\ session = "here" /\ ~active => /\ scanning = Foreign
                                    /\ queued = NoFlip
                                    /\ completions = 0

-----------------------------------------------------------------------------
(* A tick, sent or not, leaves the types of the pipeline alone.              *)
LEMMA RequestFrameType ==
  ASSUME TypeOK, NEW a, NEW f, RequestFrame(a, f)
  PROVE  /\ awaitingFrame' \in BOOLEAN /\ spare' \in BOOLEAN /\ running' \in BOOLEAN
         /\ ticks' \in Nat /\ allocated' \in Nat
<1>1. CASE UNCHANGED pipeline
  BY <1>1 DEF pipeline, TypeOK, FlagsOK, DataOK
<1>2. CASE ~UNCHANGED pipeline
  <2>1. /\ spare' = FALSE
        /\ allocated' = (IF spare THEN allocated ELSE allocated + 1)
        /\ \/ running' = FALSE /\ ticks' = ticks /\ awaitingFrame' = awaitingFrame
           \/ running' = running /\ ticks' = ticks + 1 /\ awaitingFrame' = TRUE
    BY <1>2, Zenon DEF RequestFrame
  <2>2. ticks' \in Nat /\ allocated' \in Nat
    BY <2>1 DEF TypeOK, DataOK
  <2>3. awaitingFrame' \in BOOLEAN /\ spare' \in BOOLEAN /\ running' \in BOOLEAN
    BY <2>1, Zenon DEF TypeOK, FlagsOK
  <2> QED
    BY <2>2, <2>3
<1> QED
  BY <1>1, <1>2

LEMMA InitType == Init => TypeOK
BY CommitLoopAssumption DEF Init, TypeOK, FlagsOK, DataOK, Buffer, NoFrame, Frame

(* An answer is consumed whole; the rest of on_frame picks up from here.     *)
LEMMA AnsweredType ==
  ASSUME TypeOK, Answered
  PROVE  /\ frames' \in Seq(Frame) /\ Head(frames) \in Frame
         /\ back \in Buffer /\ NoFrame \in Frame
<1>1. frames \in Seq(Frame) /\ frames # <<>> /\ frames' = Tail(frames)
  BY DEF TypeOK, DataOK, Answered
<1>2. back \in Buffer /\ NoFrame \in Frame
  BY DEF TypeOK, DataOK, back, Buffer, NoFrame, Frame
<1> QED
  BY <1>1, <1>2

(* No handler, no step of T-render and no event of the outside breaks a type.*)
LEMMA NextType == TypeOK /\ [Next]_vars => TypeOK'
<1> SUFFICES ASSUME TypeOK, [Next]_vars PROVE FlagsOK' /\ DataOK'
  BY DEF TypeOK
<1> USE CommitLoopAssumption
<1>1. CASE OnFrame
  <2>1. Answered
    BY <1>1 DEF OnFrame, FrameWhilePaused, FrameUnwritable, FrameSubmitted, FrameRejected
  <2>2. FlagsOK'
    BY <1>1, Zenon DEF OnFrame, FrameWhilePaused, FrameUnwritable, FrameSubmitted,
                       FrameRejected, Answered, scene, TypeOK, FlagsOK
  <2>3. /\ frames' \in Seq(Frame) /\ Head(frames) \in Frame
        /\ back \in Buffer /\ NoFrame \in Frame
    BY <2>1, AnsweredType
  <2>4. /\ UNCHANGED <<ticks, allocated, renderer, drawn, vtSwitches>>
        /\ UNCHANGED <<version, displayed, scanning, completions, session>>
    BY <2>1 DEF Answered, scene
  <2>5. contents' \in [Buffer -> Frame]
    BY <1>1, <2>3 DEF OnFrame, FrameWhilePaused, FrameUnwritable, FrameSubmitted,
                      FrameRejected, Written, TypeOK, DataOK
  <2>6. flipping' \in Buffer /\ queued' \in Buffer \cup {NoFlip}
    BY <1>1, <2>3 DEF OnFrame, FrameWhilePaused, FrameUnwritable, FrameSubmitted,
                      FrameRejected, TypeOK, DataOK
  <2>7. commitsFailed' \in Nat
    BY <1>1 DEF OnFrame, FrameWhilePaused, FrameUnwritable, FrameSubmitted,
                FrameRejected, TypeOK, DataOK
  <2>8. DataOK'
    BY <2>3, <2>4, <2>5, <2>6, <2>7 DEF TypeOK, DataOK
  <2> QED
    BY <2>2, <2>8
<1>2. CASE OnVblank
  <2>1. RequestFrame(active, FALSE)
    BY <1>2 DEF OnVblank
  <2>2. FlagsOK'
    BY <1>2, <2>1, RequestFrameType DEF OnVblank, TypeOK, FlagsOK, scene
  <2>3. ticks' \in Nat /\ allocated' \in Nat
    BY <2>1, RequestFrameType
  <2>4. completions' \in Nat /\ displayed' \in Buffer
    BY <1>2 DEF OnVblank, TypeOK, DataOK
  <2>5. UNCHANGED <<flipping, frames, renderer, drawn, scanning, queued, session, version,
                    vtSwitches, commitsFailed, contents>>
    BY <1>2 DEF OnVblank, render, scene
  <2>6. DataOK'
    BY <2>3, <2>4, <2>5 DEF TypeOK, DataOK
  <2> QED
    BY <2>2, <2>6
<1>3. CASE OnPause
  <2>1. FlagsOK'
    BY <1>3 DEF OnPause, TypeOK, FlagsOK, pipeline, scene
  <2>2. DataOK'
    BY <1>3 DEF OnPause, TypeOK, DataOK, pipeline, render, scene
  <2> QED
    BY <2>1, <2>2
<1>4. CASE OnActivate
  <2>1. RequestFrame(TRUE, flipPending)
    BY <1>4 DEF OnActivate
  <2>2. FlagsOK'
    BY <1>4, <2>1, RequestFrameType DEF OnActivate, Returning, TypeOK, FlagsOK
  <2>3. DataOK'
    BY <1>4, <2>1, RequestFrameType DEF OnActivate, Returning, TypeOK, DataOK, render
  <2> QED
    BY <2>2, <2>3
<1>5. CASE ActivateFails
  <2>1. FlagsOK'
    BY <1>5 DEF ActivateFails, Returning, TypeOK, FlagsOK, pipeline
  <2>2. DataOK'
    BY <1>5 DEF ActivateFails, Returning, TypeOK, DataOK, render, pipeline
  <2> QED
    BY <2>1, <2>2
<1>6. CASE LoopTurn
  <2>1. CASE shutdown
    <3>1. FlagsOK'
      BY <1>6, <2>1 DEF LoopTurn, TypeOK, FlagsOK, cycle, scene
    <3>2. DataOK'
      BY <1>6, <2>1 DEF LoopTurn, TypeOK, DataOK, cycle, render, kernel, scene
    <3> QED
      BY <3>1, <3>2
  <2>2. CASE ~shutdown
    <3>1. RequestFrame(active, flipPending)
      BY <1>6, <2>2 DEF LoopTurn
    <3>2. FlagsOK'
      BY <1>6, <3>1, RequestFrameType DEF LoopTurn, TypeOK, FlagsOK, cycle, scene
    <3>3. DataOK'
      BY <1>6, <3>1, RequestFrameType
         DEF LoopTurn, TypeOK, DataOK, cycle, render, kernel, scene
    <3> QED
      BY <3>2, <3>3
  <2> QED
    BY <2>1, <2>2
<1>7. CASE RendererClosed
  <2>1. FlagsOK'
    BY <1>7 DEF RendererClosed, TypeOK, FlagsOK, cycle, scene
  <2>2. DataOK'
    BY <1>7 DEF RendererClosed, TypeOK, DataOK, cycle, render, kernel, scene
  <2> QED
    BY <2>1, <2>2
<1>8. CASE Renderer
  <2>1. FlagsOK'
    BY <1>8, Zenon DEF Renderer, Render, SendFrame, TicksClosed, RenderPanics,
                TypeOK, FlagsOK, others, cycle, scene
  <2>2. DataOK'
    <3>1. UNCHANGED <<displayed, flipping, vtSwitches, commitsFailed, contents, scanning,
                      queued, completions, session, allocated, version>>
      BY <1>8 DEF Renderer, Render, SendFrame, TicksClosed, RenderPanics,
                  others, cycle, kernel, scene
    <3>2. renderer' \in {"waiting", "converting", "gone"}
      BY <1>8, Zenon DEF Renderer, Render, SendFrame, TicksClosed, RenderPanics
    <3>3. ticks' \in Nat
      BY <1>8 DEF Renderer, Render, SendFrame, TicksClosed, RenderPanics, TypeOK, DataOK
    <3>4. drawn' \in Frame
      BY <1>8 DEF Renderer, Render, SendFrame, TicksClosed, RenderPanics, Frame,
                  TypeOK, DataOK
    <3>5. frames' \in Seq(Frame)
      <4>1. frames' = frames \/ frames' = Append(frames, drawn)
        BY <1>8 DEF Renderer, Render, SendFrame, TicksClosed, RenderPanics
      <4> QED
        BY <4>1 DEF TypeOK, DataOK
    <3> QED
      BY <3>1, <3>2, <3>3, <3>4, <3>5 DEF TypeOK, DataOK
  <2> QED
    BY <2>1, <2>2
<1>9. CASE World
  <2>1. FlagsOK'
    BY <1>9, Zenon DEF World, SceneChanges, RaiseShutdown, Flip, VtTaken, outside,
                TypeOK, FlagsOK, cycle, pipeline, scene
  <2>2. DataOK'
    BY <1>9 DEF World, SceneChanges, RaiseShutdown, Flip, VtTaken, outside,
                TypeOK, DataOK, cycle, pipeline, render, kernel, scene
  <2> QED
    BY <2>1, <2>2
<1>10. CASE UNCHANGED vars
  <2>1. FlagsOK'
    BY <1>10 DEF vars, TypeOK, FlagsOK, cycle, pipeline, scene
  <2>2. DataOK'
    BY <1>10 DEF vars, TypeOK, DataOK, cycle, pipeline, render, kernel, scene
  <2> QED
    BY <2>1, <2>2
<1> QED
  BY <1>1, <1>2, <1>3, <1>4, <1>5, <1>6, <1>7, <1>8, <1>9, <1>10 DEF Next, Commit

(* Every variable of the commit loop keeps the type its Rust field has.      *)
THEOREM TypeCorrect == Spec => []TypeOK
<1>1. Init => TypeOK
  BY InitType
<1>2. TypeOK /\ [Next]_vars => TypeOK'
  BY NextType
<1> QED
  BY <1>1, <1>2, PTL DEF Spec

-----------------------------------------------------------------------------
(* One frame in flight.                                                      *)

Pipe == OneFrameInFlight /\ BufferIsRecycled /\ Conserved

(* The counts that InFlight adds up.                                         *)
LEMMA Counts ==
  ASSUME TypeOK
  PROVE  /\ ticks \in Nat /\ Len(frames) \in Nat /\ allocated \in Nat
         /\ \A b : One(b) \in {0, 1}
         /\ InFlight \in Nat
BY DEF TypeOK, DataOK, One, InFlight

(* Nothing of the pipeline moves.                                            *)
LEMMA PipeStutters ==
  ASSUME Pipe, UNCHANGED <<pipeline, render>>
  PROVE  Pipe'
<1>1. UNCHANGED <<awaitingFrame, spare, running, ticks, allocated, frames, renderer>>
  BY DEF pipeline, render
<1>2. UNCHANGED InFlight
  BY <1>1 DEF InFlight
<1> QED
  BY <1>1, <1>2 DEF Pipe, OneFrameInFlight, BufferIsRecycled, Conserved

(* A tick is sent only into an empty pipeline, with the one pixel buffer.    *)
LEMMA RequestFramePipe ==
  ASSUME TypeOK, Pipe, running, NEW a, NEW f, RequestFrame(a, f), UNCHANGED render
  PROVE  Pipe'
<1>1. CASE UNCHANGED pipeline
  BY <1>1, PipeStutters
<1>2. CASE ~UNCHANGED pipeline
  <2>1. ~awaitingFrame
    BY <1>2 DEF RequestFrame
  <2>2. renderer # "gone" /\ InFlight = 0 /\ One(spare) = allocated
    BY <2>1, Counts DEF Pipe, Conserved, One
  <2>3. /\ spare' = FALSE /\ awaitingFrame' = TRUE /\ running' = running
        /\ ticks' = ticks + 1
        /\ allocated' = (IF spare THEN allocated ELSE allocated + 1)
        /\ frames' = frames /\ renderer' = renderer
    BY <1>2, <2>2 DEF RequestFrame, render
  <2>4. InFlight' = 1
    BY <2>2, <2>3, Counts DEF InFlight
  <2>5. allocated' = 1
    BY <2>2, <2>3 DEF One
  <2> QED
    BY <2>2, <2>3, <2>4, <2>5 DEF Pipe, OneFrameInFlight, BufferIsRecycled, Conserved, One
<1> QED
  BY <1>1, <1>2

(* An answer empties the pipeline, and the pixel buffer becomes the spare.   *)
LEMMA AnsweredPipe ==
  ASSUME TypeOK, Pipe, Answered
  PROVE  Pipe'
<1>1. /\ running /\ running' = running /\ awaitingFrame' = FALSE /\ spare' = TRUE
      /\ UNCHANGED <<ticks, allocated, renderer>>
  BY DEF Answered
<1>2. Len(frames) > 0 /\ Len(frames') = Len(frames) - 1
  BY DEF Answered, TypeOK, DataOK
<1>3. InFlight' = InFlight - 1
  BY <1>1, <1>2, Counts DEF InFlight
<1>4. InFlight >= 1
  BY <1>2, Counts DEF InFlight
<1>5. InFlight = 1 /\ allocated = 1 /\ renderer # "gone"
  BY <1>1, <1>4, Counts DEF Pipe, OneFrameInFlight, BufferIsRecycled, Conserved, One
<1> QED
  BY <1>1, <1>3, <1>5 DEF Pipe, OneFrameInFlight, BufferIsRecycled, Conserved, One

(* A step of T-render moves the frame along, or loses it with the thread.    *)
LEMMA RendererPipe ==
  ASSUME TypeOK, Pipe, Renderer
  PROVE  Pipe'
<1>1. UNCHANGED <<awaitingFrame, spare, running, allocated>>
  BY DEF Renderer, Render, SendFrame, TicksClosed, RenderPanics, others
<1>2. CASE Render
  <2>1. InFlight' = InFlight
    BY <1>2, Counts DEF Render, InFlight, One
  <2> QED
    BY <1>1, <1>2, <2>1 DEF Render, Pipe, OneFrameInFlight, BufferIsRecycled, Conserved
<1>3. CASE SendFrame
  <2>1. CASE running
    <3>1. Len(frames') = Len(frames) + 1 /\ ticks' = ticks
      BY <1>3, <2>1 DEF SendFrame, TypeOK, DataOK
    <3>2. InFlight' = InFlight
      BY <1>3, <2>1, <3>1, Counts DEF SendFrame, InFlight, One
    <3> QED
      BY <1>1, <1>3, <2>1, <3>2
         DEF SendFrame, Pipe, OneFrameInFlight, BufferIsRecycled, Conserved
  <2>2. CASE ~running
    <3>1. InFlight' = InFlight - 1
      BY <1>3, <2>2, Counts DEF SendFrame, InFlight, One
    <3> QED
      BY <1>1, <2>2, <3>1, Counts DEF Pipe, OneFrameInFlight, BufferIsRecycled, Conserved
  <2> QED
    BY <2>1, <2>2
<1>4. CASE TicksClosed
  <2>1. InFlight' = InFlight
    BY <1>4, Counts DEF TicksClosed, InFlight, One
  <2> QED
    BY <1>1, <1>4, <2>1
       DEF TicksClosed, Pipe, OneFrameInFlight, BufferIsRecycled, Conserved
<1>5. CASE RenderPanics
  <2>1. InFlight' = InFlight - 1 /\ InFlight >= 1
    BY <1>5, Counts DEF RenderPanics, InFlight, One
  <2>2. InFlight = 1 /\ awaitingFrame
    BY <2>1, Counts DEF Pipe, OneFrameInFlight, One
  <2> QED
    BY <1>1, <1>5, <2>1, <2>2, Counts
       DEF RenderPanics, Pipe, OneFrameInFlight, BufferIsRecycled, Conserved, One
<1> QED
  BY <1>2, <1>3, <1>4, <1>5 DEF Renderer

(* The order of handlers does not matter to the pipeline.                    *)
LEMMA NextPipe == TypeOK /\ Pipe /\ [Next]_vars => Pipe'
<1> SUFFICES ASSUME TypeOK, Pipe, [Next]_vars PROVE Pipe'
  OBVIOUS
<1>1. CASE OnFrame
  <2>1. Answered
    BY <1>1 DEF OnFrame, FrameWhilePaused, FrameUnwritable, FrameSubmitted, FrameRejected
  <2> QED
    BY <2>1, AnsweredPipe
<1>2. CASE OnVblank
  <2>1. running /\ RequestFrame(active, FALSE) /\ UNCHANGED render
    BY <1>2 DEF OnVblank
  <2> QED
    BY <2>1, RequestFramePipe
<1>3. CASE OnPause
  BY <1>3, PipeStutters DEF OnPause
<1>4. CASE OnActivate
  <2>1. running /\ RequestFrame(TRUE, flipPending) /\ UNCHANGED render
    BY <1>4 DEF OnActivate, Returning
  <2> QED
    BY <2>1, RequestFramePipe
<1>5. CASE ActivateFails
  BY <1>5, PipeStutters DEF ActivateFails, Returning
<1>6. CASE LoopTurn
  <2>1. CASE shutdown
    <3>1. /\ running' = FALSE
          /\ UNCHANGED <<awaitingFrame, spare, ticks, allocated, frames, renderer>>
      BY <1>6, <2>1 DEF LoopTurn, render
    <3>2. InFlight' = InFlight
      BY <3>1 DEF InFlight
    <3> QED
      BY <3>1, <3>2 DEF Pipe, OneFrameInFlight, BufferIsRecycled, Conserved
  <2>2. CASE ~shutdown
    <3>1. running /\ RequestFrame(active, flipPending) /\ UNCHANGED render
      BY <1>6, <2>2 DEF LoopTurn
    <3> QED
      BY <3>1, RequestFramePipe
  <2> QED
    BY <2>1, <2>2
<1>7. CASE RendererClosed
  <2>1. /\ running' = FALSE
        /\ UNCHANGED <<awaitingFrame, spare, ticks, allocated, frames, renderer>>
    BY <1>7 DEF RendererClosed, render
  <2>2. InFlight' = InFlight
    BY <2>1 DEF InFlight
  <2> QED
    BY <2>1, <2>2 DEF Pipe, OneFrameInFlight, BufferIsRecycled, Conserved
<1>8. CASE Renderer
  BY <1>8, RendererPipe
<1>9. CASE World
  <2>1. UNCHANGED <<pipeline, render>>
    BY <1>9 DEF World, SceneChanges, RaiseShutdown, Flip, VtTaken, outside
  <2> QED
    BY <2>1, PipeStutters
<1>10. CASE UNCHANGED vars
  <2>1. UNCHANGED <<pipeline, render>>
    BY <1>10 DEF vars
  <2> QED
    BY <2>1, PipeStutters
<1> QED
  BY <1>1, <1>2, <1>3, <1>4, <1>5, <1>6, <1>7, <1>8, <1>9, <1>10 DEF Next, Commit

(* The primed cycle: the first tick, and its buffer, are on their way.       *)
LEMMA InitPipe == Init => Pipe
<1> SUFFICES ASSUME Init PROVE Pipe
  OBVIOUS
<1>1. Len(frames) = 0 /\ renderer = "waiting" /\ spare = FALSE /\ awaitingFrame = active
  BY DEF Init
<1>2. CASE active
  <2>1. InFlight = 1 /\ allocated = 1
    BY <1>1, <1>2 DEF Init, InFlight, One
  <2> QED
    BY <1>1, <1>2, <2>1 DEF Pipe, OneFrameInFlight, BufferIsRecycled, Conserved, One
<1>3. CASE ~active
  <2>1. InFlight = 0 /\ allocated = 0
    BY <1>1, <1>3 DEF Init, InFlight, One
  <2> QED
    BY <1>1, <1>3, <2>1 DEF Pipe, OneFrameInFlight, BufferIsRecycled, Conserved, One
<1> QED
  BY <1>2, <1>3

LEMMA PipeInvariant == Spec => [](TypeOK /\ Pipe)
<1>1. Init => TypeOK /\ Pipe
  BY InitType, InitPipe
<1>2. TypeOK /\ Pipe /\ [Next]_vars => TypeOK' /\ Pipe'
  BY NextType, NextPipe
<1> QED
  BY <1>1, <1>2, PTL DEF Spec

(* commit.rs, "exactly one frame in flight": for any number of VT switches,  *)
(* failures and watchdog turns, at most one frame is between the threads.    *)
THEOREM OneFrame == Spec => []OneFrameInFlight
<1>1. Pipe => OneFrameInFlight
  BY DEF Pipe
<1> QED
  BY <1>1, PipeInvariant, PTL

(* The pixel buffer is allocated once and travels with the one frame.        *)
THEOREM Recycled == Spec => []BufferIsRecycled
<1>1. Pipe => BufferIsRecycled
  BY DEF Pipe
<1> QED
  BY <1>1, PipeInvariant, PTL

-----------------------------------------------------------------------------
(* No frame is in the making while a flip is pending.                        *)

(* request_frame asks for one only when its caller's flip is over.           *)
LEMMA RequestFrameFlip ==
  ASSUME NEW a, NEW f, RequestFrame(a, f), awaitingFrame => ~f
  PROVE  awaitingFrame' => ~f
<1>1. CASE UNCHANGED pipeline
  BY <1>1 DEF pipeline
<1>2. CASE ~UNCHANGED pipeline
  BY <1>2 DEF RequestFrame
<1> QED
  BY <1>1, <1>2

LEMMA NextFlipping == NoFrameWhileFlipping /\ [Next]_vars => NoFrameWhileFlipping'
<1> SUFFICES ASSUME NoFrameWhileFlipping, [Next]_vars PROVE NoFrameWhileFlipping'
  OBVIOUS
<1> USE DEF NoFrameWhileFlipping
<1>1. CASE OnFrame
  BY <1>1 DEF OnFrame, FrameWhilePaused, FrameUnwritable, FrameSubmitted, FrameRejected,
              Answered
<1>2. CASE OnVblank
  BY <1>2 DEF OnVblank
<1>3. CASE OnPause
  BY <1>3 DEF OnPause
<1>4. CASE OnActivate
  BY <1>4, RequestFrameFlip DEF OnActivate, Returning
<1>5. CASE ActivateFails
  BY <1>5 DEF ActivateFails, Returning, pipeline
<1>6. CASE LoopTurn
  <2>1. flipPending' = flipPending
    BY <1>6 DEF LoopTurn, cycle
  <2>2. awaitingFrame' => ~flipPending
    BY <1>6, RequestFrameFlip DEF LoopTurn
  <2> QED
    BY <2>1, <2>2
<1>7. CASE RendererClosed
  BY <1>7 DEF RendererClosed, cycle
<1>8. CASE Renderer
  BY <1>8 DEF Renderer, Render, SendFrame, TicksClosed, RenderPanics, others, cycle
<1>9. CASE World
  BY <1>9 DEF World, SceneChanges, RaiseShutdown, Flip, VtTaken, outside, cycle, pipeline
<1>10. CASE UNCHANGED vars
  BY <1>10 DEF vars, cycle, pipeline
<1> QED
  BY <1>1, <1>2, <1>3, <1>4, <1>5, <1>6, <1>7, <1>8, <1>9, <1>10 DEF Next, Commit

(* T-commit asks for a frame only when the last submission is over.          *)
THEOREM NotWhileFlipping == Spec => []NoFrameWhileFlipping
<1>1. Init => NoFrameWhileFlipping
  BY DEF Init, NoFrameWhileFlipping
<1>2. NoFrameWhileFlipping /\ [Next]_vars => NoFrameWhileFlipping'
  BY NextFlipping
<1> QED
  BY <1>1, <1>2, PTL DEF Spec

-----------------------------------------------------------------------------
(* What T-commit believes, and the buffer it writes.                         *)

(* When an answer arrives, T-commit knows where the kernel stands.           *)
LEMMA AnswerFindsNoFlip ==
  ASSUME TypeOK, Pipe, NoFrameWhileFlipping, KernelInv, Answered
  PROVE  /\ ~flipPending
         /\ active => /\ queued = NoFlip /\ completions = 0
                      /\ scanning \in {displayed, Foreign}
<1>1. Len(frames) > 0
  BY DEF Answered, TypeOK, DataOK
<1>2. InFlight >= 1
  BY <1>1, Counts DEF InFlight
<1>3. awaitingFrame
  BY <1>2, Counts DEF Pipe, OneFrameInFlight, One
<1>4. ~flipPending
  BY <1>3 DEF NoFrameWhileFlipping
<1> QED
  BY <1>4 DEF KernelInv, TypeOK, DataOK

LEMMA NextKernel ==
  ASSUME ~LateEvents, TypeOK, Pipe, NoFrameWhileFlipping, KernelInv, [Next]_vars
  PROVE  KernelInv'
<1> USE CommitLoopAssumption
<1>1. CASE OnFrame
  <2>1. Answered
    BY <1>1 DEF OnFrame, FrameWhilePaused, FrameUnwritable, FrameSubmitted, FrameRejected
  <2>2. UNCHANGED <<active, displayed, scanning, completions, session>>
    BY <2>1 DEF Answered
  <2>3. CASE FrameSubmitted
    <3>1. /\ active /\ queued' = back /\ flipping' = back /\ flipPending' = TRUE
          /\ completions = 0 /\ back # NoFlip
      BY <2>1, <2>3, AnswerFindsNoFlip DEF FrameSubmitted, back, Buffer, TypeOK, DataOK
    <3> QED
      BY <2>2, <3>1 DEF KernelInv
  <2>4. CASE UNCHANGED <<flipping, flipPending, queued>>
    BY <2>2, <2>4 DEF KernelInv
  <2> QED
    BY <1>1, <2>3, <2>4 DEF OnFrame, FrameWhilePaused, FrameUnwritable, FrameRejected
<1>2. CASE OnVblank
  <2>1. /\ flipPending' = FALSE /\ displayed' = flipping /\ completions > 0
        /\ completions' = completions - 1
        /\ UNCHANGED <<active, flipping, scanning, queued, session>>
    BY <1>2 DEF OnVblank
  <2>2. completions' = 0 /\ queued = NoFlip
    BY <2>1 DEF KernelInv, TypeOK, DataOK
  <2> QED
    BY <2>1, <2>2 DEF KernelInv
<1>3. CASE OnPause
  BY <1>3 DEF OnPause, KernelInv
<1>4. CASE OnActivate
  <2>1. /\ session = "away" /\ scanning = Foreign /\ queued = NoFlip /\ completions = 0
        /\ session' = "here" /\ active' = TRUE
        /\ UNCHANGED <<displayed, flipping, flipPending, scanning, queued, completions>>
    BY <1>4 DEF OnActivate, Returning
  <2>2. ~flipPending
    BY <2>1 DEF KernelInv
  <2> QED
    BY <2>1, <2>2 DEF KernelInv
<1>5. CASE ActivateFails
  <2>1. /\ session = "away" /\ scanning = Foreign /\ queued = NoFlip /\ completions = 0
        /\ session' = "here"
        /\ UNCHANGED <<active, displayed, flipping, flipPending, scanning, queued, completions>>
    BY <1>5 DEF ActivateFails, Returning
  <2> QED
    BY <2>1 DEF KernelInv
<1>6. CASE Flip
  <2>1. /\ queued # NoFlip /\ scanning' = queued /\ queued' = NoFlip
        /\ completions' = completions + 1
        /\ UNCHANGED <<active, displayed, flipping, flipPending, session>>
    BY <1>6 DEF Flip, outside, cycle
  <2>2. completions' = 1
    BY <2>1 DEF KernelInv
  <2> QED
    BY <2>1, <2>2 DEF KernelInv
<1>7. CASE VtTaken
  <2>1. /\ session = "away" /\ scanning' = Foreign /\ queued' = NoFlip
        /\ UNCHANGED <<active, displayed, flipping, flipPending, completions, session>>
    BY <1>7 DEF VtTaken, outside, cycle
  <2> QED
    BY <2>1 DEF KernelInv
<1>8. CASE UNCHANGED <<active, cycle, kernel>>
  BY <1>8 DEF KernelInv, cycle, kernel
<1>9. LoopTurn \/ RendererClosed => UNCHANGED <<active, cycle, kernel>>
  BY DEF LoopTurn, RendererClosed
<1>10. Renderer => UNCHANGED <<active, cycle, kernel>>
  BY DEF Renderer, Render, SendFrame, TicksClosed, RenderPanics, others
<1>11. SceneChanges \/ RaiseShutdown => UNCHANGED <<active, cycle, kernel>>
  BY DEF SceneChanges, RaiseShutdown
<1>12. UNCHANGED vars => UNCHANGED <<active, cycle, kernel>>
  BY DEF vars
<1> QED
  BY <1>1, <1>2, <1>3, <1>4, <1>5, <1>6, <1>7, <1>8, <1>9, <1>10, <1>11, <1>12
     DEF Next, Commit, World

(* Everything known at once; what follows only reads it.                     *)
Belief == TypeOK /\ Pipe /\ NoFrameWhileFlipping /\ KernelInv

LEMMA BeliefInvariant == ASSUME ~LateEvents PROVE Spec => []Belief
<1>1. Init => Belief
  <2> SUFFICES ASSUME Init PROVE KernelInv /\ NoFrameWhileFlipping
    BY InitType, InitPipe DEF Belief
  <2> QED
    BY CommitLoopAssumption DEF Init, KernelInv, NoFrameWhileFlipping
<1>2. Belief /\ [Next]_vars => Belief'
  BY NextType, NextPipe, NextFlipping, NextKernel DEF Belief
<1> QED
  BY <1>1, <1>2, PTL DEF Spec

(* While the session is ours, flip_pending and displayed tell the truth      *)
(* about the kernel, if no completion event outlives a pause.                *)
THEOREM BeliefIsTrue == ASSUME ~LateEvents PROVE Spec => []BeliefMatchesKernel
<1>1. Belief => BeliefMatchesKernel
  BY DEF Belief, KernelInv, BeliefMatchesKernel, TypeOK, DataOK
<1> QED
  BY <1>1, BeliefInvariant, PTL

(* buffer.rs, "while the CRTC scans one out, the compositor writes the       *)
(* other": under the same condition, no step ever writes the buffer on the   *)
(* CRTC, or the one the kernel has queued for it.                            *)
THEOREM NoTearing == ASSUME ~LateEvents PROVE Spec => NeverWritesTheScannedBuffer
<1> DEFINE Safe == \A b \in Buffer : contents'[b] # contents[b] => scanning # b /\ queued # b
<1>1. Belief /\ [Next]_vars => [Safe]_vars
  <2> SUFFICES ASSUME Belief, [Next]_vars PROVE [Safe]_vars
    OBVIOUS
  <2>1. CASE OnFrame
    <3>1. Answered
      BY <2>1 DEF OnFrame, FrameWhilePaused, FrameUnwritable, FrameSubmitted, FrameRejected
    <3>2. active => queued = NoFlip /\ scanning \in {displayed, Foreign}
      BY <3>1, AnswerFindsNoFlip DEF Belief
    <3>3. \A b \in Buffer : contents'[b] # contents[b] => active /\ b = back
      BY <2>1 DEF OnFrame, FrameWhilePaused, FrameUnwritable, FrameSubmitted, FrameRejected,
                  Written, Belief, TypeOK, DataOK
    <3>4. back # displayed /\ back \in Buffer
      BY DEF back, Buffer, Belief, TypeOK, DataOK
    <3> QED
      BY <3>2, <3>3, <3>4, CommitLoopAssumption
  <2>2. CASE UNCHANGED contents
    BY <2>2
  <2>3. OnVblank \/ OnPause \/ LoopTurn \/ RendererClosed => UNCHANGED contents
    BY DEF OnVblank, OnPause, LoopTurn, RendererClosed
  <2>4. OnActivate \/ ActivateFails => UNCHANGED contents
    BY DEF OnActivate, ActivateFails, Returning
  <2>5. Renderer => UNCHANGED contents
    BY DEF Renderer, Render, SendFrame, TicksClosed, RenderPanics, others
  <2>6. World => UNCHANGED contents
    BY DEF World, SceneChanges, RaiseShutdown, Flip, VtTaken, outside
  <2>7. UNCHANGED vars => UNCHANGED contents
    BY DEF vars
  <2> QED
    BY <2>1, <2>2, <2>3, <2>4, <2>5, <2>6, <2>7 DEF Next, Commit
<1> QED
  BY <1>1, BeliefInvariant, PTL DEF Spec, NeverWritesTheScannedBuffer

-----------------------------------------------------------------------------
(* The screen that section 13 of scene_graph_v1.md promises.                 *)

(* Frames are written in the order they were drawn, so nothing in flight is  *)
(* older than anything in a buffer, and nothing queued is older than what it *)
(* replaces on the screen.                                                   *)
Ordered ==
  /\ \A b \in Buffer : contents[b] <= version
  /\ renderer = "converting" =>
       drawn <= version /\ \A b \in Buffer : contents[b] <= drawn
  /\ \A i \in 1..Len(frames) :
       frames[i] <= version /\ \A b \in Buffer : contents[b] <= frames[i]
  /\ queued # NoFlip /\ scanning # Foreign => contents[scanning] <= contents[queued]

(* on_frame: the frame it takes is the only one in flight.                   *)
LEMMA AnswerIsAlone ==
  ASSUME Belief, Answered
  PROVE  /\ Len(frames) = 1 /\ frames' = <<>> /\ renderer # "converting"
         /\ Head(frames) = frames[1] /\ frames[1] \in Nat
<1>1. frames \in Seq(Nat) /\ frames # <<>> /\ frames' = Tail(frames) /\ Len(frames) \in Nat
  BY DEF Belief, TypeOK, DataOK, Frame, Answered
<1>2. InFlight <= 1
  BY Counts DEF Belief, Pipe, OneFrameInFlight, One, TypeOK, FlagsOK
<1>3. InFlight = ticks + One(renderer = "converting") + Len(frames)
  BY DEF InFlight
<1>4. ticks \in Nat /\ One(renderer = "converting") \in {0, 1} /\ Len(frames) >= 1
  BY <1>1, Counts DEF Belief
<1>5. Len(frames) = 1 /\ One(renderer = "converting") = 0
  <2> DEFINE t == ticks  o == One(renderer = "converting")  n == Len(frames)
  <2>1. t + o + n <= 1
    BY <1>2, <1>3
  <2>2. t \in Nat /\ o \in {0, 1} /\ n \in Nat /\ n >= 1
    BY <1>1, <1>4
  <2> HIDE DEF t, o, n
  <2>3. n = 1 /\ o = 0
    BY <2>1, <2>2
  <2> QED
    BY <2>3 DEF o, n
<1>6. renderer # "converting"
  BY <1>5 DEF One
<1> QED
  BY <1>1, <1>5, <1>6

LEMMA NextOrdered ==
  ASSUME ~LateEvents, Belief, Ordered, [Next]_vars
  PROVE  Ordered'
<1> USE CommitLoopAssumption DEF Ordered
<1>0. /\ contents \in [Buffer -> Nat] /\ version \in Nat /\ drawn \in Nat
      /\ frames \in Seq(Nat) /\ displayed \in Buffer
      /\ scanning \in Buffer \cup {Foreign} /\ queued \in Buffer \cup {NoFlip}
  BY DEF Belief, TypeOK, DataOK, Frame
<1>1. CASE OnFrame
  <2>1. Answered
    BY <1>1 DEF OnFrame, FrameWhilePaused, FrameUnwritable, FrameSubmitted, FrameRejected
  <2>2. /\ Len(frames) = 1 /\ frames' = <<>> /\ renderer # "converting"
        /\ Head(frames) = frames[1] /\ frames[1] \in Nat
    BY <2>1, AnswerIsAlone
  <2>3. UNCHANGED <<renderer, drawn, version, scanning>>
    BY <2>1 DEF Answered, scene
  <2>4. active => queued = NoFlip /\ scanning \in {displayed, Foreign}
    BY <2>1, AnswerFindsNoFlip DEF Belief
  <2>5. back \in Buffer /\ back # displayed
    BY <1>0 DEF back, Buffer
  <2>6. frames[1] <= version /\ \A b \in Buffer : contents[b] <= frames[1]
    BY <2>2
  <2>7. \A b \in Buffer : contents'[b] <= version
    <3>1. \/ contents' = contents
          \/ contents' = [contents EXCEPT ![back] = 0]
          \/ contents' = [contents EXCEPT ![back] = frames[1]]
      BY <1>1, <2>2 DEF OnFrame, FrameWhilePaused, FrameUnwritable, FrameSubmitted,
                        FrameRejected, Written, NoFrame
    <3> QED
      BY <3>1, <1>0, <2>5, <2>6
  <2>8. CASE FrameSubmitted
    <3>1. /\ active /\ queued' = back /\ contents' = [contents EXCEPT ![back] = frames[1]]
      BY <2>2, <2>8 DEF FrameSubmitted, Written
    <3>2. scanning # Foreign => contents'[scanning] <= contents'[back]
      BY <3>1, <2>4, <2>5, <2>6, <1>0
    <3> QED
      BY <3>1, <3>2, <2>2, <2>3, <2>7
  <2>9. CASE UNCHANGED queued /\ (active \/ UNCHANGED contents)
    BY <2>9, <2>2, <2>3, <2>4, <2>7
  <2> QED
    BY <1>1, <2>8, <2>9 DEF OnFrame, FrameWhilePaused, FrameUnwritable, FrameRejected
<1>2. CASE Render
  <2>1. drawn' = version /\ renderer' = "converting"
        /\ UNCHANGED <<version, frames, contents, scanning, queued>>
    BY <1>2 DEF Render, others, kernel
  <2> QED
    BY <2>1, <1>0
<1>3. CASE SendFrame
  <2>1. /\ renderer = "converting" /\ renderer' # "converting"
        /\ frames' = frames \/ frames' = Append(frames, drawn)
        /\ UNCHANGED <<version, drawn, contents, scanning, queued>>
    BY <1>3 DEF SendFrame, others, kernel, scene
  <2>2. \A i \in 1..Len(frames') :
          frames'[i] = drawn \/ (i \in 1..Len(frames) /\ frames'[i] = frames[i])
    BY <2>1, <1>0
  <2> QED
    BY <2>1, <2>2
<1>4. CASE SceneChanges
  <2>1. version' = version + 1
        /\ UNCHANGED <<renderer, drawn, frames, contents, scanning, queued>>
    BY <1>4 DEF SceneChanges, render, kernel
  <2> QED
    BY <2>1, <1>0
<1>5. CASE Flip \/ VtTaken
  <2>1. queued' = NoFlip /\ UNCHANGED <<version, renderer, drawn, frames, contents>>
    BY <1>5 DEF Flip, VtTaken, outside, render, scene
  <2> QED
    BY <2>1
<1>6. CASE UNCHANGED <<version, drawn, frames, contents, scanning, queued>>
             /\ (renderer' = renderer \/ renderer' # "converting")
  BY <1>6
<1>7. OnVblank \/ OnPause \/ LoopTurn \/ RendererClosed =>
        UNCHANGED <<version, drawn, frames, contents, scanning, queued, renderer>>
  BY DEF OnVblank, OnPause, LoopTurn, RendererClosed, render, scene, kernel
<1>8. OnActivate \/ ActivateFails =>
        UNCHANGED <<version, drawn, frames, contents, scanning, queued, renderer>>
  BY DEF OnActivate, ActivateFails, Returning, render
<1>9. TicksClosed \/ RenderPanics =>
        UNCHANGED <<version, drawn, frames, contents, scanning, queued>> /\ renderer' # "converting"
  BY DEF TicksClosed, RenderPanics, others, kernel, scene
<1>10. RaiseShutdown \/ UNCHANGED vars =>
        UNCHANGED <<version, drawn, frames, contents, scanning, queued, renderer>>
  BY DEF RaiseShutdown, vars, render, scene, kernel
<1> QED
  BY <1>1, <1>2, <1>3, <1>4, <1>5, <1>6, <1>7, <1>8, <1>9, <1>10
     DEF Next, Commit, Renderer, World

(* Every step of the cycle is a step of the screen, or leaves it alone.      *)
LEMMA StepIsDisplayed ==
  ASSUME ~LateEvents, Belief, Ordered, [Next]_vars
  PROVE  [Screen!Next]_(Screen!vars)
<1> USE CommitLoopAssumption
<1>0. /\ contents \in [Buffer -> Nat] /\ version \in Nat
      /\ scanning \in Buffer \cup {Foreign} /\ queued \in Buffer \cup {NoFlip}
      /\ session \in {"here", "away"}
  BY DEF Belief, TypeOK, DataOK, Frame
<1>1. CASE Flip
  <2>1. /\ queued \in Buffer /\ scanning' = queued
        /\ UNCHANGED <<version, contents, session>>
    BY <1>1, <1>0 DEF Flip, outside, scene
  <2>2. /\ contents[queued] \in Nat /\ contents[queued] <= version
        /\ scanning # Foreign => contents[scanning] \in Nat /\ contents[scanning] <= contents[queued]
    BY <2>1, <1>0 DEF Ordered
  <2>3. contents'[scanning'] \in (IF scanning = Foreign THEN 0 ELSE contents[scanning])..version
    BY <2>1, <2>2
  <2>4. scanning' # Foreign
    BY <2>1
  <2>5. Screen!Show
    BY <2>1, <2>3, <2>4 DEF Screen!Show
  <2> QED
    BY <2>5 DEF Screen!Next
<1>2. CASE VtTaken
  <2>1. session = "away" /\ scanning' = Foreign /\ UNCHANGED <<version, session>>
    BY <1>2 DEF VtTaken, outside, scene
  <2>2. Screen!ScreenTaken
    BY <2>1 DEF Screen!ScreenTaken
  <2> QED
    BY <2>2 DEF Screen!Next
<1>3. CASE OnPause
  <2>1. session = "here" /\ session' = "away" /\ UNCHANGED <<version, scanning, contents>>
    BY <1>3 DEF OnPause, scene
  <2>2. Screen!SessionLeaves
    BY <2>1 DEF Screen!SessionLeaves
  <2> QED
    BY <2>2 DEF Screen!Next
<1>4. CASE OnActivate \/ ActivateFails
  <2>1. /\ session = "away" /\ session' = "here" /\ scanning = Foreign
        /\ UNCHANGED <<version, scanning, contents>>
    BY <1>4 DEF OnActivate, ActivateFails, Returning
  <2>2. Screen!SessionReturns
    BY <2>1 DEF Screen!SessionReturns
  <2> QED
    BY <2>2 DEF Screen!Next
<1>5. CASE SceneChanges
  <2>1. version' = version + 1 /\ UNCHANGED <<scanning, contents, session>>
    BY <1>5 DEF SceneChanges, kernel
  <2>2. Screen!SceneMovesOn
    BY <2>1 DEF Screen!SceneMovesOn
  <2> QED
    BY <2>2 DEF Screen!Next
<1>6. CASE /\ UNCHANGED <<version, session, scanning>>
           /\ scanning # Foreign => contents'[scanning] = contents[scanning]
  BY <1>6 DEF Screen!vars
<1>7. CASE OnFrame
  <2>1. Answered
    BY <1>7 DEF OnFrame, FrameWhilePaused, FrameUnwritable, FrameSubmitted, FrameRejected
  <2>2. UNCHANGED <<version, session, scanning>>
    BY <2>1 DEF Answered, scene
  <2>3. active => scanning \in {displayed, Foreign}
    BY <2>1, AnswerFindsNoFlip DEF Belief
  <2>4. \A b \in Buffer : contents'[b] # contents[b] => active /\ b = back
    BY <1>7 DEF OnFrame, FrameWhilePaused, FrameUnwritable, FrameSubmitted, FrameRejected,
                Written, Belief, TypeOK, DataOK
  <2>5. back # displayed
    BY DEF back, Buffer, Belief, TypeOK, DataOK
  <2>6. scanning # Foreign => contents'[scanning] = contents[scanning]
    BY <2>3, <2>4, <2>5, <1>0
  <2> QED
    BY <1>6, <2>2, <2>6
<1>8. CASE UNCHANGED <<version, session, scanning, contents>>
  BY <1>6, <1>8
<1>9. OnVblank \/ LoopTurn \/ RendererClosed => UNCHANGED <<version, session, scanning, contents>>
  BY DEF OnVblank, LoopTurn, RendererClosed, scene, kernel
<1>10. Renderer => UNCHANGED <<version, session, scanning, contents>>
  BY DEF Renderer, Render, SendFrame, TicksClosed, RenderPanics, others, kernel, scene
<1>11. RaiseShutdown \/ UNCHANGED vars => UNCHANGED <<version, session, scanning, contents>>
  BY DEF RaiseShutdown, vars, scene, kernel
<1> QED
  BY <1>1, <1>2, <1>3, <1>4, <1>5, <1>7, <1>8, <1>9, <1>10, <1>11
     DEF Next, Commit, World

(* The frame cycle implements Display: whatever the order of flips, failures *)
(* and VT switches, the screen shows whole frames and never goes back to an  *)
(* older one, if no completion event outlives a pause.                       *)
THEOREM CycleImplementsDisplay == ASSUME ~LateEvents PROVE Spec => ImplementsDisplay
<1>1. Init => Screen!Init /\ Ordered
  BY CommitLoopAssumption DEF Init, Screen!Init, Ordered, NoFrame, Buffer
<1>2. Belief /\ Ordered /\ [Next]_vars => Ordered' /\ [Screen!Next]_(Screen!vars)
  BY NextOrdered, StepIsDisplayed
<1> QED
  BY <1>1, <1>2, BeliefInvariant, PTL DEF Spec, ImplementsDisplay, Screen!Spec
=============================================================================
