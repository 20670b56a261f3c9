--------------------------- MODULE FrameCallbacks ---------------------------
(***************************************************************************)
(* Frame callbacks and backpressure: the dispatch thread's readiness       *)
(* sources (crates/core/src/protocol.rs), the scene thread's mailbox       *)
(* (scene/thread.rs) and T-render's tick (render.rs), with the clients and *)
(* their sockets.                                                          *)
(*                                                                         *)
(* A request is a wl_surface.frame with the commit that carries it, on the *)
(* client's surface or on a synchronized subsurface of it.  It is named by *)
(* its number, and so are the callback and the commit; the scene of a      *)
(* client is the number of the last commit that was applied to it.         *)
(*                                                                         *)
(* The dispatch thread is one loop: while it is dispatching a client it    *)
(* handles nothing else.  The scene thread and T-render run beside it, and *)
(* T-render asks for a snapshot, composites it and presents in three steps.*)
(* Timestamps are left out.                                                *)
(***************************************************************************)
EXTENDS Integers, Sequences, FiniteSets

CONSTANTS
  Client, NoClient,
  WithSubsurface,                \* the clients that use a synchronized subsurface
  MAX_PENDING_FRAME_CALLBACKS,
  RESUME_PENDING_FRAME_CALLBACKS,
  SocketSize,                    \* requests that a socket holds
  FastWriter,                    \* may a client write while it is being dispatched?
  MaxRequests,                   \* bound of the model: requests of each client
  Leaving                        \* bound of the model: the clients that may hang up

ASSUME FrameCallbacksAssumption ==
  /\ NoClient \notin Client
  /\ WithSubsurface \subseteq Client
  /\ RESUME_PENDING_FRAME_CALLBACKS \in Nat \ {0}
  /\ MAX_PENDING_FRAME_CALLBACKS \in Nat
  /\ RESUME_PENDING_FRAME_CALLBACKS <= MAX_PENDING_FRAME_CALLBACKS
  /\ SocketSize \in Nat
  /\ FastWriter \in BOOLEAN
  /\ MaxRequests \in [Client -> Nat]
  /\ Leaving \subseteq Client

VARIABLES
  sent, closed,    \* clients: how many requests were written; the end of the stream
  onSubsurface,    \* the requests that are for the subsurface
  read,            \* how many the dispatch thread has read
  source,          \* the readiness source of each client
  dispatching,     \* whom dispatch_single_client is serving
  cached, current, \* callbacks committed: waiting for the parent's commit, or due
  fired,           \* `done` events that are not flushed yet
  answered,        \* `done` events that the client has got
  mailbox, scene,  \* the scene thread's channel, and the scene
  renderer, frame, \* what T-render is doing, and the snapshot in its hands
  presented,       \* the last frame presented
  pinged           \* the presenter's ping has not been handled

clients   == <<sent, closed, onSubsurface>>
callbacks == <<cached, current, fired, answered>>
rendering == <<renderer, frame, presented>>
vars == <<clients, read, source, dispatching, callbacks, mailbox, scene, rendering, pinged>>

Gone == 0             \* the scene of a client that is not there
NoFrame == [c \in Client |-> Gone]
Snapshot == [client |-> NoClient, commit |-> Gone]
Published(c, n) == [client |-> c, commit |-> n]

Admitted == {c \in Client : source[c] \in {"enabled", "disabled"}}

Init ==
  /\ sent = [c \in Client |-> 0] /\ closed = {}
  /\ onSubsurface = [c \in Client |-> {}]
  /\ read = [c \in Client |-> 0]
  /\ source = [c \in Client |-> "none"]
  /\ dispatching = NoClient
  /\ cached = [c \in Client |-> {}] /\ current = [c \in Client |-> {}]
  /\ fired = [c \in Client |-> {}] /\ answered = [c \in Client |-> {}]
  /\ mailbox = <<>> /\ scene = NoFrame
  /\ renderer = "idle" /\ frame = NoFrame /\ presented = NoFrame
  /\ pinged = FALSE

-----------------------------------------------------------------------------
(* Clients. *)

CanWrite(c) == /\ c \notin closed
               /\ sent[c] - read[c] < SocketSize
               /\ sent[c] < MaxRequests[c]
               /\ FastWriter \/ dispatching # c

Request(c) ==
  /\ CanWrite(c)
  /\ sent' = [sent EXCEPT ![c] = @ + 1]
  /\ \/ UNCHANGED onSubsurface
     \/ /\ c \in WithSubsurface
        /\ onSubsurface' = [onSubsurface EXCEPT ![c] = @ \cup {sent'[c]}]
  /\ UNCHANGED <<closed, read, source, dispatching, callbacks, mailbox, scene, rendering, pinged>>

Close(c) ==
  /\ c \in Leaving \ closed
  /\ closed' = closed \cup {c}
  /\ UNCHANGED <<sent, onSubsurface, read, source, dispatching, callbacks, mailbox, scene,
                 rendering, pinged>>

-----------------------------------------------------------------------------
(* The dispatch thread. *)

Backlog(callbacksOf, c) == Cardinality(callbacksOf[c])

\* Mutant: a client is throttled one callback late.
UpdateThrottlesLate(sources, callbacksOf) ==
  [c \in Client |->
     IF sources[c] = "enabled" /\ Backlog(callbacksOf, c) > MAX_PENDING_FRAME_CALLBACKS
     THEN "disabled"
     ELSE IF sources[c] = "disabled" /\ Backlog(callbacksOf, c) < RESUME_PENDING_FRAME_CALLBACKS
     THEN "enabled"
     ELSE sources[c]]

\* The sources after update_throttles.
UpdateThrottles(sources, callbacksOf) ==
  [c \in Client |->
     IF sources[c] = "enabled" /\ Backlog(callbacksOf, c) >= MAX_PENDING_FRAME_CALLBACKS
     THEN "disabled"
     ELSE IF sources[c] = "disabled" /\ Backlog(callbacksOf, c) < RESUME_PENDING_FRAME_CALLBACKS
     THEN "enabled"
     ELSE sources[c]]

AdmitClient(c) ==
  /\ dispatching = NoClient
  /\ source[c] = "none"
  /\ source' = [source EXCEPT ![c] = "enabled"]
  /\ UNCHANGED <<clients, read, dispatching, callbacks, mailbox, scene, rendering, pinged>>

\* The source of a readable socket fires.
DispatchOneClient(c) ==
  /\ dispatching = NoClient
  /\ source[c] = "enabled"
  /\ read[c] < sent[c] \/ c \in closed
  /\ dispatching' = c
  /\ UNCHANGED <<clients, read, source, callbacks, mailbox, scene, rendering, pinged>>

\* Mutant: the request after the last one.
CommitPastTheSocket(c) ==
  LET n == read[c] + 1 IN
  /\ dispatching = c
  /\ read' = [read EXCEPT ![c] = n]
  /\ current' = [current EXCEPT ![c] = @ \cup {n}]
  /\ mailbox' = Append(mailbox, Published(c, n))
  /\ UNCHANGED <<clients, source, dispatching, cached, fired, answered, scene, rendering, pinged>>

\* Mutant: a subsurface's callback is due with its own commit.
CommitDueAtOnce(c) ==
  LET n == read[c] + 1 IN
  /\ dispatching = c
  /\ read[c] < sent[c]
  /\ read' = [read EXCEPT ![c] = n]
  /\ current' = [current EXCEPT ![c] = @ \cup {n}]
  /\ IF n \in onSubsurface[c]
     THEN UNCHANGED mailbox
     ELSE mailbox' = Append(mailbox, Published(c, n))
  /\ UNCHANGED <<clients, source, dispatching, cached, fired, answered, scene, rendering, pinged>>

\* The callback of a subsurface's commit waits for the parent's; one of the
\* parent's commit is due with all that waited, and the scene is told.
Commit(c) ==
  LET n == read[c] + 1 IN
  /\ dispatching = c
  /\ read[c] < sent[c]
  /\ read' = [read EXCEPT ![c] = n]
  /\ IF n \in onSubsurface[c]
     THEN /\ cached' = [cached EXCEPT ![c] = @ \cup {n}]
          /\ UNCHANGED <<current, mailbox>>
     ELSE /\ cached' = [cached EXCEPT ![c] = {}]
          /\ current' = [current EXCEPT ![c] = @ \cup cached[c] \cup {n}]
          /\ mailbox' = Append(mailbox, Published(c, n))
  /\ UNCHANGED <<clients, source, dispatching, fired, answered, scene, rendering, pinged>>

\* Mutant: throttling only when a frame is presented.
EndDispatchUnthrottled(c) ==
  /\ dispatching = c
  /\ read[c] = sent[c] /\ c \notin closed
  /\ dispatching' = NoClient
  /\ UNCHANGED <<clients, read, source, callbacks, mailbox, scene, rendering, pinged>>

\* The socket is empty.
EndDispatch(c) ==
  /\ dispatching = c
  /\ read[c] = sent[c] /\ c \notin closed
  /\ source' = UpdateThrottles(source, current)
  /\ dispatching' = NoClient
  /\ UNCHANGED <<clients, read, callbacks, mailbox, scene, rendering, pinged>>

\* Mutant: the readiness source outlives the client.
DepartedStillPolled(c) ==
  /\ dispatching = c
  /\ read[c] = sent[c] /\ c \in closed
  /\ cached' = [cached EXCEPT ![c] = {}]
  /\ current' = [current EXCEPT ![c] = {}]
  /\ fired' = [fired EXCEPT ![c] = {}]
  /\ mailbox' = Append(mailbox, Published(c, Gone))
  /\ source' = UpdateThrottles(source, current')
  /\ dispatching' = NoClient
  /\ UNCHANGED <<clients, read, answered, scene, rendering, pinged>>

\* The dispatch ends in an error: the client's objects are gone with it.
Departed(c) ==
  /\ dispatching = c
  /\ read[c] = sent[c] /\ c \in closed
  /\ cached' = [cached EXCEPT ![c] = {}]
  /\ current' = [current EXCEPT ![c] = {}]
  /\ fired' = [fired EXCEPT ![c] = {}]
  /\ mailbox' = Append(mailbox, Published(c, Gone))
  /\ source' = UpdateThrottles([source EXCEPT ![c] = "removed"], current')
  /\ dispatching' = NoClient
  /\ UNCHANGED <<clients, read, answered, scene, rendering, pinged>>

\* Mutant: the callbacks are fired and kept.
PingReceivedWithoutTaking ==
  /\ dispatching = NoClient
  /\ pinged
  /\ pinged' = FALSE
  /\ fired' = [c \in Client |-> fired[c] \cup current[c]]
  /\ source' = UpdateThrottles(source, current)
  /\ UNCHANGED <<clients, read, dispatching, cached, current, answered, mailbox, scene, rendering>>

\* Mutant: a throttled client gets no callbacks.
PingReceivedByTheRead ==
  LET served == {c \in Client : source[c] = "enabled"} IN
  /\ dispatching = NoClient
  /\ pinged
  /\ pinged' = FALSE
  /\ fired' = [c \in Client |-> IF c \in served THEN fired[c] \cup current[c] ELSE fired[c]]
  /\ current' = [c \in Client |-> IF c \in served THEN {} ELSE current[c]]
  /\ source' = UpdateThrottles(source, current')
  /\ UNCHANGED <<clients, read, dispatching, cached, answered, mailbox, scene, rendering>>

\* Mutant: sources are enabled again only after a dispatch.
PingReceivedWithoutResuming ==
  /\ dispatching = NoClient
  /\ pinged
  /\ pinged' = FALSE
  /\ fired' = [c \in Client |-> fired[c] \cup current[c]]
  /\ current' = [c \in Client |-> {}]
  /\ UNCHANGED <<clients, read, source, dispatching, cached, answered, mailbox, scene, rendering>>

\* present: all callbacks that are due are fired, whatever the frame shows.
PingReceived ==
  /\ dispatching = NoClient
  /\ pinged
  /\ pinged' = FALSE
  /\ fired' = [c \in Client |-> fired[c] \cup current[c]]
  /\ current' = [c \in Client |-> {}]
  /\ source' = UpdateThrottles(source, current')
  /\ UNCHANGED <<clients, read, dispatching, cached, answered, mailbox, scene, rendering>>

\* Mutant: events leave with the replies to requests only.
FlushWithReplies ==
  /\ dispatching = NoClient
  /\ \E c \in Client : fired[c] # {}
  /\ \E c \in Client : read[c] < sent[c]
  /\ answered' = [c \in Client |-> answered[c] \cup fired[c]]
  /\ fired' = [c \in Client |-> {}]
  /\ UNCHANGED <<clients, read, source, dispatching, cached, current, mailbox, scene,
                 rendering, pinged>>

\* The one flush site, at the end of an iteration of the loop.
FlushClients ==
  /\ dispatching = NoClient
  /\ \E c \in Client : fired[c] # {}
  /\ answered' = [c \in Client |-> answered[c] \cup fired[c]]
  /\ fired' = [c \in Client |-> {}]
  /\ UNCHANGED <<clients, read, source, dispatching, cached, current, mailbox, scene,
                 rendering, pinged>>

-----------------------------------------------------------------------------
(* The scene thread, and T-render. *)

ApplyProtocol ==
  /\ mailbox # <<>> /\ Head(mailbox) # Snapshot
  /\ scene' = [scene EXCEPT ![Head(mailbox).client] = Head(mailbox).commit]
  /\ mailbox' = Tail(mailbox)
  /\ UNCHANGED <<clients, read, source, dispatching, callbacks, rendering, pinged>>

TakeSnapshot ==
  /\ mailbox # <<>> /\ Head(mailbox) = Snapshot
  /\ frame' = scene /\ renderer' = "compositing"
  /\ mailbox' = Tail(mailbox)
  /\ UNCHANGED <<clients, read, source, dispatching, callbacks, scene, presented, pinged>>

Tick ==
  /\ renderer = "idle"
  /\ renderer' = "waiting"
  /\ mailbox' = Append(mailbox, Snapshot)
  /\ UNCHANGED <<clients, read, source, dispatching, callbacks, scene, frame, presented, pinged>>

Present ==
  /\ renderer = "compositing"
  /\ renderer' = "idle"
  /\ presented' = frame /\ frame' = NoFrame
  /\ pinged' = TRUE
  /\ UNCHANGED <<clients, read, source, dispatching, callbacks, mailbox, scene>>

-----------------------------------------------------------------------------
Dispatch == \/ PingReceived \/ FlushClients
            \/ \E c \in Client : \/ AdmitClient(c) \/ DispatchOneClient(c) \/ Commit(c)
                                 \/ EndDispatch(c) \/ Departed(c)
SceneThread == ApplyProtocol \/ TakeSnapshot
Render == Tick \/ Present
Next == \/ Dispatch \/ SceneThread \/ Render
        \/ \E c \in Client : Request(c) \/ Close(c)

\* calloop serves every ready source, and the threads keep running; a client
\* owes nothing.
Fairness ==
  /\ WF_vars(PingReceived) /\ WF_vars(FlushClients)
  /\ \A c \in Client : /\ WF_vars(AdmitClient(c)) /\ WF_vars(DispatchOneClient(c))
                       /\ WF_vars(Commit(c)) /\ WF_vars(EndDispatch(c)) /\ WF_vars(Departed(c))
  /\ WF_vars(SceneThread) /\ WF_vars(Render)

Spec == Init /\ [][Next]_vars /\ Fairness

-----------------------------------------------------------------------------
(* Properties. *)

RequestsOK ==
  /\ sent \in [Client -> Nat] /\ read \in [Client -> Nat]
  /\ \A c \in Client : read[c] <= sent[c] /\ sent[c] <= MaxRequests[c]
  /\ closed \subseteq Client
  /\ onSubsurface \in [Client -> SUBSET Nat]

LoopOK ==
  /\ source \in [Client -> {"none", "enabled", "disabled", "removed"}]
  /\ dispatching \in Client \cup {NoClient}
  /\ \A c \in Client : dispatching = c => source[c] = "enabled"

CallbacksOK ==
  /\ cached \in [Client -> SUBSET Nat] /\ current \in [Client -> SUBSET Nat]
  /\ fired \in [Client -> SUBSET Nat] /\ answered \in [Client -> SUBSET Nat]

MailboxOK ==
  /\ mailbox \in Seq([client : Client \cup {NoClient}, commit : Nat])
  /\ \A i \in 1..Len(mailbox) : mailbox[i] = Snapshot \/ mailbox[i].client \in Client

FramesOK ==
  /\ scene \in [Client -> Nat] /\ frame \in [Client -> Nat] /\ presented \in [Client -> Nat]
  /\ renderer \in {"idle", "waiting", "compositing"}
  /\ pinged \in BOOLEAN

\* The type invariant: counters, callbacks and frames range over requests, no
\* request is read before it was written, only a client whose source is polled
\* is dispatched, and the mailbox holds commits, departures and snapshot
\* requests.
TypeOK == RequestsOK /\ LoopOK /\ CallbacksOK /\ MailboxOK /\ FramesOK

\* Between dispatches a client's socket is polled exactly while its backlog is
\* under the limit: nobody over it is read, and nobody is parked without
\* callbacks that the next frame will fire (update_throttles, and where it is
\* called from).
ParkedExactlyOverTheLimit ==
  \A c \in Admitted \ {dispatching} :
    source[c] = "enabled" <=> Backlog(current, c) < MAX_PENDING_FRAME_CALLBACKS

\* "The limit plus one socket-read burst" (section 8.5 of scene_graph_v1.md):
\* what a client's own surface keeps in the compositor, if the client cannot
\* write while it is being read.
BacklogIsBounded ==
  ~FastWriter =>
    \A c \in Client : Cardinality(current[c] \ onSubsurface[c])
                        < MAX_PENDING_FRAME_CALLBACKS + SocketSize

\* Every callback whose request was read is in one place until its client is
\* gone: none is lost, and none is fired twice (present takes the list).
EachCallbackOnce ==
  \A c \in Client :
    /\ cached[c] \cap current[c] = {} /\ cached[c] \cap fired[c] = {}
    /\ cached[c] \cap answered[c] = {} /\ current[c] \cap fired[c] = {}
    /\ current[c] \cap answered[c] = {} /\ fired[c] \cap answered[c] = {}
    /\ source[c] # "removed" =>
         cached[c] \cup current[c] \cup fired[c] \cup answered[c] = 1..read[c]

\* Once a frame that shows a commit was presented, the commit's callback waits
\* for nothing but the handling of the ping: across three threads no frame
\* leaves behind a callback of what it showed (FramePresenter::present, present).
NoFrameLeavesACallback ==
  \A c \in Client : (\E i \in current[c] : i <= presented[c]) => pinged

\* "A callback never fires before its carrying commit" (section 8.3 of
\* scene_graph_v1.md): no `done` goes out before the commit that makes its
\* request effective, the parent's for a synchronized subsurface's, was sent to
\* the scene thread.  That thread need not have applied it: present fires what
\* is due, and a frame of before the commit may be the one that answers it.
NoDoneBeforeItsCommit ==
  \A c \in Client \ closed : \A i \in fired[c] \cup answered[c] :
    \/ i <= scene[c]
    \/ \E k \in 1..Len(mailbox) : mailbox[k].client = c /\ i <= mailbox[k].commit

\* While frames are presented, nobody stays parked: what a client has written is
\* read in the end, whoever floods (I-10's fairness rider).
EveryRequestIsRead ==
  \A c \in Client : read[c] < sent[c] ~> read[c] = sent[c]

\* While frames are presented, every callback that is due is answered, of a
\* client that is throttled as well.
EveryCallbackIsAnswered ==
  \A c \in Client : current[c] \cup fired[c] # {} ~> current[c] \cup fired[c] = {}

\* A client that hangs up leaves the loop and the scene, although a throttled
\* client's hang-up cannot be noticed before its source is enabled again.
TheDepartedAreForgotten ==
  \A c \in Client : c \in closed ~> (source[c] = "removed" /\ presented[c] = Gone)
=============================================================================
