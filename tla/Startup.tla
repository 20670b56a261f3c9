------------------------------- MODULE Startup -------------------------------
(***************************************************************************)
(* Starting and stopping on metal: main with --drm (parhelion-dev.rs), the *)
(* thread that runs backend_drm::run (lib.rs); T-commit's setup and run    *)
(* (commit.rs) up to its loop, which CommitLoop models; T-render's life;   *)
(* and the dispatch thread's control channel, through which wl_output      *)
(* learns its mode while clients already connect.                          *)
(*                                                                         *)
(* External: the machine (devices, connectors, modes), every call of the   *)
(* kernel, libseat or thread::spawn that may fail, and the clients.  A     *)
(* client is its bound wl_output and the mode that last told it.           *)
(***************************************************************************)
EXTENDS Discovery

CONSTANTS
  Machines,           \* sequences of candidate devices: [state, connectors]
  Client,
  NoDevice,
  NotBound,           \* a client without a wl_output
  Failure,            \* a diagnostic, where a mode was hoped for
  Placeholder,        \* DEFAULT_OUTPUT_SIZE at OUTPUT_REFRESH_MHZ
  OUTPUT_REFRESH_MHZ

ASSUME StartupAssumption ==
  Machines \subseteq Seq([state : {"missing", "unopenable", "unreadable", "readable"},
                          connectors : Seq(ConnectorInfos)])

VARIABLES
  machine,
  shutdown,           \* the flag signal handlers and --exit-after raise
  main,               \* what the main thread does next
  commit, renderer,   \* the two threads
  candidate,          \* the device setup looks at
  opened,             \* the devices libseat has opened for us
  driven,             \* what the CRTC is set to drive: a device, connector and mode
  ready,              \* the channel back to main: <<>>, then what setup reported
  bound,              \* the Wayland socket exists
  listening,          \* the dispatch thread accepts on it
  control,            \* the control channel
  output,             \* wl_output's current mode
  told                \* the mode each client was told last

setup    == <<candidate, opened, driven>>
dispatch == <<bound, listening, output, told>>
vars == <<machine, shutdown, main, commit, renderer, setup, ready, control, dispatch>>

Undriven == [device |-> NoDevice, connector |-> NoSelection, mode |-> NoSelection]

Connectors(d) == machine[d].connectors

-----------------------------------------------------------------------------
(* The main thread.                                                          *)

BindSocket ==
  /\ main = "binding"
  /\ main' = "spawning"
  /\ \/ bound' = TRUE /\ control' = Append(control, [kind |-> "listen"])
     \/ UNCHANGED <<bound, control>>
  /\ UNCHANGED <<machine, shutdown, commit, renderer, setup, ready, listening, output, told>>

SpawnCommit ==
  /\ main = "spawning"
  /\ \/ main' = "awaiting" /\ commit' = "session"
     \/ main' = "dropping" /\ UNCHANGED commit
  /\ UNCHANGED <<machine, shutdown, renderer, setup, ready, control, dispatch>>

(* ready_rx.recv: the mode, a diagnostic, or the sender is gone.             *)
AwaitMode ==
  /\ main = "awaiting"
  /\ \/ ready # <<>> /\ main' = IF ready[1] = Failure THEN "aborting" ELSE "telling"
     \/ ready = <<>> /\ commit = "ended" /\ main' = "aborting"
  /\ UNCHANGED <<machine, shutdown, commit, renderer, setup, ready, control, dispatch>>

(* set_output_mode only posts to the dispatch thread.                        *)
TellMode ==
  /\ main = "telling"
  /\ main' = "rendering"
  /\ control' = Append(control, [kind |-> "mode", mode |-> ready[1]])
  /\ UNCHANGED <<machine, shutdown, commit, renderer, setup, ready, dispatch>>

(* A render thread that cannot be spawned: run returns without its T-commit. *)
SpawnRender ==
  /\ main = "rendering"
  /\ \/ main' = "joining" /\ renderer' = "running"
     \/ main' = "dropping" /\ renderer' = "unspawnable"
  /\ UNCHANGED <<machine, shutdown, commit, setup, ready, control, dispatch>>

(* Mutant of Join: a failed setup is reported without waiting for T-commit.  *)
JoinUnlessAborting ==
  /\ \/ main = "aborting"
     \/ main = "joining" /\ commit = "ended" /\ renderer = "ended"
  /\ main' = "dropping"
  /\ UNCHANGED <<machine, shutdown, commit, renderer, setup, ready, control, dispatch>>

Join ==
  /\ \/ main = "aborting" /\ commit = "ended"
     \/ main = "joining" /\ commit = "ended" /\ renderer = "ended"
  /\ main' = "dropping"
  /\ UNCHANGED <<machine, shutdown, commit, renderer, setup, ready, control, dispatch>>

(* Drop for ProtocolHost: ask the dispatch thread to stop, then join it.     *)
DropHost ==
  /\ main = "dropping"
  /\ main' = "leaving"
  /\ control' = Append(control, [kind |-> "shutdown"])
  /\ UNCHANGED <<machine, shutdown, commit, renderer, setup, ready, dispatch>>

-----------------------------------------------------------------------------
(* T-commit.                                                                 *)

(* What T-commit holds goes with it: device, surface, buffers and session.   *)
EndCommit == commit' = "ended" /\ opened' = {} /\ driven' = Undriven

Report(message) == ready' = Append(ready, message)

(* setup returns an error: what it had acquired is dropped, and main is told *)
(* before the thread ends.                                                   *)
FailSetup ==
  /\ commit' = "failing"
  /\ opened' = {} /\ UNCHANGED driven
  /\ Report(Failure)

OpenSession ==
  /\ commit = "session"
  /\ \/ commit' = "probing" /\ UNCHANGED <<opened, driven, ready>>
     \/ FailSetup
  /\ UNCHANGED <<machine, shutdown, main, renderer, candidate, control, dispatch>>

(* Mutant of LookAtCandidate: a rejected device is not closed.               *)
LookAtCandidateKeepingIt ==
  /\ commit = "probing" /\ candidate \in DOMAIN machine
  /\ LET device == machine[candidate]
         opens  == device.state \notin {"missing", "unopenable"}
         fits   == device.state = "readable"
                   /\ SelectOutput(Scan(device.connectors)) # NoSelection
     IN  /\ opened' = IF opens THEN opened \cup {candidate} ELSE opened
         /\ IF fits THEN commit' = "chosen" /\ UNCHANGED candidate
                    ELSE candidate' = candidate + 1 /\ UNCHANGED commit
  /\ UNCHANGED <<machine, shutdown, main, renderer, driven, ready, control, dispatch>>

(* One turn of the candidate loop: a missing or unopenable device is passed  *)
(* over; one that cannot be scanned, or has nothing plugged in, is handed    *)
(* back to libseat; the first other one is chosen.                           *)
LookAtCandidate ==
  /\ commit = "probing" /\ candidate \in DOMAIN machine
  /\ LET device == machine[candidate]
         fits   == device.state = "readable"
                   /\ SelectOutput(Scan(device.connectors)) # NoSelection
     IN  IF fits
         THEN commit' = "chosen" /\ opened' = opened \cup {candidate} /\ UNCHANGED candidate
         ELSE candidate' = candidate + 1 /\ UNCHANGED <<commit, opened>>
  /\ UNCHANGED <<machine, shutdown, main, renderer, driven, ready, control, dispatch>>

NoCandidateLeft ==
  /\ commit = "probing" /\ candidate \notin DOMAIN machine
  /\ FailSetup
  /\ UNCHANGED <<machine, shutdown, main, renderer, candidate, control, dispatch>>

(* The mode reported to main.                                                *)
Advertised(mode) ==
  LET rate == RefreshMhz(mode.timing)
  IN  [width |-> mode.width, height |-> mode.height,
       refresh |-> IF rate > 0 THEN rate ELSE OUTPUT_REFRESH_MHZ]

(* The rest of setup.  The selected connector's index counts the connectors  *)
(* that failed the probe; the array it indexes does not hold them, so it may *)
(* point past the end (a panic: the thread ends without a report), or at     *)
(* another connector.                                                        *)
SetUp ==
  /\ commit = "chosen"
  /\ LET found == Scan(Connectors(candidate))
         sel   == SelectOutput(found)
         there == /\ sel.connector \in DOMAIN found
                  /\ sel.mode \in DOMAIN found[sel.connector].info.modes
     IN  \/ ~there /\ EndCommit /\ UNCHANGED ready
         \/ there /\ FailSetup
         \/ /\ there
            /\ commit' = "preparing"
            /\ driven' = [device |-> candidate, connector |-> found[sel.connector].index,
                          mode |-> sel.mode]
            /\ Report(Advertised(found[sel.connector].info.modes[sel.mode]))
            /\ UNCHANGED opened
  /\ UNCHANGED <<machine, shutdown, main, renderer, candidate, control, dispatch>>

CommitReturns ==
  /\ commit = "failing"
  /\ EndCommit
  /\ UNCHANGED <<machine, shutdown, main, renderer, candidate, ready, control, dispatch>>

(* Mutant of PrepareLoop: the early return reports to main a second time.    *)
PrepareLoopReporting ==
  /\ commit = "preparing"
  /\ \/ commit' = "looping" /\ UNCHANGED <<opened, driven, ready>>
     \/ EndCommit /\ Report(Failure)
  /\ UNCHANGED <<machine, shutdown, main, renderer, candidate, control, dispatch>>

(* The event loop and its three sources, or an early return.                 *)
PrepareLoop ==
  /\ commit = "preparing"
  /\ \/ commit' = "looping" /\ UNCHANGED <<opened, driven>>
     \/ EndCommit
  /\ UNCHANGED <<machine, shutdown, main, renderer, candidate, ready, control, dispatch>>

(* Mutant of LoopEnds: the loop does not notice that its channel is closed.  *)
LoopEndsOnFlag ==
  /\ commit = "looping" /\ shutdown
  /\ EndCommit
  /\ UNCHANGED <<machine, shutdown, main, renderer, candidate, ready, control, dispatch>>

(* The loop stops for the flag or for a frame channel without a sender.      *)
LoopEnds ==
  /\ commit = "looping"
  /\ shutdown \/ renderer \in {"ended", "unspawnable"}
  /\ EndCommit
  /\ UNCHANGED <<machine, shutdown, main, renderer, candidate, ready, control, dispatch>>

(* event_loop.run fails.                                                     *)
LoopFails ==
  /\ commit = "looping"
  /\ EndCommit
  /\ UNCHANGED <<machine, shutdown, main, renderer, candidate, ready, control, dispatch>>

(* Mutant of RenderEnds: T-render waits for the flag, not for its channel.   *)
RenderEndsOnFlag ==
  /\ renderer = "running" /\ shutdown
  /\ renderer' = "ended"
  /\ UNCHANGED <<machine, shutdown, main, commit, setup, ready, control, dispatch>>

(* T-render leaves its loop when T-commit, the sender of its ticks, is gone. *)
RenderEnds ==
  /\ renderer = "running" /\ commit = "ended"
  /\ renderer' = "ended"
  /\ UNCHANGED <<machine, shutdown, main, commit, setup, ready, control, dispatch>>

-----------------------------------------------------------------------------
(* The dispatch thread and its clients.                                      *)

(* Mutant of HandleControl: a new mode does not reach the bound clients.     *)
HandleControlQuietly ==
  /\ control # <<>>
  /\ control' = Tail(control)
  /\ LET message == Head(control)
     IN  \/ /\ message.kind = "listen" /\ listening' = TRUE
            /\ UNCHANGED <<bound, output, told>>
         \/ /\ message.kind = "mode" /\ output' = message.mode
            /\ UNCHANGED <<bound, listening, told>>
         \/ /\ message.kind = "shutdown" /\ bound' = FALSE /\ listening' = FALSE
            /\ UNCHANGED <<output, told>>
  /\ UNCHANGED <<machine, shutdown, main, commit, renderer, setup, ready>>

(* The control channel is a FIFO; change_current_state tells every client    *)
(* that is bound.  Shutdown ends the thread, which drops the socket.         *)
HandleControl ==
  /\ control # <<>>
  /\ control' = Tail(control)
  /\ LET message == Head(control)
     IN  \/ /\ message.kind = "listen" /\ listening' = TRUE
            /\ UNCHANGED <<bound, output, told>>
         \/ /\ message.kind = "mode" /\ output' = message.mode
            /\ told' = [c \in Client |-> IF told[c] = NotBound THEN NotBound ELSE message.mode]
            /\ UNCHANGED <<bound, listening>>
         \/ /\ message.kind = "shutdown" /\ bound' = FALSE /\ listening' = FALSE
            /\ UNCHANGED <<output, told>>
  /\ UNCHANGED <<machine, shutdown, main, commit, renderer, setup, ready>>

(* A client connects, is admitted, and binds wl_output.                      *)
BindOutput(c) ==
  /\ listening /\ told[c] = NotBound
  /\ told' = [told EXCEPT ![c] = output]
  /\ UNCHANGED <<machine, shutdown, main, commit, renderer, setup, ready, control,
                 bound, listening, output>>

RaiseShutdown ==
  /\ ~shutdown
  /\ shutdown' = TRUE
  /\ UNCHANGED <<machine, main, commit, renderer, setup, ready, control, dispatch>>

-----------------------------------------------------------------------------

Init ==
  /\ machine \in Machines
  /\ shutdown = FALSE
  /\ main = "binding" /\ commit = "unborn" /\ renderer = "unborn"
  /\ candidate = 1 /\ opened = {} /\ driven = Undriven
  /\ ready = <<>> /\ control = <<>>
  /\ bound = FALSE /\ listening = FALSE
  /\ output = Placeholder
  /\ told = [c \in Client |-> NotBound]

MainStep == BindSocket \/ SpawnCommit \/ AwaitMode \/ TellMode \/ SpawnRender \/ Join \/ DropHost

CommitStep ==
  \/ OpenSession \/ LookAtCandidate \/ NoCandidateLeft \/ SetUp \/ CommitReturns
  \/ PrepareLoop \/ LoopEnds

Next ==
  \/ MainStep \/ CommitStep \/ LoopFails \/ RenderEnds
  \/ HandleControl \/ (\E c \in Client : BindOutput(c))
  \/ RaiseShutdown

(* Every thread that can take a step of its own eventually does.             *)
Fairness ==
  /\ WF_vars(MainStep) /\ WF_vars(CommitStep)
  /\ WF_vars(RenderEnds) /\ WF_vars(HandleControl)

Spec == Init /\ [][Next]_vars
FairSpec == Spec /\ Fairness

-----------------------------------------------------------------------------
(* Properties.                                                               *)

TypeOK ==
  /\ shutdown \in BOOLEAN /\ bound \in BOOLEAN /\ listening \in BOOLEAN
  /\ main \in {"binding", "spawning", "awaiting", "telling", "rendering", "aborting",
               "joining", "dropping", "leaving"}
  /\ commit \in {"unborn", "session", "probing", "chosen", "failing", "preparing",
                 "looping", "ended"}
  /\ renderer \in {"unborn", "running", "unspawnable", "ended"}
  /\ candidate \in Nat \ {0}
  /\ opened \subseteq DOMAIN machine
  /\ Len(ready) <= 1

(* What the CRTC is set to, and the connector it is set on.                  *)
DrivenConnector == Connectors(driven.device)[driven.connector]
DrivenMode == DrivenConnector.modes[driven.mode]

AllProbe(d) == \A i \in DOMAIN Connectors(d) : Connectors(d)[i].probes

HasUsable(d) ==
  /\ machine[d].state = "readable"
  /\ \E i \in DOMAIN Connectors(d) : Connectors(d)[i].probes /\ IsUsable(Connectors(d)[i])

(* No mode of the connector is a better choice than the driven one.          *)
IsBestMode(info, chosen) ==
  LET better(m) == IF info.modes[chosen].preferred THEN m < chosen /\ info.modes[m].preferred
                   ELSE info.modes[m].preferred \/ Outranks(info.modes, m, chosen)
  IN  \A m \in DOMAIN info.modes \ {chosen} : ~better(m)

(* The first usable connector of the first device that has one is driven, at *)
(* its best mode, and every device looked at before it was handed back to    *)
(* libseat.  On a device where a connector failed the probe the wrong one    *)
(* may be driven (ProbeFailureIsNotFatal): that device is left out.          *)
FirstUsableIsDriven ==
  driven # Undriven /\ AllProbe(driven.device) =>
    /\ opened = {driven.device}
    /\ \A d \in 1..(driven.device - 1) : ~HasUsable(d)
    /\ IsUsable(DrivenConnector)
    /\ \A i \in 1..(driven.connector - 1) : ~IsUsable(Connectors(driven.device)[i])
    /\ IsBestMode(DrivenConnector, driven.mode)

(* What wl_output advertises is the placeholder or the mode that is driven:  *)
(* its size, and the millihertz nearest to the rate its timings give, or the *)
(* greatest an i32 holds below that; the default rate only if the timings    *)
(* give none that rounds to one or more.                                     *)
AdvertisedIsDriven ==
  driven # Undriven /\ output # Placeholder =>
    LET num  == Numerator(DrivenMode.timing)
        den  == Denominator(DrivenMode.timing)
        apart == 2 * (output.refresh * den - num)
    IN  /\ output.width = DrivenMode.width /\ output.height = DrivenMode.height
        /\ IF den = 0 \/ 2 * num < den THEN output.refresh = OUTPUT_REFRESH_MHZ
           ELSE /\ apart <= den
                /\ -den <= apart \/ output.refresh = MaxRate

(* The screen is given back before run returns, whichever step fails: no     *)
(* thread runs and no device is open once main drops the host.  There is one *)
(* exception: when T-render cannot be spawned run returns without joining    *)
(* T-commit, which may then be before or in its loop, the device it chose    *)
(* the only one open.                                                        *)
ScreenIsGivenBack ==
  main \in {"dropping", "leaving"} =>
    \/ /\ commit \in {"unborn", "ended"} /\ renderer # "running"
       /\ opened = {} /\ driven = Undriven
    \/ /\ renderer = "unspawnable"
       /\ commit \in {"preparing", "looping"} /\ opened = {candidate}

(* A client may bind wl_output before its mode is known, but does not keep   *)
(* the placeholder: it is told the mode, unless the session ends first.      *)
ClientsLearnTheMode ==
  \A c \in Client :
    (main = "joining" /\ told[c] # NotBound) ~> (ready = <<told[c]>> \/ main = "leaving")

(* Whichever step fails or however T-commit ends, run returns: no thread     *)
(* waits for another that waits for it; and so it does when asked to.  In    *)
(* the end no device is open: where run did not join T-commit, that thread   *)
(* ends too, the sender of its frame channel being gone with the closure     *)
(* that was not spawned (if the process lives that long).                    *)
RunReturns ==
  (shutdown \/ commit = "ended" \/ main = "dropping")
    ~> (main = "leaving" /\ ~bound /\ commit \in {"unborn", "ended"} /\ opened = {})

(* commit.rs, scan: "A connector that fails to probe is skipped rather than  *)
(* fatal": T-commit does not panic, nor drive a connector with no monitor.   *)
ProbeFailureIsNotFatal ==
  /\ commit = "ended" /\ main = "awaiting" => ready # <<>>
  /\ driven # Undriven => DrivenConnector.connected
=============================================================================
