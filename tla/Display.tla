------------------------------ MODULE Display ------------------------------
(***************************************************************************)
(* What the frame cycle on metal promises the person at the screen         *)
(* (docs/scene_graph_v1.md, section 13): the screen is ours or another     *)
(* VT's; while it is ours it shows whole frames, each of them the scene as *)
(* it once was, and it never goes back to an older one.  It is taken from  *)
(* us only while the session is in the background.  No word of buffers,    *)
(* flips, threads or failures.                                             *)
(***************************************************************************)
EXTENDS Integers

VARIABLES
  version,        \* the scene's version
  foreground,     \* the session is ours
  ours,           \* the screen shows something of ours
  screen          \* which version; 0 while it does not

vars == <<version, foreground, ours, screen>>

Init ==
  /\ version = 0 /\ foreground \in BOOLEAN
  /\ ours = FALSE /\ screen = 0

SceneMovesOn ==
  /\ version' = version + 1
  /\ UNCHANGED <<foreground, ours, screen>>

(* A frame reaches the screen: no older than the one it replaces.            *)
Show ==
  /\ ours' = TRUE
  /\ screen' \in screen..version
  /\ UNCHANGED <<version, foreground>>

SessionLeaves ==
  /\ foreground /\ foreground' = FALSE
  /\ UNCHANGED <<version, ours, screen>>

ScreenTaken ==
  /\ ~foreground
  /\ ours' = FALSE /\ screen' = 0
  /\ UNCHANGED <<version, foreground>>

SessionReturns ==
  /\ ~foreground /\ ~ours
  /\ foreground' = TRUE
  /\ UNCHANGED <<version, ours, screen>>

Next == SceneMovesOn \/ Show \/ SessionLeaves \/ ScreenTaken \/ SessionReturns

Spec == Init /\ [][Next]_vars
=============================================================================
