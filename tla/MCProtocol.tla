----------------------------- MODULE MCProtocol -----------------------------
(* Instances of Protocol for TLC: the values the .cfg files give to its      *)
(* constants.  Colours: "glass" is translucent, every other one is opaque.   *)
EXTENDS Protocol

Xrgb(block) == [block |-> block, opaque |-> TRUE]
Argb(block) == [block |-> block, opaque |-> FALSE]

(* The window (surface 0) and its first subsurface map and unmap; the second  *)
(* subsurface keeps the content it has.                                      *)
TreeBuffers(s) ==
  CASE s = 0 -> {Xrgb(<<"red", "red">>), NoPixels}
    [] s = 1 -> {Xrgb(<<"blue">>), NoPixels}
    [] OTHER -> {}

(* Surface 0 changes format; surface 1 maps and unmaps, and may declare a    *)
(* geometry.  Either may be a window, or a subsurface of the other.          *)
TwoFormats(s) ==
  IF s = 0 THEN {Xrgb(<<"blue", "blue">>), Argb(<<"glass", "glass">>)}
  ELSE {Xrgb(<<"red">>), NoPixels}

NoGeometry(s) == {}
OfSurface1(s) == IF s = 1 THEN {1} ELSE {}

(* The window also changes what it shows; its subsurface, once mapped, stays. *)
TreeContents(s) ==
  CASE s = 0 -> {Argb(<<"red", "red">>), Argb(<<"glass", "blue">>), NoPixels}
    [] s = 1 -> {Xrgb(<<"blue">>)}
    [] OTHER -> {}

WholeSurface == {{}}
FirstCell == {{0}}

Cells2 == 0..1
Cells3 == 0..2
Clients == Permutations(Client)
ThreeSurfaces == 0..2
TwoSurfaces == 0..1

-----------------------------------------------------------------------------
(* A configured window, surface 0, with two subsurfaces, the second a child  *)
(* of the first or its sibling, which has content already.  The handlers     *)
(* reach it from Init by NewSurface three times, NewToplevel, a Commit of no *)
(* buffer, AckConfigure, NewSubsurface twice, then commits of 2, 1 and 0.    *)
TreeInit ==
  \E k \in Client, p \in {0, 1} :
    LET w0 == [s \in ThreeSurfaces |-> [NewWl(k) EXCEPT !.role = IF s = 0 THEN "toplevel"
                                                                ELSE "subsurface"]]
        w1 == [w0 EXCEPT ![1].parent = 0, ![1].sync = TRUE, ![0].order = <<0, 1>>]
        made == [EmptyScene EXCEPT !.nodes = [s \in ThreeSurfaces |-> FreshNode(k)]]
        tree == AttachSubsurface(AttachSubsurface(SetRole(made, 0, "toplevel"), 1, 0), 2, p)
    IN  /\ wl = [w1 EXCEPT ![2].parent = p, ![2].sync = TRUE,
                           ![p].order = OrderedChildren(w1, p) \o <<2>>]
        /\ nextSurface = 3 /\ nextToplevel = 1
        /\ pixels = (2 :> <<"glass">>)
        /\ toplevels = (0 :> [placement |-> AllocCascadePlacement(0), mapped |-> FALSE,
                              configure |-> "acked"])
        /\ focusMap = Focus!EmptyTable /\ keyboardFocus = NoSurface
        /\ gone = {}
        /\ scene = AttachContent(tree, 2, <<"glass">>, FALSE, {0})
        /\ screen = [c \in Output |-> Clear]
        /\ exposed = {}

TreeSpec == TreeInit /\ [][Next]_vars
=============================================================================
