-------------------------------- MODULE Seat --------------------------------
(***************************************************************************)
(* Keyboard focus and the clipboard in crates/core/src/protocol.rs: the    *)
(* focus policy (refocus_keyboard), the clipboard that follows it, and the *)
(* one refresh at the end of dispatch_one_client that notices a clipboard  *)
(* whose owner has died (refresh_selection).                               *)
(*                                                                         *)
(* A turn is one call of dispatch_one_client: a client's requests, then    *)
(* the teardown of clients whose connection ended, whose objects go one by *)
(* one in any order, then the housekeeping.                                *)
(*                                                                         *)
(* External, as the code relies on it: Smithay's keyboard and data device. *)
(* set_data_device_focus sends the selection only when the focus changes,  *)
(* and a source is found dead only when the selection is sent.  Windows    *)
(* are toplevels without subsurfaces (Protocol models the trees).          *)
(***************************************************************************)
EXTENDS Integers, FiniteSets

CONSTANTS
  Client,
  Surface,          \* SurfaceIds, in the order they are created
  Source,           \* wl_data_sources
  Owner,            \* the client of each surface and source
  NoClient, NoSurface, NoSource

ASSUME SeatAssumption ==
  /\ Surface \subseteq Nat
  /\ Owner \in [Surface \cup Source -> Client]
  /\ NoClient \notin Client /\ {NoSurface, NoSource} \cap (Surface \cup Source) = {}

VARIABLES
  phase,                   \* "idle", or what the turn is at: "requests", "teardown"
  turn,                    \* the client being dispatched
  leaving,                 \* the client being torn down
  gone,                    \* clients that have been
  window,                  \* each surface: "unborn", "hidden", "shown" or "dead"
  source,                  \* each source: "unborn", "alive" or "dead"
  focusMap,                \* the focus routing table
  keyboardFocus,           \* keyboard_focus
  selectionNeedsRefresh,
  keyboard,                \* Smithay: the surface with keyboard focus
  dataFocus,               \* Smithay: the client with clipboard focus
  selection,               \* Smithay: the source of the clipboard
  offered,                 \* what each client's last selection event offered it
  surfaceDied,             \* history: a surface died in this turn
  unnoticed                \* history: sources that died in a turn where none did

dispatch  == <<phase, turn, leaving, gone>>
focus     == <<focusMap, keyboardFocus, keyboard>>
clipboard == <<dataFocus, selection, offered>>
history   == <<surfaceDied, unnoticed>>
vars == <<dispatch, window, source, focus, clipboard, selectionNeedsRefresh, history>>

Table == INSTANCE FocusMap

OwnerOf(x) == IF x \in Surface \cup Source THEN Owner[x] ELSE NoClient

-----------------------------------------------------------------------------
(* Smithay's data device.                                                    *)

(* The selection is sent to its focus; a dead source is dropped instead.     *)
Send(to, sel) ==
  LET live == IF sel # NoSource /\ source[sel] = "dead" THEN NoSource ELSE sel
  IN  /\ selection' = live
      /\ offered' = [c \in Client |-> IF c = to THEN live ELSE offered[c]]
      /\ dataFocus' = to

SetDataDeviceFocus(c) ==
  IF c = dataFocus THEN UNCHANGED clipboard ELSE Send(c, selection)

-----------------------------------------------------------------------------
(* The focus policy.                                                         *)

(* What wl_surface_for may answer: a surface of a client being torn down may *)
(* count as alive until its own turn to be destroyed comes.                  *)
SurfaceFor(s) ==
  IF s = NoSurface THEN {NoSurface}
  ELSE IF OwnerOf(s) = leaving THEN {s, NoSurface} ELSE {s}

(* Mutant of RefocusKeyboard: the clipboard does not follow the keyboard.    *)
RefocusKeyboardAlone(table) ==
  LET target == Table!Topmost(table)
  IN  /\ focusMap' = table
      /\ IF target = keyboardFocus THEN UNCHANGED <<keyboardFocus, keyboard, clipboard>>
         ELSE \E s \in SurfaceFor(target) :
                /\ keyboardFocus' = target
                /\ keyboard' = s
                /\ UNCHANGED clipboard

RefocusKeyboard(table) ==
  LET target == Table!Topmost(table)
  IN  /\ focusMap' = table
      /\ IF target = keyboardFocus THEN UNCHANGED <<keyboardFocus, keyboard, clipboard>>
         ELSE \E s \in SurfaceFor(target) :
                /\ keyboardFocus' = target
                /\ keyboard' = s
                /\ SetDataDeviceFocus(OwnerOf(s))

(* refresh_input_routing: every shown window, stacked by SurfaceId.          *)
Routing(shown) ==
  [s \in shown |-> Table!Entry({}, Cardinality({r \in shown : r < s}), TRUE)]

Shown == {s \in Surface : window[s] = "shown"}

-----------------------------------------------------------------------------
(* A turn.                                                                   *)

BeginDispatch(k) ==
  /\ phase = "idle" /\ k \notin gone
  /\ phase' = "requests" /\ turn' = k
  /\ surfaceDied' = FALSE
  /\ UNCHANGED <<leaving, gone, window, source, focus, clipboard, selectionNeedsRefresh,
                 unnoticed>>

Requesting(k) == phase = "requests" /\ turn = k

(* Surfaces are numbered as they are created.                                *)
NewSurface(s) ==
  /\ Requesting(Owner[s]) /\ window[s] = "unborn"
  /\ \A r \in Surface : r < s => window[r] # "unborn"
  /\ window' = [window EXCEPT ![s] = "hidden"]
  /\ UNCHANGED <<dispatch, source, focus, clipboard, selectionNeedsRefresh, history>>

(* A commit that maps a toplevel.                                            *)
Map(s) ==
  /\ Requesting(Owner[s]) /\ window[s] = "hidden"
  /\ window' = [window EXCEPT ![s] = "shown"]
  /\ RefocusKeyboard(Routing(Shown \cup {s}))
  /\ UNCHANGED <<dispatch, source, selectionNeedsRefresh, history>>

(* A null attach, or xdg_toplevel.destroy.                                   *)
Unmap(s) ==
  /\ Requesting(Owner[s]) /\ window[s] = "shown"
  /\ window' = [window EXCEPT ![s] = "hidden"]
  /\ RefocusKeyboard(Table!Unmap(focusMap, s))
  /\ UNCHANGED <<dispatch, source, selectionNeedsRefresh, history>>

(* By its client, or when the client is torn down.                           *)
MayDestroy(x) == Requesting(Owner[x]) \/ leaving = Owner[x]

(* Mutant of Destroyed: the surface's entry stays in the routing table.      *)
DestroyedKeepingRoute(s) ==
  /\ MayDestroy(s) /\ window[s] \in {"hidden", "shown"}
  /\ window' = [window EXCEPT ![s] = "dead"]
  /\ selectionNeedsRefresh' = TRUE
  /\ surfaceDied' = TRUE
  /\ UNCHANGED <<dispatch, source, focus, clipboard, unnoticed>>

Destroyed(s) ==
  /\ MayDestroy(s) /\ window[s] \in {"hidden", "shown"}
  /\ window' = [window EXCEPT ![s] = "dead"]
  /\ RefocusKeyboard(Table!Unmap(focusMap, s))
  /\ selectionNeedsRefresh' = TRUE
  /\ surfaceDied' = TRUE
  /\ UNCHANGED <<dispatch, source, unnoticed>>

NewSource(x) ==
  /\ Requesting(Owner[x]) /\ source[x] = "unborn"
  /\ source' = [source EXCEPT ![x] = "alive"]
  /\ UNCHANGED <<dispatch, window, focus, clipboard, selectionNeedsRefresh, history>>

SourceDestroyed(x) ==
  /\ MayDestroy(x) /\ source[x] = "alive"
  /\ source' = [source EXCEPT ![x] = "dead"]
  /\ UNCHANGED <<dispatch, window, focus, clipboard, selectionNeedsRefresh, history>>

(* set_selection is heeded from the client with keyboard focus only.         *)
SetSelection(k, x) ==
  /\ Requesting(k) /\ OwnerOf(keyboard) = k
  /\ x # NoSource => Owner[x] = k /\ source[x] = "alive"
  /\ Send(dataFocus, x)
  /\ UNCHANGED <<dispatch, window, source, focus, selectionNeedsRefresh, history>>

(* A connection has ended: its own dispatch saw it, or an earlier flush did. *)
Teardown(k) ==
  /\ phase \in {"requests", "teardown"} /\ leaving = NoClient /\ k \notin gone
  /\ phase' = "teardown" /\ leaving' = k
  /\ UNCHANGED <<turn, gone, window, source, focus, clipboard, selectionNeedsRefresh, history>>

TornDown ==
  /\ leaving # NoClient
  /\ \A s \in Surface : Owner[s] = leaving => window[s] \in {"unborn", "dead"}
  /\ \A x \in Source : Owner[x] = leaving => source[x] # "alive"
  /\ gone' = gone \cup {leaving} /\ leaving' = NoClient
  /\ window' = [s \in Surface |-> IF Owner[s] = leaving THEN "dead" ELSE window[s]]
  /\ UNCHANGED <<phase, turn, source, focus, clipboard, selectionNeedsRefresh, history>>

(* Mutant of RefreshSelection: the same focus is stated again, no more.      *)
RefreshSelectionLazily ==
  IF selectionNeedsRefresh
  THEN SetDataDeviceFocus(OwnerOf(keyboardFocus)) ELSE UNCHANGED clipboard

(* Clearing the focus first makes Smithay send the selection again.          *)
RefreshSelection ==
  IF selectionNeedsRefresh THEN Send(OwnerOf(keyboardFocus), selection) ELSE UNCHANGED clipboard

(* The end of dispatch_one_client.                                           *)
EndDispatch ==
  /\ phase \in {"requests", "teardown"} /\ leaving = NoClient
  /\ RefreshSelection
  /\ phase' = "idle" /\ turn' = NoClient
  /\ selectionNeedsRefresh' = FALSE
  /\ unnoticed' = IF surfaceDied THEN {} ELSE unnoticed \cup {x \in Source : source[x] = "dead"}
  /\ UNCHANGED <<leaving, gone, window, source, focus, surfaceDied>>

-----------------------------------------------------------------------------

Init ==
  /\ phase = "idle" /\ turn = NoClient /\ leaving = NoClient /\ gone = {}
  /\ window = [s \in Surface |-> "unborn"]
  /\ source = [x \in Source |-> "unborn"]
  /\ focusMap = Table!EmptyTable
  /\ keyboardFocus = NoSurface /\ keyboard = NoSurface
  /\ selectionNeedsRefresh = FALSE
  /\ dataFocus = NoClient /\ selection = NoSource
  /\ offered = [c \in Client |-> NoSource]
  /\ surfaceDied = FALSE /\ unnoticed = {}

Next ==
  \/ \E k \in Client :
       \/ BeginDispatch(k) \/ Teardown(k)
       \/ \E x \in Source \cup {NoSource} : SetSelection(k, x)
  \/ \E s \in Surface : NewSurface(s) \/ Map(s) \/ Unmap(s) \/ Destroyed(s)
  \/ \E x \in Source : NewSource(x) \/ SourceDestroyed(x)
  \/ TornDown \/ EndDispatch

Spec == Init /\ [][Next]_vars

-----------------------------------------------------------------------------
(* Properties.                                                               *)

TypeOK ==
  /\ phase \in {"idle", "requests", "teardown"}
  /\ turn \in Client \cup {NoClient} /\ leaving \in Client \cup {NoClient}
  /\ gone \subseteq Client
  /\ window \in [Surface -> {"unborn", "hidden", "shown", "dead"}]
  /\ source \in [Source -> {"unborn", "alive", "dead"}]
  /\ DOMAIN focusMap = Shown
  /\ {keyboardFocus, keyboard} \subseteq Surface \cup {NoSurface}
  /\ selectionNeedsRefresh \in BOOLEAN
  /\ dataFocus \in Client \cup {NoClient}
  /\ selection \in Source \cup {NoSource}
  /\ offered \in [Client -> Source \cup {NoSource}]

(* When a turn is over, the keyboard and the clipboard are with the topmost  *)
(* window and its client, however the windows above it went away.            *)
ClipboardFollowsTheKeyboard ==
  phase = "idle" =>
    /\ keyboardFocus = IF Shown = {} THEN NoSurface
                       ELSE CHOOSE s \in Shown : \A r \in Shown : r <= s
    /\ keyboard = keyboardFocus
    /\ dataFocus = OwnerOf(keyboardFocus)

(* When a turn is over, what the focused client was offered last is the      *)
(* clipboard, and the clipboard has a living source: but for sources that    *)
(* died in a turn in which no surface did, which nobody checks.              *)
OfferIsAlive ==
  phase = "idle" /\ dataFocus # NoClient =>
    LET offer == offered[dataFocus]
    IN  /\ offer = selection
        /\ offer # NoSource => source[offer] = "alive" \/ offer \in unnoticed

(* scene_graph_v1.md 12.2: when the clipboard's owner dies, refresh_selection *)
(* sees to it that the focused client is not "left holding an offer backed   *)
(* by a corpse".                                                             *)
NoOfferFromTheDeparted ==
  phase = "idle" /\ dataFocus # NoClient => OwnerOf(offered[dataFocus]) \notin gone
=============================================================================
