----------------------------- MODULE SeatProofs -----------------------------
(***************************************************************************)
(* Proofs about Seat, for any clients, windows and sources: the types, and *)
(* that when a turn is over keyboard and clipboard are with the topmost    *)
(* window, and the focused client holds no offer of a source that died     *)
(* where the code looks.                                                   *)
(***************************************************************************)
EXTENDS Seat, FiniteSetTheorems, TLAPS

Highest(S) == IF S = {} THEN NoSurface ELSE CHOOSE s \in S : \A r \in S : r <= s

(* What else is of a type, and a bound on the windows that are shown, for a  *)
(* topmost one to exist.                                                     *)
Sane ==
  /\ surfaceDied \in BOOLEAN /\ unnoticed \subseteq Source
  /\ \E b \in Nat : \A s \in Shown : s <= b

(* The table stacks the windows shown by their ids.                          *)
Stacked ==
  /\ \A s \in Shown : focusMap[s].focusable /\ focusMap[s].z \in Nat
  /\ \A r, s \in Shown : r < s => focusMap[r].z < focusMap[s].z

(* The policy holds after every handler.  Smithay's keyboard is where it     *)
(* says, but while the focused window's own client is being torn down; the   *)
(* clipboard is always where the keyboard is.                                *)
Followed ==
  /\ keyboardFocus = Highest(Shown)
  /\ leaving # NoClient => phase = "teardown"
  /\ \/ keyboard = keyboardFocus
     \/ keyboard = NoSurface /\ leaving # NoClient /\ OwnerOf(keyboardFocus) = leaving
  /\ dataFocus = OwnerOf(keyboard)

(* The focused client was offered the selection; a source that is the        *)
(* selection has lived; in a turn, a surface's death asks for the refresh,   *)
(* and between turns only an unnoticed death can have hit the selection.     *)
Offered ==
  /\ dataFocus # NoClient => offered[dataFocus] = selection
  /\ selection # NoSource => source[selection] # "unborn"
  /\ phase # "idle" /\ surfaceDied => selectionNeedsRefresh
  /\ phase = "idle" /\ selection # NoSource =>
       source[selection] = "alive" \/ selection \in unnoticed

IInv == TypeOK /\ Sane /\ Stacked /\ Followed /\ Offered

-----------------------------------------------------------------------------
(* Lemmas about the policy's operators.                                      *)

(* A nonempty set of naturals with a bound has a greatest element.           *)
LEMMA Greatest ==
  ASSUME NEW S \in SUBSET Nat, S # {}, NEW b \in Nat, \A s \in S : s <= b
  PROVE  /\ Highest(S) \in S
         /\ \A r \in S : r <= Highest(S)
<1> DEFINE R == OpToRel(<, Nat)
           T == {n \in Nat : \A s \in S : s <= n}
<1>1. \A x, y \in Nat : x < y => <<x, y>> \in R
  BY DEF OpToRel
<1>2. IsWellFoundedOn(R, Nat)
  BY NatLessThanWellFounded
<1>3. T \subseteq Nat /\ b \in T
  OBVIOUS
<1> HIDE DEF R, T
<1>4. PICK n \in T : \A y \in T : ~(<<y, n>> \in R)
  BY <1>2, <1>3, WFMin
<1>5. ASSUME NEW y \in T PROVE ~(y < n)
  <2>1. <<y, n>> \notin R
    BY <1>4
  <2>2. y < n => <<y, n>> \in R
    BY <1>1, <1>3, Zenon
  <2> QED
    BY <2>1, <2>2
<1> USE DEF T
<1>6. n \in S
  <2> SUFFICES ASSUME n \notin S PROVE FALSE
    OBVIOUS
  <2>1. n \in Nat /\ \A s \in S : s < n
    OBVIOUS
  <2>2. n - 1 \in Nat /\ n - 1 < n
    <3>1. PICK s \in S : s < n /\ s \in Nat
      BY <2>1
    <3> QED
      BY <2>1, <3>1
  <2>3. n - 1 \in T
    BY <2>1, <2>2
  <2> QED
    BY <2>2, <2>3, <1>5
<1>7. \E s \in S : \A r \in S : r <= s
  BY <1>6
<1> QED
  BY <1>7 DEF Highest

(* Topmost answers the window with the highest id, if the table stacks by id.*)
LEMMA TopmostIsHighest ==
  ASSUME NEW table, NEW S \in SUBSET Surface, DOMAIN table = S,
         NEW b \in Nat, \A s \in S : s <= b,
         \A s \in S : table[s].focusable /\ table[s].z \in Nat,
         \A r, s \in S : r < s => table[r].z < table[s].z
  PROVE  Table!Topmost(table) = Highest(S)
<1>1. {id \in DOMAIN table : table[id].focusable} = S
  OBVIOUS
<1>2. CASE S = {}
  BY <1>1, <1>2 DEF Table!Topmost, Table!Uppermost, Highest
<1>3. CASE S # {}
  <2> DEFINE h == Highest(S)
             Above(id) == \A x \in S \ {id} :
                             \/ table[x].z < table[id].z
                             \/ table[x].z = table[id].z /\ x < id
  <2>1. S \subseteq Nat
    BY SeatAssumption
  <2>2. h \in S /\ \A r \in S : r <= h
    BY <1>3, <2>1, Greatest
  <2> HIDE DEF h
  <2>3. Above(h)
    BY <2>1, <2>2
  <2>4. \A id \in S : Above(id) => id = h
    BY <2>1, <2>2
  <2>5. Table!Topmost(table) = CHOOSE id \in S : Above(id)
    BY <1>1, <1>3 DEF Table!Topmost, Table!Uppermost
  <2> HIDE DEF Above
  <2>6. (CHOOSE id \in S : Above(id)) = h
    BY <2>2, <2>3, <2>4
  <2> QED
    BY <2>5, <2>6 DEF h
<1> QED
  BY <1>2, <1>3

LEMMA Owners ==
  /\ \A x \in Surface \cup Source : OwnerOf(x) = Owner[x] /\ Owner[x] \in Client
  /\ OwnerOf(NoSurface) = NoClient /\ OwnerOf(NoSource) = NoClient
  /\ \A x \in Surface \cup Source : OwnerOf(x) # NoClient
BY SeatAssumption DEF OwnerOf

(* What is sent is never a corpse, and its receiver knows it.                *)
LEMMA Sent ==
  ASSUME TypeOK, NEW to \in Client \cup {NoClient}, NEW sel \in Source \cup {NoSource},
         Send(to, sel)
  PROVE  /\ dataFocus' = to
         /\ selection' \in {sel, NoSource}
         /\ selection' # NoSource => source[selection'] # "dead"
         /\ offered' \in [Client -> Source \cup {NoSource}]
         /\ to # NoClient => offered'[to] = selection'
<1> DEFINE live == IF sel # NoSource /\ source[sel] = "dead" THEN NoSource ELSE sel
<1>1. /\ selection' = live /\ dataFocus' = to
      /\ offered' = [c \in Client |-> IF c = to THEN live ELSE offered[c]]
  BY DEF Send
<1>2. live \in {sel, NoSource} /\ (live # NoSource => source[live] # "dead")
  OBVIOUS
<1> HIDE DEF live
<1> QED
  BY <1>1, <1>2 DEF TypeOK

(* One application of the focus policy to a table that stacks by ids.        *)
LEMMA Refocused ==
  ASSUME IInv, NEW table, NEW S \in SUBSET Surface, DOMAIN table = S,
         NEW b \in Nat, \A s \in S : s <= b,
         \A s \in S : table[s].focusable /\ table[s].z \in Nat,
         \A r, s \in S : r < s => table[r].z < table[s].z,
         RefocusKeyboard(table), leaving' = leaving
  PROVE  /\ focusMap' = table
         /\ keyboardFocus' = Highest(S)
         /\ \/ keyboard' = keyboardFocus'
            \/ keyboard' = NoSurface /\ leaving # NoClient /\ OwnerOf(keyboardFocus') = leaving
         /\ dataFocus' = OwnerOf(keyboard')
         /\ dataFocus' # NoClient => offered'[dataFocus'] = selection'
         /\ selection' \in {selection, NoSource}
         /\ {keyboardFocus', keyboard'} \subseteq Surface \cup {NoSurface}
         /\ dataFocus' \in Client \cup {NoClient}
         /\ offered' \in [Client -> Source \cup {NoSource}]
<1>1. Table!Topmost(table) = Highest(S)
  BY TopmostIsHighest
<1>2. Highest(S) \in Surface \cup {NoSurface}
  BY Greatest, SeatAssumption DEF Highest
<1>3. CASE Highest(S) = keyboardFocus
  <2>1. /\ focusMap' = table
        /\ UNCHANGED <<keyboardFocus, keyboard, dataFocus, selection, offered>>
    BY <1>1, <1>3 DEF RefocusKeyboard, clipboard
  <2> QED
    BY <1>3, <2>1 DEF IInv, Followed, Offered, TypeOK
<1>4. CASE Highest(S) # keyboardFocus
  <2>1. PICK s \in SurfaceFor(Highest(S)) :
          /\ focusMap' = table /\ keyboardFocus' = Highest(S) /\ keyboard' = s
          /\ SetDataDeviceFocus(OwnerOf(s))
    BY <1>1, <1>4 DEF RefocusKeyboard
  <2>2. \/ s = Highest(S)
        \/ s = NoSurface /\ leaving # NoClient /\ OwnerOf(Highest(S)) = leaving
    BY <1>2, Owners DEF SurfaceFor
  <2>3. s \in Surface \cup {NoSurface} /\ OwnerOf(s) \in Client \cup {NoClient}
    BY <1>2, <2>2, Owners
  <2>4. CASE OwnerOf(s) = dataFocus
    <3>1. UNCHANGED <<dataFocus, selection, offered>>
      BY <2>1, <2>4 DEF SetDataDeviceFocus, clipboard
    <3> QED
      BY <1>2, <2>1, <2>2, <2>3, <2>4, <3>1 DEF IInv, Offered, TypeOK
  <2>5. CASE OwnerOf(s) # dataFocus
    <3>1. Send(OwnerOf(s), selection)
      BY <2>1, <2>5 DEF SetDataDeviceFocus
    <3>2. /\ dataFocus' = OwnerOf(s)
          /\ selection' \in {selection, NoSource}
          /\ offered' \in [Client -> Source \cup {NoSource}]
          /\ OwnerOf(s) # NoClient => offered'[OwnerOf(s)] = selection'
      BY <2>3, <3>1, Sent DEF IInv, TypeOK
    <3> QED
      BY <1>2, <2>1, <2>2, <2>3, <3>2
  <2> QED
    BY <2>4, <2>5
<1> QED
  BY <1>3, <1>4

-----------------------------------------------------------------------------
(* A handler that applies the policy: what it leaves alone, and the windows  *)
(* that are shown after it.                                                  *)
LEMMA HandlerRefocuses ==
  ASSUME IInv, NEW table, NEW w \in [Surface -> {"unborn", "hidden", "shown", "dead"}],
         window' = w, DOMAIN table = Shown',
         NEW b \in Nat, \A s \in Shown' : s <= b,
         \A s \in Shown' : table[s].focusable /\ table[s].z \in Nat,
         \A r, s \in Shown' : r < s => table[r].z < table[s].z,
         RefocusKeyboard(table), phase # "idle",
         UNCHANGED <<phase, turn, leaving, gone, source, unnoticed>>,
         selectionNeedsRefresh' \in BOOLEAN, surfaceDied' \in BOOLEAN,
         surfaceDied' => selectionNeedsRefresh'
  PROVE  IInv'
<1>1. Shown' \in SUBSET Surface
  BY DEF Shown
<1>2. /\ focusMap' = table
      /\ keyboardFocus' = Highest(Shown')
      /\ \/ keyboard' = keyboardFocus'
         \/ keyboard' = NoSurface /\ leaving # NoClient /\ OwnerOf(keyboardFocus') = leaving
      /\ dataFocus' = OwnerOf(keyboard')
      /\ dataFocus' # NoClient => offered'[dataFocus'] = selection'
      /\ selection' \in {selection, NoSource}
      /\ {keyboardFocus', keyboard'} \subseteq Surface \cup {NoSurface}
      /\ dataFocus' \in Client \cup {NoClient}
      /\ offered' \in [Client -> Source \cup {NoSource}]
  BY <1>1, Refocused
<1>3. TypeOK'
  BY <1>2 DEF IInv, TypeOK
<1>4. Sane'
  BY DEF IInv, Sane
<1>5. Stacked'
  BY <1>2 DEF Stacked
<1>6. Followed'
  BY <1>2 DEF IInv, Followed, Highest, OwnerOf
<1>7. Offered'
  BY <1>2 DEF IInv, Offered
<1> QED
  BY <1>3, <1>4, <1>5, <1>6, <1>7 DEF IInv

(* A window that goes leaves the others stacked as they were.                *)
LEMMA UnmapRefocuses ==
  ASSUME IInv, NEW s \in Surface, NEW to \in {"hidden", "dead"},
         window' = [window EXCEPT ![s] = to],
         RefocusKeyboard(Table!Unmap(focusMap, s)), phase # "idle",
         UNCHANGED <<phase, turn, leaving, gone, source, unnoticed>>,
         selectionNeedsRefresh' \in BOOLEAN, surfaceDied' \in BOOLEAN,
         surfaceDied' => selectionNeedsRefresh'
  PROVE  IInv'
<1> DEFINE table == Table!Unmap(focusMap, s)
<1>1. window' \in [Surface -> {"unborn", "hidden", "shown", "dead"}]
  BY DEF IInv, TypeOK
<1>2. Shown' = Shown \ {s}
  BY DEF IInv, TypeOK, Shown
<1>3. table = [x \in Shown \ {s} |-> focusMap[x]]
  BY DEF IInv, TypeOK, Table!Unmap
<1>4. PICK b \in Nat : \A x \in Shown : x <= b
  BY DEF IInv, Sane
<1>5. /\ DOMAIN table = Shown'
      /\ \A x \in Shown' : table[x].focusable /\ table[x].z \in Nat
      /\ \A x, y \in Shown' : x < y => table[x].z < table[y].z
  BY <1>2, <1>3 DEF IInv, Stacked
<1> HIDE DEF table
<1>6. RefocusKeyboard(table)
  BY DEF table
<1> QED
  BY <1>1, <1>2, <1>4, <1>5, <1>6, HandlerRefocuses

(* A commit that maps a window rebuilds the table: the place of a window is  *)
(* how many are below it.                                                    *)
LEMMA MapKeeps ==
  ASSUME IInv, NEW s \in Surface, Map(s)
  PROVE  IInv'
<1> DEFINE below(x) == {r \in Shown \cup {s} : r < x}
           table == Routing(Shown \cup {s})
<1>1. /\ window' = [window EXCEPT ![s] = "shown"] /\ phase # "idle"
      /\ RefocusKeyboard(table)
      /\ UNCHANGED <<phase, turn, leaving, gone, source, unnoticed, surfaceDied,
                     selectionNeedsRefresh>>
  BY DEF Map, Requesting, dispatch, history
<1>2. window' \in [Surface -> {"unborn", "hidden", "shown", "dead"}]
  BY <1>1 DEF IInv, TypeOK
<1>3. Shown' = Shown \cup {s} /\ Shown \cup {s} \subseteq Nat
  <2>1. /\ window' = [window EXCEPT ![s] = "shown"]
        /\ window \in [Surface -> {"unborn", "hidden", "shown", "dead"}]
    BY <1>1 DEF IInv, TypeOK
  <2>2. Shown' = Shown \cup {s}
    BY <2>1 DEF Shown
  <2> QED
    BY <2>2, SeatAssumption DEF Shown
<1>4. PICK c \in Nat : \A x \in Shown : x <= c
  BY DEF IInv, Sane
<1>5. PICK b \in Nat : \A x \in Shown \cup {s} : x <= b
  <2>1. s \in Nat /\ (s <= c \/ c <= s)
    BY <1>3
  <2> QED
    BY <1>3, <1>4, <2>1
<1>6. \A x \in Shown \cup {s} : IsFiniteSet(below(x)) /\ Cardinality(below(x)) \in Nat
  <2> SUFFICES ASSUME NEW x \in Shown \cup {s}
               PROVE  IsFiniteSet(below(x)) /\ Cardinality(below(x)) \in Nat
    OBVIOUS
  <2>1. below(x) \in SUBSET Nat /\ \A r \in below(x) : r <= b
    BY <1>3, <1>5
  <2>2. IsFiniteSet(below(x))
    BY <2>1, FS_BoundedSetOfNaturals
  <2> QED
    BY <2>2, FS_CardinalityType
<1>7. \A x, y \in Shown \cup {s} : x < y => Cardinality(below(x)) < Cardinality(below(y))
  <2> SUFFICES ASSUME NEW x \in Shown \cup {s}, NEW y \in Shown \cup {s}, x < y
               PROVE  Cardinality(below(x)) < Cardinality(below(y))
    OBVIOUS
  <2>1. below(x) \in SUBSET below(y) /\ x \in below(y) /\ x \notin below(x)
    BY <1>3
  <2>2. Cardinality(below(x)) <= Cardinality(below(y)) /\ Cardinality(below(y)) # Cardinality(below(x))
    BY <1>6, <2>1, FS_Subset
  <2> QED
    BY <1>6, <2>2
<1>8. table = [x \in Shown \cup {s} |-> Table!Entry({}, Cardinality(below(x)), TRUE)]
  BY DEF Routing
<1> HIDE DEF below, table
<1>9. /\ DOMAIN table = Shown'
      /\ \A x \in Shown' : table[x].focusable /\ table[x].z = Cardinality(below(x))
  BY <1>3, <1>8 DEF Table!Entry
<1>10. /\ \A x \in Shown' : table[x].z \in Nat
       /\ \A x, y \in Shown' : x < y => table[x].z < table[y].z
  BY <1>3, <1>6, <1>7, <1>9
<1>11. /\ selectionNeedsRefresh' \in BOOLEAN /\ surfaceDied' \in BOOLEAN
       /\ surfaceDied' => selectionNeedsRefresh'
  BY <1>1 DEF IInv, TypeOK, Sane, Offered
<1> QED
  BY <1>1, <1>2, <1>3, <1>5, <1>9, <1>10, <1>11, HandlerRefocuses

(* The end of a turn: nobody is being torn down, so the keyboard is where    *)
(* the policy says, and a surface that died has the selection sent again.    *)
LEMMA EndDispatchKeeps ==
  ASSUME IInv, EndDispatch
  PROVE  IInv'
<1>1. /\ phase # "idle" /\ leaving = NoClient /\ phase' = "idle" /\ turn' = NoClient
      /\ selectionNeedsRefresh' = FALSE
      /\ unnoticed' = IF surfaceDied THEN {} ELSE unnoticed \cup {x \in Source : source[x] = "dead"}
      /\ UNCHANGED <<leaving, gone, window, source, focusMap, keyboardFocus, keyboard, surfaceDied>>
      /\ RefreshSelection
  BY DEF EndDispatch, focus
<1>2. keyboard = keyboardFocus /\ dataFocus = OwnerOf(keyboardFocus)
  BY <1>1 DEF IInv, Followed
<1>3. /\ dataFocus' = OwnerOf(keyboardFocus)
      /\ selection' \in {selection, NoSource}
      /\ offered' \in [Client -> Source \cup {NoSource}]
      /\ dataFocus' # NoClient => offered'[dataFocus'] = selection'
      /\ selection' # NoSource => source[selection'] # "dead" \/ ~surfaceDied
  <2>1. CASE selectionNeedsRefresh
    <3>1. Send(OwnerOf(keyboardFocus), selection)
      BY <1>1, <2>1 DEF RefreshSelection
    <3>2. OwnerOf(keyboardFocus) \in Client \cup {NoClient} /\ selection \in Source \cup {NoSource}
      BY Owners DEF IInv, TypeOK
    <3> QED
      BY <3>1, <3>2, Sent DEF IInv
  <2>2. CASE ~selectionNeedsRefresh
    <3>1. UNCHANGED <<dataFocus, selection, offered>> /\ ~surfaceDied
      BY <1>1, <2>2 DEF RefreshSelection, clipboard, IInv, Offered
    <3> QED
      BY <1>2, <3>1 DEF IInv, TypeOK, Offered
  <2> QED
    BY <2>1, <2>2
<1>4. Shown' = Shown
  BY <1>1 DEF Shown
<1>5. TypeOK'
  BY <1>1, <1>3, <1>4, Owners DEF IInv, TypeOK
<1>6. Sane' /\ Stacked'
  BY <1>1, <1>4 DEF IInv, Sane, Stacked
<1>7. Followed'
  <2>1. dataFocus' = OwnerOf(keyboard) /\ keyboard' = keyboard /\ keyboardFocus' = keyboardFocus
        /\ leaving' = NoClient
    BY <1>1, <1>2, <1>3
  <2> QED
    BY <1>2, <1>4, <2>1 DEF IInv, Followed, OwnerOf
<1>8. Offered'
  <2>1. selection' # NoSource => selection' = selection /\ selection \in Source
    BY <1>3 DEF IInv, TypeOK
  <2>2. selection' # NoSource => source[selection'] \in {"alive", "dead"}
    BY <2>1 DEF IInv, TypeOK, Offered
  <2>3. selection' # NoSource => source[selection'] = "alive" \/ selection' \in unnoticed'
    BY <1>1, <1>3, <2>1, <2>2
  <2> QED
    BY <1>1, <1>3, <2>2, <2>3 DEF Offered
<1> QED
  BY <1>5, <1>6, <1>7, <1>8 DEF IInv

(* A client's teardown ends with none of its windows shown: it had the       *)
(* focus no longer, and the keyboard is where the policy says.               *)
LEMMA TornDownKeeps ==
  ASSUME IInv, TornDown
  PROVE  IInv'
<1>1. /\ leaving # NoClient /\ leaving' = NoClient /\ gone' = gone \cup {leaving}
      /\ \A s \in Surface : Owner[s] = leaving => window[s] \in {"unborn", "dead"}
      /\ window' = [s \in Surface |-> IF Owner[s] = leaving THEN "dead" ELSE window[s]]
      /\ UNCHANGED <<phase, turn, source, focusMap, keyboardFocus, keyboard, dataFocus,
                     selection, offered, selectionNeedsRefresh, surfaceDied, unnoticed>>
  BY DEF TornDown, focus, clipboard, history
<1>2. Shown' = Shown
  BY <1>1 DEF Shown
<1>3. keyboard = keyboardFocus
  <2>1. CASE Shown = {}
    BY <1>1, <2>1, Owners DEF IInv, Followed, Highest
  <2>2. CASE Shown # {}
    <3>1. Highest(Shown) \in Shown
      BY <2>2, SeatAssumption, Greatest DEF IInv, Sane, Shown
    <3>2. OwnerOf(keyboardFocus) # leaving
      BY <1>1, <3>1, Owners DEF IInv, Followed, Shown
    <3> QED
      BY <3>2 DEF IInv, Followed
  <2> QED
    BY <2>1, <2>2
<1>4. TypeOK'
  BY <1>1, <1>2 DEF IInv, TypeOK
<1>5. Sane' /\ Stacked' /\ Offered'
  BY <1>1, <1>2 DEF IInv, Sane, Stacked, Offered
<1>6. Followed'
  BY <1>1, <1>2, <1>3 DEF IInv, Followed, OwnerOf
<1> QED
  BY <1>4, <1>5, <1>6 DEF IInv

(* The handlers that neither move the focus nor end a turn.                  *)
LEMMA OthersKeep ==
  ASSUME IInv,
         \/ \E k \in Client : BeginDispatch(k) \/ Teardown(k)
         \/ \E k \in Client : \E x \in Source \cup {NoSource} : SetSelection(k, x)
         \/ \E s \in Surface : NewSurface(s)
         \/ \E x \in Source : NewSource(x) \/ SourceDestroyed(x)
         \/ UNCHANGED vars
  PROVE  IInv'
<1>1. ASSUME NEW k \in Client, BeginDispatch(k) PROVE IInv'
  <2> USE <1>1 DEF BeginDispatch, focus, clipboard, IInv
  <2>1. Shown' = Shown
    BY DEF Shown
  <2>2. TypeOK'
    BY <2>1 DEF TypeOK
  <2>3. Sane' /\ Stacked' /\ Offered'
    BY <2>1 DEF Sane, Stacked, Offered
  <2>4. Followed'
    BY <2>1 DEF Followed, OwnerOf
  <2> QED
    BY <2>2, <2>3, <2>4
<1>2. ASSUME NEW k \in Client, Teardown(k) PROVE IInv'
  <2> USE <1>2 DEF Teardown, focus, clipboard, history, IInv
  <2>1. Shown' = Shown
    BY DEF Shown
  <2>2. TypeOK'
    BY <2>1 DEF TypeOK
  <2>3. Sane' /\ Stacked' /\ Offered'
    BY <2>1 DEF Sane, Stacked, Offered
  <2>4. Followed'
    BY <2>1 DEF Followed, OwnerOf
  <2> QED
    BY <2>2, <2>3, <2>4
<1>3. ASSUME NEW k \in Client, NEW x \in Source \cup {NoSource}, SetSelection(k, x) PROVE IInv'
  <2>1. /\ phase # "idle"
        /\ x # NoSource => source[x] = "alive"
        /\ Send(dataFocus, x)
        /\ UNCHANGED <<phase, turn, leaving, gone, window, source, focusMap, keyboardFocus,
                       keyboard, selectionNeedsRefresh, surfaceDied, unnoticed>>
    BY <1>3 DEF SetSelection, Requesting, dispatch, focus, history
  <2>2. /\ dataFocus' = dataFocus /\ selection' \in {x, NoSource}
        /\ offered' \in [Client -> Source \cup {NoSource}]
        /\ dataFocus # NoClient => offered'[dataFocus] = selection'
    BY <2>1, Sent DEF IInv, TypeOK
  <2>3. Shown' = Shown
    BY <2>1 DEF Shown
  <2>4. TypeOK'
    BY <2>1, <2>2, <2>3 DEF IInv, TypeOK
  <2>5. Sane' /\ Stacked'
    BY <2>1, <2>3 DEF IInv, Sane, Stacked
  <2>7. Offered'
    <3>1. selection' # NoSource => source'[selection'] = "alive"
      BY <2>1, <2>2
    <3> QED
      BY <2>1, <2>2, <3>1 DEF IInv, Offered
  <2>6. Followed'
    BY <2>1, <2>2, <2>3 DEF IInv, Followed, OwnerOf
  <2> QED
    BY <2>4, <2>5, <2>6, <2>7 DEF IInv
<1>4. ASSUME NEW s \in Surface, NewSurface(s) PROVE IInv'
  <2> USE <1>4 DEF NewSurface, dispatch, focus, clipboard, history, IInv
  <2>1. Shown' = Shown
    BY DEF Shown, TypeOK
  <2>2. TypeOK'
    BY <2>1 DEF TypeOK
  <2>3. Sane' /\ Stacked' /\ Offered'
    BY <2>1 DEF Sane, Stacked, Offered
  <2>4. Followed'
    BY <2>1 DEF Followed, OwnerOf
  <2> QED
    BY <2>2, <2>3, <2>4
<1>5. ASSUME NEW x \in Source, NewSource(x) \/ SourceDestroyed(x) PROVE IInv'
  <2>1. /\ \/ source[x] = "unborn" /\ source' = [source EXCEPT ![x] = "alive"]
           \/ phase # "idle" /\ source' = [source EXCEPT ![x] = "dead"]
        /\ UNCHANGED <<phase, turn, leaving, gone, window, focusMap, keyboardFocus, keyboard,
                       dataFocus, selection, offered, selectionNeedsRefresh, surfaceDied,
                       unnoticed>>
    BY <1>5, SeatAssumption
       DEF NewSource, SourceDestroyed, MayDestroy, Requesting, dispatch, focus, clipboard,
           history, IInv, Followed
  <2>2. Shown' = Shown
    BY <2>1 DEF Shown
  <2>3. TypeOK'
    BY <2>1, <2>2 DEF IInv, TypeOK
  <2>4. Sane' /\ Stacked'
    BY <2>1, <2>2 DEF IInv, Sane, Stacked
  <2>5. Offered'
    BY <2>1 DEF IInv, TypeOK, Offered
  <2>6. Followed'
    BY <2>1, <2>2 DEF IInv, Followed, OwnerOf
  <2> QED
    BY <2>3, <2>4, <2>5, <2>6 DEF IInv
<1>6. CASE UNCHANGED vars
  <2> USE <1>6 DEF vars, dispatch, focus, clipboard, history, IInv
  <2>1. Shown' = Shown
    BY DEF Shown
  <2>2. TypeOK' /\ Sane' /\ Stacked' /\ Offered'
    BY <2>1 DEF TypeOK, Sane, Stacked, Offered
  <2>3. Followed'
    BY <2>1 DEF Followed, OwnerOf
  <2> QED
    BY <2>2, <2>3
<1> QED
  BY <1>1, <1>2, <1>3, <1>4, <1>5, <1>6

LEMMA NextKeeps == IInv /\ [Next]_vars => IInv'
<1> SUFFICES ASSUME IInv, [Next]_vars PROVE IInv'
  OBVIOUS
<1>1. ASSUME NEW s \in Surface, Unmap(s) PROVE IInv'
  BY <1>1, UnmapRefocuses
     DEF Unmap, Requesting, dispatch, history, IInv, TypeOK, Sane, Offered
<1>2. ASSUME NEW s \in Surface, Destroyed(s) PROVE IInv'
  <2>1. phase # "idle"
    BY <1>2, Owners DEF Destroyed, MayDestroy, Requesting, IInv, Followed
  <2> QED
    BY <1>2, <2>1, UnmapRefocuses DEF Destroyed, dispatch
<1> QED
  BY <1>1, <1>2, MapKeeps, EndDispatchKeeps, TornDownKeeps, OthersKeep DEF Next

LEMMA Invariant == Spec => []IInv
<1>1. Init => IInv
  <2> SUFFICES ASSUME Init PROVE IInv
    OBVIOUS
  <2> USE DEF Init
  <2>1. Shown = {}
    BY DEF Shown
  <2>2. TypeOK
    <3>1. DOMAIN focusMap = {}
      BY DEF Table!EmptyTable
    <3> QED
      BY <2>1, <3>1 DEF TypeOK
  <2>3. Sane /\ Stacked /\ Offered
    BY <2>1 DEF Sane, Stacked, Offered
  <2>4. Followed
    BY <2>1, Owners DEF Followed, Highest
  <2> QED
    BY <2>2, <2>3, <2>4 DEF IInv
<1> QED
  BY <1>1, NextKeeps, PTL DEF Spec

-----------------------------------------------------------------------------
(* Every variable of the dispatch thread and of Smithay's seat keeps its     *)
(* type, and the routing table has exactly the windows that are shown.       *)
THEOREM TypeCorrect == Spec => []TypeOK
<1>1. IInv => TypeOK
  BY DEF IInv
<1> QED
  BY <1>1, Invariant, PTL

(* refocus_keyboard and refresh_selection: when a turn of the dispatch       *)
(* thread is over, the keyboard and the clipboard are with the topmost       *)
(* window and its client, however many windows and clients went away in it,  *)
(* and in whatever order their objects were destroyed.                       *)
THEOREM ClipboardWithTheKeyboard == Spec => []ClipboardFollowsTheKeyboard
<1>1. IInv => ClipboardFollowsTheKeyboard
  <2> SUFFICES ASSUME IInv, phase = "idle"
               PROVE  /\ keyboardFocus = Highest(Shown)
                      /\ keyboard = keyboardFocus
                      /\ dataFocus = OwnerOf(keyboardFocus)
    BY DEF ClipboardFollowsTheKeyboard, Highest
  <2> QED
    BY DEF IInv, Followed
<1> QED
  BY <1>1, Invariant, PTL

(* refresh_selection: when a turn is over, the focused client was last       *)
(* offered the clipboard, and no source that is dead, unless it died in a    *)
(* turn in which no surface did.                                             *)
THEOREM NoOfferOfACorpse == Spec => []OfferIsAlive
<1>1. IInv => OfferIsAlive
  BY DEF IInv, Offered, OfferIsAlive
<1> QED
  BY <1>1, Invariant, PTL
=============================================================================
