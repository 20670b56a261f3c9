------------------------------- MODULE Region -------------------------------
(***************************************************************************)
(* The damage region of crates/core/src/scene/region.rs: a bounded list of *)
(* rectangles in i32 arithmetic, fed by the scene (damage_rect, and the    *)
(* client's rectangles in attach_content) and emptied by each snapshot,    *)
(* whose rectangles the compositor clips to the frame and repaints.        *)
(*                                                                         *)
(* `damaged` is the ground truth the list stands for: the very pixels that *)
(* were damaged, kept as a set.                                            *)
(***************************************************************************)
EXTENDS Integers, SequencesExt

CONSTANTS
  HalfRange,           \* 2^31: i32 is -HalfRange .. HalfRange - 1; small in the instances
  MAX_DAMAGE_RECTS,
  Frame,               \* the frame's rectangle
  Extents,             \* the extents of nodes
  ClientRects          \* what clients declare damaged, surface-local

VARIABLES
  rects,      \* pending_damage
  damaged     \* history: the pixels damaged since the last snapshot

vars == <<rects, damaged>>

-----------------------------------------------------------------------------
(* Rect.                                                                     *)

Rect(x, y, w, h) == [x |-> x, y |-> y, w |-> w, h |-> h]
NoRect == Rect(0, 0, 0, 0)

MinI32 == -HalfRange
MaxI32 == HalfRange - 1

Rectangles == [x : MinI32..MaxI32, y : MinI32..MaxI32, w : MinI32..MaxI32, h : MinI32..MaxI32]

(* The frame and the extents come from buffer sizes: only a client's damage  *)
(* may have a negative width or height.                                      *)
ASSUME RegionAssumption ==
  /\ HalfRange \in Nat \ {0}
  /\ MAX_DAMAGE_RECTS \in Nat \ {0}
  /\ \E w, h \in 0..MaxI32 : Frame = Rect(0, 0, w, h)
  /\ \A e \in Extents : e \in Rectangles /\ e.w >= 0 /\ e.h >= 0
  /\ \A r \in ClientRects : r \in Rectangles

Lesser(m, n) == IF m < n THEN m ELSE n
Greater(m, n) == IF m < n THEN n ELSE m

Saturated(n) == Greater(MinI32, Lesser(MaxI32, n))
Wrapped(n) == ((n - MinI32) % (MaxI32 - MinI32 + 1)) + MinI32

Right(r) == Saturated(r.x + r.w)
Bottom(r) == Saturated(r.y + r.h)
IsEmpty(r) == r.w <= 0 \/ r.h <= 0

(* The pixels of a rectangle, as every loop over one visits them.            *)
Pixels(r) == IF IsEmpty(r) THEN {} ELSE (r.x..(Right(r) - 1)) \X (r.y..(Bottom(r) - 1))

(* Mutant of translate: it moves the origin along one axis only.             *)
TranslateX(r, dx, dy) == [r EXCEPT !.x = Saturated(@ + dx)]

Translate(r, dx, dy) == [r EXCEPT !.x = Saturated(@ + dx), !.y = Saturated(@ + dy)]

(* Subtraction is not saturating: a release build wraps.                     *)
Intersect(r, s) ==
  LET x0 == Greater(r.x, s.x)
      y0 == Greater(r.y, s.y)
      x1 == Lesser(Right(r), Right(s))
      y1 == Lesser(Bottom(r), Bottom(s))
  IN  Rect(x0, y0, Greater(Wrapped(x1 - x0), 0), Greater(Wrapped(y1 - y0), 0))

(* Mutant of bounding: an empty operand is not set aside.                    *)
BoundingWithEmpty(r, s) ==
  LET x0 == Lesser(r.x, s.x)
      y0 == Lesser(r.y, s.y)
  IN  Rect(x0, y0, Wrapped(Greater(Right(r), Right(s)) - x0),
                   Wrapped(Greater(Bottom(r), Bottom(s)) - y0))

Bounding(r, s) ==
  IF IsEmpty(r) THEN s
  ELSE IF IsEmpty(s) THEN r
  ELSE LET x0 == Lesser(r.x, s.x)
           y0 == Lesser(r.y, s.y)
       IN  Rect(x0, y0, Wrapped(Greater(Right(r), Right(s)) - x0),
                        Wrapped(Greater(Bottom(r), Bottom(s)) - y0))

-----------------------------------------------------------------------------
(* Region.                                                                   *)

BoundingBox(list) ==
  LET box[i \in 0..Len(list)] == IF i = 0 THEN NoRect ELSE Bounding(box[i - 1], list[i])
  IN  box[Len(list)]

Coalesced(list) ==
  LET bbox == BoundingBox(list) IN IF IsEmpty(bbox) THEN <<>> ELSE <<bbox>>

(* Mutant of add: it coalesces the list before the rectangle is in it.       *)
AddAfterCoalescing(list, r) ==
  IF IsEmpty(r) THEN list
  ELSE IF Len(list) > MAX_DAMAGE_RECTS THEN Coalesced(list) ELSE Append(list, r)

Add(list, r) ==
  IF IsEmpty(r) THEN list
  ELSE LET longer == Append(list, r)
       IN  IF Len(longer) > MAX_DAMAGE_RECTS THEN Coalesced(longer) ELSE longer

-----------------------------------------------------------------------------
Init == rects = <<>> /\ damaged = {}

(* Scene::damage_rect: an extent that appears, goes, moves or changes.       *)
DamageRect(extent) ==
  /\ rects' = Add(rects, extent)
  /\ damaged' = damaged \cup Pixels(extent)

(* build_pixel_block clips the client's rectangle to the buffer and drops an *)
(* empty one; attach_content, at an unchanged extent, moves it to the        *)
(* surface's place on the output and confines it to the extent.  (A commit   *)
(* whose damage is all outside, or the whole buffer, damages the extent.)    *)
DamageContent(extent, r) ==
  /\ LET clipped == Intersect(r, Rect(0, 0, extent.w, extent.h))
     IN  rects' = IF IsEmpty(clipped) THEN rects
                  ELSE Add(rects, Intersect(Translate(clipped, extent.x, extent.y), extent))
  /\ damaged' = damaged \cup
       {p \in Pixels(extent) : <<p[1] - extent.x, p[2] - extent.y>> \in Pixels(r)}

(* Scene::snapshot takes the region.                                         *)
Snapshot ==
  /\ rects' = <<>>
  /\ damaged' = {}

Next ==
  \/ \E e \in Extents : DamageRect(e) \/ \E r \in ClientRects : DamageContent(e, r)
  \/ Snapshot

Spec == Init /\ [][Next]_vars

-----------------------------------------------------------------------------
(* Properties.                                                               *)

(* region.rs, the invariant of `rects`: a bounded list of i32 rectangles,    *)
(* none of which is empty.                                                   *)
TypeOK ==
  /\ Len(rects) <= MAX_DAMAGE_RECTS
  /\ \A i \in DOMAIN rects :
       /\ \A n \in Range(rects[i]) : n \in MinI32..MaxI32
       /\ ~IsEmpty(rects[i])

(* No two extents on the output are further apart than i32 can measure, and  *)
(* none reaches past its end.                                                *)
BoxesFit ==
  \A e, f \in {g \in Extents : ~IsEmpty(g)} :
    /\ f.x + f.w <= MaxI32 /\ f.x + f.w - e.x <= MaxI32
    /\ f.y + f.h <= MaxI32 /\ f.y + f.h - e.y <= MaxI32

(* What CpuCompositor::composite repaints.                                   *)
Repainted == UNION {Pixels(Intersect(r, Frame)) : r \in ToSet(rects)}

(* region.rs: coalescing is "over-approximate but [...] still correct": every *)
(* damaged pixel of the frame is repainted, however many rectangles there are *)
(* and wherever they lie.                                                    *)
NoDamageIsLost == damaged \cap Pixels(Frame) \subseteq Repainted

(* The over-approximation is bounded by the box around the damage: nothing   *)
(* outside that box is ever repainted.                                       *)
NothingBeyondTheBox ==
  \A p \in Repainted :
    \A axis \in {1, 2} :
      \E low, high \in damaged : low[axis] <= p[axis] /\ p[axis] <= high[axis]
=============================================================================
