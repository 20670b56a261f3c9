\* Coalescing of a region of three rectangles, in 4-bit arithmetic.
CONSTANTS
  HalfRange = 8
  MAX_DAMAGE_RECTS = 3
  Frame <- SmallFrame
  Extents <- NearExtents
  ClientRects <- SomeClientRects
SPECIFICATION Spec
INVARIANTS TypeOK NoDamageIsLost NothingBeyondTheBox
