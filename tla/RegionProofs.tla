---------------------------- MODULE RegionProofs ----------------------------
(***************************************************************************)
(* Proofs about Region, for every width of the integers, every limit of    *)
(* the list, every frame and any rectangles: the types and the bound; and, *)
(* as long as no box is wider than the integers (BoxesFit), that no damage *)
(* is lost and that nothing beyond the box around the damage is repainted. *)
(***************************************************************************)
EXTENDS Region, Recursion, TLAPS

I32 == MinI32..MaxI32

LEMMA Range32 ==
  /\ HalfRange \in Nat \ {0} /\ MinI32 \in Int /\ MaxI32 \in Int
  /\ MinI32 = -MaxI32 - 1 /\ 0 \in I32 /\ MaxI32 >= 0
BY RegionAssumption DEF MinI32, MaxI32, I32

LEMMA SaturatedIs ==
  ASSUME NEW n \in Int
  PROVE  /\ Saturated(n) \in I32
         /\ Saturated(n) = IF n > MaxI32 THEN MaxI32 ELSE IF n < MinI32 THEN MinI32 ELSE n
BY Range32 DEF Saturated, Greater, Lesser, I32

LEMMA Modulo ==
  ASSUME NEW m \in Int, NEW d \in Nat \ {0}
  PROVE  m % d \in 0..(d - 1) /\ (m \in 0..(d - 1) => m % d = m)
OBVIOUS

LEMMA WrappedIs ==
  ASSUME NEW n \in Int
  PROVE  Wrapped(n) \in I32 /\ (n \in I32 => Wrapped(n) = n)
<1> DEFINE d == MaxI32 - MinI32 + 1
           m == n - MinI32
<1>1. d \in Nat \ {0} /\ m \in Int /\ d = MaxI32 - MinI32 + 1 /\ m = n - MinI32
  BY Range32
<1>2. Wrapped(n) = (m % d) + MinI32
  BY DEF Wrapped
<1> HIDE DEF d, m
<1>3. m % d \in 0..(d - 1) /\ (m \in 0..(d - 1) => m % d = m)
  BY <1>1, Modulo
<1> DEFINE k == m % d
<1> HIDE DEF k
<1>4. k \in 0..(d - 1) /\ (m \in 0..(d - 1) => k = m) /\ Wrapped(n) = k + MinI32
  BY <1>2, <1>3 DEF k
<1> QED
  BY <1>1, <1>4, Range32 DEF I32

-----------------------------------------------------------------------------
(* One axis of a rectangle: where it begins and how long it is.              *)
Span(a, m) == a..(Saturated(a + m) - 1)

(* The length of what two rectangles have in common, and of the box around.  *)
Common(a, m, b, n) ==
  Greater(Wrapped(Lesser(Saturated(a + m), Saturated(b + n)) - Greater(a, b)), 0)
Hull(a, m, b, n) == Wrapped(Greater(Saturated(a + m), Saturated(b + n)) - Lesser(a, b))

LEMMA AxisIntersect ==
  ASSUME NEW a \in I32, NEW m \in I32, NEW b \in I32, NEW n \in I32,
         Lesser(Saturated(a + m), Saturated(b + n)) - Greater(a, b) \in I32
  PROVE  /\ Common(a, m, b, n) \in 0..MaxI32
         /\ \A k \in Int : k \in Span(Greater(a, b), Common(a, m, b, n)) <=>
                             k \in Span(a, m) /\ k \in Span(b, n)
         /\ Common(a, m, b, n) > 0 =>
              /\ Greater(a, b) + Common(a, m, b, n) <= Saturated(a + m)
              /\ Greater(a, b) + Common(a, m, b, n) <= Saturated(b + n)
<1> DEFINE p == Saturated(a + m)
           q == Saturated(b + n)
           lo == Greater(a, b)
           hi == Lesser(p, q)
           c == Common(a, m, b, n)
<1>1. p \in I32 /\ q \in I32 /\ a \in Int /\ b \in Int
  BY SaturatedIs, Range32 DEF I32
<1>2. Wrapped(hi - lo) = hi - lo
  BY WrappedIs, Range32 DEF I32
<1>3. c = Greater(hi - lo, 0)
  BY <1>2 DEF Common
<1> HIDE DEF p, q, c
<1>4. /\ lo \in I32 /\ hi \in I32 /\ hi <= p /\ hi <= q /\ a <= lo /\ b <= lo
      /\ (lo = a \/ lo = b) /\ (hi = p \/ hi = q)
  BY <1>1, Range32 DEF I32, Greater, Lesser
<1>5. hi - lo \in I32
  BY DEF p, q
<1> HIDE DEF lo, hi
<1>6. /\ c \in 0..MaxI32 /\ (hi - lo <= 0 => c = 0) /\ (hi - lo > 0 => c = hi - lo)
  BY <1>3, <1>4, <1>5, Range32 DEF Greater, I32
<1>7. Saturated(lo + c) = lo + c
  BY <1>4, <1>6, SaturatedIs, Range32 DEF I32
<1>8. \A k \in Int : k \in lo..(lo + c - 1) <=> k \in a..(p - 1) /\ k \in b..(q - 1)
  BY <1>1, <1>4, <1>6, Range32 DEF I32
<1> QED
  BY <1>4, <1>6, <1>7, <1>8, Range32 DEF I32, Span, lo, c, p, q

(* Against a buffer or the frame, which begin at 0, nothing wraps.           *)
LEMMA AxisClip ==
  ASSUME NEW a \in I32, NEW m \in I32, NEW n \in 0..MaxI32
  PROVE  Lesser(Saturated(a + m), Saturated(0 + n)) - Greater(a, 0) \in I32
<1>1. a \in Int /\ m \in Int /\ n \in Int
  BY Range32 DEF I32
<1>2. Saturated(0 + n) = n
  BY <1>1, SaturatedIs, Range32
<1>3. Saturated(a + m) \in I32 /\ (Saturated(a + m) >= a + m \/ Saturated(a + m) = MaxI32)
  BY <1>1, SaturatedIs, Range32
<1> QED
  BY <1>1, <1>2, <1>3, Range32 DEF Lesser, Greater, I32

(* A piece of a buffer, moved to where the surface is, stays a piece of it.  *)
LEMMA AxisMove ==
  ASSUME NEW e \in I32, NEW n \in 0..MaxI32,
         NEW c \in 0..MaxI32, NEW m \in 1..MaxI32, c + m <= n
  PROVE  /\ Lesser(Saturated(Saturated(c + e) + m), Saturated(e + n)) - Greater(Saturated(c + e), e)
              \in I32
         /\ \A k \in Span(e, n) : k \in Span(Saturated(c + e), m) <=> k - e \in Span(c, m)
<1>1. e \in Int /\ n \in Int /\ c \in Int /\ m \in Int
  BY Range32 DEF I32
<1> DEFINE a == Saturated(c + e)
           p == Saturated(a + m)
           q == Saturated(e + n)
<1>2. a \in I32 /\ a = IF c + e > MaxI32 THEN MaxI32 ELSE c + e
  BY <1>1, SaturatedIs, Range32 DEF I32
<1>3. q \in I32 /\ q = IF e + n > MaxI32 THEN MaxI32 ELSE e + n
  BY <1>1, SaturatedIs, Range32 DEF I32
<1> HIDE DEF a, q
<1>4. p \in I32 /\ p = IF a + m > MaxI32 THEN MaxI32 ELSE a + m
  BY <1>1, <1>2, SaturatedIs, Range32 DEF I32
<1> HIDE DEF p
<1>5. Lesser(p, q) - Greater(a, e) \in I32
  BY <1>1, <1>2, <1>3, <1>4, Range32 DEF Lesser, Greater, I32
<1>6. Saturated(c + m) = c + m
  BY <1>1, SaturatedIs, Range32 DEF I32
<1>7. \A k \in e..(q - 1) : k \in a..(p - 1) <=> k - e \in c..(c + m - 1)
  BY <1>1, <1>2, <1>3, <1>4, Range32 DEF I32
<1> QED
  BY <1>5, <1>6, <1>7 DEF Span, a, p, q

LEMMA AxisHull ==
  ASSUME NEW a \in I32, NEW m \in 1..MaxI32, NEW b \in I32, NEW n \in 1..MaxI32,
         a + m <= MaxI32, b + n <= MaxI32, a + m - b <= MaxI32, b + n - a <= MaxI32
  PROVE  /\ Lesser(a, b) \in I32 /\ Hull(a, m, b, n) \in 1..MaxI32
         /\ Lesser(a, b) + Hull(a, m, b, n) = Greater(a + m, b + n)
         /\ Span(a, m) \subseteq Span(Lesser(a, b), Hull(a, m, b, n))
         /\ Span(b, n) \subseteq Span(Lesser(a, b), Hull(a, m, b, n))
<1>1. a \in Int /\ m \in Int /\ b \in Int /\ n \in Int
  BY Range32 DEF I32
<1>2. Saturated(a + m) = a + m /\ Saturated(b + n) = b + n
  BY <1>1, SaturatedIs, Range32 DEF I32
<1> DEFINE lo == Lesser(a, b)
           hi == Greater(a + m, b + n)
<1>3. /\ lo \in I32 /\ hi \in Int /\ hi <= MaxI32 /\ hi - lo \in 1..MaxI32
      /\ lo <= a /\ lo <= b /\ a + m <= hi /\ b + n <= hi
  BY <1>1, Range32 DEF I32, Lesser, Greater
<1> HIDE DEF lo, hi
<1>4. Hull(a, m, b, n) = hi - lo
  BY <1>2, <1>3, WrappedIs, Range32 DEF Hull, lo, hi, I32
<1>5. Saturated(lo + (hi - lo)) = hi
  BY <1>3, SaturatedIs, Range32 DEF I32
<1>6. a..(a + m - 1) \subseteq lo..(hi - 1) /\ b..(b + n - 1) \subseteq lo..(hi - 1)
  BY <1>1, <1>3, Range32 DEF I32
<1> QED
  BY <1>2, <1>3, <1>4, <1>5, <1>6, Range32 DEF Span, lo, hi, I32

-----------------------------------------------------------------------------
(* Rectangles: the two axes together.                                        *)

LEMMA RectIs ==
  ASSUME NEW x \in I32, NEW y \in I32, NEW w \in I32, NEW h \in I32
  PROVE  /\ Rect(x, y, w, h) \in Rectangles
         /\ Rect(x, y, w, h).x = x /\ Rect(x, y, w, h).y = y
         /\ Rect(x, y, w, h).w = w /\ Rect(x, y, w, h).h = h
BY DEF Rect, Rectangles, I32

LEMMA Fields ==
  ASSUME NEW r \in Rectangles
  PROVE  /\ r.x \in I32 /\ r.y \in I32 /\ r.w \in I32 /\ r.h \in I32
         /\ r = Rect(r.x, r.y, r.w, r.h)
BY DEF Rect, Rectangles, I32

(* A pixel is in a rectangle when it is in its span on both axes.            *)
LEMMA PixelIn ==
  ASSUME NEW r \in Rectangles
  PROVE  /\ Pixels(r) \subseteq Int \X Int
         /\ \A i, j \in Int : <<i, j>> \in Pixels(r) <=> i \in Span(r.x, r.w) /\ j \in Span(r.y, r.h)
<1>1. /\ r.x \in Int /\ r.y \in Int /\ r.w \in Int /\ r.h \in Int
      /\ r.x <= MaxI32 /\ r.y <= MaxI32 /\ r.x >= MinI32 /\ r.y >= MinI32
  BY Fields, Range32 DEF I32
<1>2. /\ Saturated(r.x + r.w) \in Int /\ Saturated(r.y + r.h) \in Int
      /\ r.w <= 0 => Saturated(r.x + r.w) <= r.x
      /\ r.h <= 0 => Saturated(r.y + r.h) <= r.y
  BY <1>1, SaturatedIs, Range32 DEF I32
<1>3. /\ r.w <= 0 => Span(r.x, r.w) = {}
      /\ r.h <= 0 => Span(r.y, r.h) = {}
  BY <1>1, <1>2 DEF Span
<1>4. Pixels(r) = Span(r.x, r.w) \X Span(r.y, r.h)
  <2>1. CASE IsEmpty(r)
    BY <1>3, <2>1 DEF Pixels, IsEmpty
  <2>2. CASE ~IsEmpty(r)
    BY <2>2 DEF Pixels, Right, Bottom, Span
  <2> QED
    BY <2>1, <2>2
<1>5. Span(r.x, r.w) \subseteq Int /\ Span(r.y, r.h) \subseteq Int
  BY <1>1, <1>2 DEF Span
<1> QED
  BY <1>4, <1>5

LEMMA IntersectIs ==
  ASSUME NEW r \in Rectangles, NEW s \in Rectangles
  PROVE  Intersect(r, s) = Rect(Greater(r.x, s.x), Greater(r.y, s.y),
                                Common(r.x, r.w, s.x, s.w), Common(r.y, r.h, s.y, s.h))
BY DEF Intersect, Common, Right, Bottom

(* Whatever wraps, the result is a rectangle.                                *)
LEMMA IntersectTyped ==
  ASSUME NEW r \in Rectangles, NEW s \in Rectangles
  PROVE  Intersect(r, s) \in Rectangles
<1>1. ASSUME NEW a \in I32, NEW m \in I32, NEW b \in I32, NEW n \in I32
      PROVE  Greater(a, b) \in I32 /\ Common(a, m, b, n) \in I32
  <2>1. a \in Int /\ b \in Int /\ a + m \in Int /\ b + n \in Int
    BY Range32 DEF I32
  <2>2. Lesser(Saturated(a + m), Saturated(b + n)) - Greater(a, b) \in Int
    BY <2>1, SaturatedIs, Range32 DEF Lesser, Greater, I32
  <2>3. Wrapped(Lesser(Saturated(a + m), Saturated(b + n)) - Greater(a, b)) \in I32
    BY <2>2, WrappedIs
  <2> QED
    BY <2>3, Range32 DEF Common, Greater, I32
<1>2. r.x \in I32 /\ r.y \in I32 /\ r.w \in I32 /\ r.h \in I32
  BY Fields
<1>3. s.x \in I32 /\ s.y \in I32 /\ s.w \in I32 /\ s.h \in I32
  BY Fields
<1> DEFINE x == Greater(r.x, s.x)
           y == Greater(r.y, s.y)
           w == Common(r.x, r.w, s.x, s.w)
           h == Common(r.y, r.h, s.y, s.h)
<1>4. x \in I32 /\ y \in I32 /\ w \in I32 /\ h \in I32
  BY <1>1, <1>2, <1>3
<1>5. Intersect(r, s) = Rect(x, y, w, h)
  BY IntersectIs
<1> HIDE DEF x, y, w, h
<1> QED
  BY <1>4, <1>5, RectIs

(* Where no subtraction wraps, the intersection is what it says.             *)
LEMMA IntersectExact ==
  ASSUME NEW r \in Rectangles, NEW s \in Rectangles,
         Lesser(Saturated(r.x + r.w), Saturated(s.x + s.w)) - Greater(r.x, s.x) \in I32,
         Lesser(Saturated(r.y + r.h), Saturated(s.y + s.h)) - Greater(r.y, s.y) \in I32
  PROVE  /\ Pixels(Intersect(r, s)) = Pixels(r) \cap Pixels(s)
         /\ LET c == Intersect(r, s)
            IN  /\ c.x >= s.x /\ c.y >= s.y /\ c.w \in 0..MaxI32 /\ c.h \in 0..MaxI32
                /\ ~IsEmpty(c) => /\ c.x + c.w <= Saturated(s.x + s.w)
                                  /\ c.y + c.h <= Saturated(s.y + s.h)
<1> DEFINE c == Intersect(r, s)
<1>1. r.x \in I32 /\ r.y \in I32 /\ r.w \in I32 /\ r.h \in I32
  BY Fields
<1>2. s.x \in I32 /\ s.y \in I32 /\ s.w \in I32 /\ s.h \in I32
  BY Fields
<1>3. /\ Common(r.x, r.w, s.x, s.w) \in 0..MaxI32
      /\ \A k \in Int : k \in Span(Greater(r.x, s.x), Common(r.x, r.w, s.x, s.w)) <=>
                          k \in Span(r.x, r.w) /\ k \in Span(s.x, s.w)
      /\ Common(r.x, r.w, s.x, s.w) > 0 =>
           Greater(r.x, s.x) + Common(r.x, r.w, s.x, s.w) <= Saturated(s.x + s.w)
  BY <1>1, <1>2, AxisIntersect
<1>4. /\ Common(r.y, r.h, s.y, s.h) \in 0..MaxI32
      /\ \A k \in Int : k \in Span(Greater(r.y, s.y), Common(r.y, r.h, s.y, s.h)) <=>
                          k \in Span(r.y, r.h) /\ k \in Span(s.y, s.h)
      /\ Common(r.y, r.h, s.y, s.h) > 0 =>
           Greater(r.y, s.y) + Common(r.y, r.h, s.y, s.h) <= Saturated(s.y + s.h)
  BY <1>1, <1>2, AxisIntersect
<1>5. /\ Greater(r.x, s.x) \in I32 /\ Greater(r.y, s.y) \in I32
      /\ Greater(r.x, s.x) >= s.x /\ Greater(r.y, s.y) >= s.y
  BY <1>1, <1>2, Range32 DEF Greater, I32
<1>6. Common(r.x, r.w, s.x, s.w) \in I32 /\ Common(r.y, r.h, s.y, s.h) \in I32
  BY <1>3, <1>4, Range32 DEF I32
<1>7. /\ c \in Rectangles /\ c.x = Greater(r.x, s.x) /\ c.y = Greater(r.y, s.y)
      /\ c.w = Common(r.x, r.w, s.x, s.w) /\ c.h = Common(r.y, r.h, s.y, s.h)
  <2> DEFINE x == Greater(r.x, s.x)
             y == Greater(r.y, s.y)
             w == Common(r.x, r.w, s.x, s.w)
             h == Common(r.y, r.h, s.y, s.h)
  <2>1. x \in I32 /\ y \in I32 /\ w \in I32 /\ h \in I32
    BY <1>5, <1>6
  <2>2. c = Rect(x, y, w, h)
    BY IntersectIs
  <2> HIDE DEF c, x, y, w, h
  <2>3. /\ Rect(x, y, w, h) \in Rectangles
        /\ Rect(x, y, w, h).x = x /\ Rect(x, y, w, h).y = y
        /\ Rect(x, y, w, h).w = w /\ Rect(x, y, w, h).h = h
    BY <2>1, RectIs
  <2>4. c \in Rectangles /\ c.x = x /\ c.y = y /\ c.w = w /\ c.h = h
    BY <2>2, <2>3, Zenon
  <2> QED
    BY <2>4 DEF x, y, w, h
<1> HIDE DEF c
<1>8. /\ \A k \in Int : k \in Span(c.x, c.w) <=> k \in Span(r.x, r.w) /\ k \in Span(s.x, s.w)
      /\ \A k \in Int : k \in Span(c.y, c.h) <=> k \in Span(r.y, r.h) /\ k \in Span(s.y, s.h)
  BY <1>3, <1>4, <1>7
<1>9. \A i, j \in Int : <<i, j>> \in Pixels(c) <=> <<i, j>> \in Pixels(r) /\ <<i, j>> \in Pixels(s)
  BY <1>7, <1>8, PixelIn
<1>10. Pixels(c) \subseteq Int \X Int /\ Pixels(r) \subseteq Int \X Int
  BY <1>7, PixelIn
<1>11. Pixels(c) = Pixels(r) \cap Pixels(s)
  BY <1>9, <1>10
<1>12. /\ c.x >= s.x /\ c.y >= s.y /\ c.w \in 0..MaxI32 /\ c.h \in 0..MaxI32
       /\ c.w > 0 => c.x + c.w <= Saturated(s.x + s.w)
       /\ c.h > 0 => c.y + c.h <= Saturated(s.y + s.h)
  BY <1>3, <1>4, <1>5, <1>7
<1>13. ~IsEmpty(c) => c.w > 0 /\ c.h > 0
  BY <1>12, Range32 DEF IsEmpty
<1> QED
  BY <1>11, <1>12, <1>13 DEF c

(* Clipping to a buffer or to the frame never wraps.                         *)
LEMMA ClipExact ==
  ASSUME NEW r \in Rectangles, NEW w \in 0..MaxI32, NEW h \in 0..MaxI32
  PROVE  LET box == Rect(0, 0, w, h)
             c   == Intersect(r, box)
         IN  /\ box \in Rectangles /\ Pixels(c) = Pixels(r) \cap Pixels(box)
             /\ c \in Rectangles /\ c.x >= 0 /\ c.y >= 0 /\ c.w \in 0..MaxI32 /\ c.h \in 0..MaxI32
             /\ ~IsEmpty(c) => c.x + c.w <= w /\ c.y + c.h <= h
<1> DEFINE box == Rect(0, 0, w, h)
<1>1. w \in I32 /\ h \in I32 /\ 0 \in I32
  BY Range32 DEF I32
<1>2. box \in Rectangles /\ box.x = 0 /\ box.y = 0 /\ box.w = w /\ box.h = h
  BY <1>1, RectIs
<1> HIDE DEF box
<1>3. r.x \in I32 /\ r.y \in I32 /\ r.w \in I32 /\ r.h \in I32
  BY Fields
<1>4. Lesser(Saturated(r.x + r.w), Saturated(box.x + box.w)) - Greater(r.x, box.x) \in I32
  BY <1>2, <1>3, AxisClip
<1>5. Lesser(Saturated(r.y + r.h), Saturated(box.y + box.h)) - Greater(r.y, box.y) \in I32
  BY <1>2, <1>3, AxisClip
<1>6. Saturated(0 + w) = w /\ Saturated(0 + h) = h
  BY <1>1, SaturatedIs, Range32 DEF I32
<1> QED
  BY <1>2, <1>4, <1>5, <1>6, IntersectExact, IntersectTyped DEF box

(* A client's rectangle, clipped to its buffer and moved to its surface's    *)
(* place, is exactly the part of the extent that it names.                   *)
Named(e, r) == {p \in Pixels(e) : <<p[1] - e.x, p[2] - e.y>> \in Pixels(r)}
Clipped(e, r) == Intersect(r, Rect(0, 0, e.w, e.h))
Placed(e, r) == Intersect(Translate(Clipped(e, r), e.x, e.y), e)

LEMMA ClippedIs ==
  ASSUME NEW e \in Rectangles, e.w >= 0, e.h >= 0, NEW r \in Rectangles
  PROVE  LET c == Clipped(e, r)
         IN  /\ c \in Rectangles /\ c.x >= 0 /\ c.y >= 0
             /\ c.w \in 0..MaxI32 /\ c.h \in 0..MaxI32
             /\ ~IsEmpty(c) => c.x + c.w <= e.w /\ c.y + c.h <= e.h
             /\ \A p \in Pixels(e) : p \in Named(e, r) <=> <<p[1] - e.x, p[2] - e.y>> \in Pixels(c)
<1>1. e.w \in 0..MaxI32 /\ e.h \in 0..MaxI32 /\ e.x \in I32 /\ e.y \in I32 /\ e.w \in I32 /\ e.h \in I32
  BY Fields, Range32 DEF I32
<1> DEFINE box == Rect(0, 0, e.w, e.h)
           c == Intersect(r, box)
<1>2. /\ box \in Rectangles /\ Pixels(c) = Pixels(r) \cap Pixels(box)
      /\ c \in Rectangles /\ c.x >= 0 /\ c.y >= 0 /\ c.w \in 0..MaxI32 /\ c.h \in 0..MaxI32
      /\ ~IsEmpty(c) => c.x + c.w <= e.w /\ c.y + c.h <= e.h
  BY <1>1, ClipExact
<1>3. box.x = 0 /\ box.y = 0 /\ box.w = e.w /\ box.h = e.h
  <2> DEFINE o == 0
             w == e.w
             h == e.h
  <2>1. o \in I32 /\ w \in I32 /\ h \in I32
    BY <1>1, Range32
  <2>2. box = Rect(o, o, w, h)
    OBVIOUS
  <2> HIDE DEF o, w, h, box
  <2>3. /\ Rect(o, o, w, h).x = o /\ Rect(o, o, w, h).y = o
        /\ Rect(o, o, w, h).w = w /\ Rect(o, o, w, h).h = h
    BY <2>1, RectIs
  <2>4. box.x = o /\ box.y = o /\ box.w = w /\ box.h = h
    BY <2>2, <2>3, Zenon
  <2> QED
    BY <2>4 DEF o, w, h
<1> HIDE DEF box, c
<1>4. ASSUME NEW p \in Pixels(e) PROVE <<p[1] - e.x, p[2] - e.y>> \in Pixels(box)
  <2>1. PICK i, j \in Int : p = <<i, j>>
    BY PixelIn
  <2>2. i \in Span(e.x, e.w) /\ j \in Span(e.y, e.h)
    BY <2>1, PixelIn
  <2>3. ASSUME NEW a \in I32, NEW n \in 0..MaxI32, NEW k \in Span(a, n)
        PROVE  k - a \in Span(0, n)
    <3>1. a \in Int /\ n \in Int
      BY Range32 DEF I32
    <3>2. Saturated(a + n) \in Int /\ Saturated(a + n) <= a + n /\ Saturated(0 + n) = n
      BY <3>1, SaturatedIs, Range32 DEF I32
    <3> QED
      BY <3>1, <3>2 DEF Span
  <2>4. i - e.x \in Span(0, e.w) /\ j - e.y \in Span(0, e.h)
    BY <1>1, <2>2, <2>3
  <2>5. i - e.x \in Int /\ j - e.y \in Int
    BY <1>1, Range32 DEF I32
  <2>6. <<i - e.x, j - e.y>> \in Pixels(box)
    BY <1>2, <1>3, <2>4, <2>5, PixelIn
  <2> QED
    BY <2>1, <2>6
<1>5. Clipped(e, r) = c
  BY DEF Clipped, c, box
<1> QED
  BY <1>2, <1>4, <1>5 DEF Named

LEMMA TranslateIs ==
  ASSUME NEW c \in Rectangles, NEW dx \in I32, NEW dy \in I32
  PROVE  Translate(c, dx, dy) = Rect(Saturated(c.x + dx), Saturated(c.y + dy), c.w, c.h)
<1> DEFINE a == Saturated(c.x + dx)
           b == Saturated(c.y + dy)
           t == [c EXCEPT !.x = a, !.y = b]
<1>1. Translate(c, dx, dy) = t
  BY DEF Translate
<1>2. a \in I32 /\ b \in I32
  <2>1. c.x + dx \in Int /\ c.y + dy \in Int
    BY Fields, Range32 DEF I32
  <2> QED
    BY <2>1, SaturatedIs
<1> HIDE DEF a, b
<1>3. t \in Rectangles /\ t.x = a /\ t.y = b /\ t.w = c.w /\ t.h = c.h
  BY <1>2 DEF Rectangles, I32
<1> HIDE DEF t
<1>4. t = Rect(t.x, t.y, t.w, t.h)
  BY <1>3, Fields
<1> QED
  BY <1>1, <1>3, <1>4, Zenon DEF a, b

LEMMA PlacedIs ==
  ASSUME NEW e \in Rectangles, e.w >= 0, e.h >= 0, NEW r \in Rectangles,
         ~IsEmpty(Clipped(e, r))
  PROVE  LET c == Placed(e, r)
         IN  /\ c \in Rectangles /\ Pixels(c) = Named(e, r)
             /\ c.x >= e.x /\ c.y >= e.y /\ c.w \in 0..MaxI32 /\ c.h \in 0..MaxI32
             /\ ~IsEmpty(c) => /\ c.x + c.w <= Saturated(e.x + e.w)
                               /\ c.y + c.h <= Saturated(e.y + e.h)
<1> DEFINE b == Clipped(e, r)
           t == Translate(b, e.x, e.y)
<1>1. e.w \in 0..MaxI32 /\ e.h \in 0..MaxI32 /\ e.x \in I32 /\ e.y \in I32 /\ e.w \in I32 /\ e.h \in I32
  BY Fields, Range32 DEF I32
<1>2. /\ b \in Rectangles /\ b.x >= 0 /\ b.y >= 0
      /\ b.w \in 0..MaxI32 /\ b.h \in 0..MaxI32
      /\ b.x + b.w <= e.w /\ b.y + b.h <= e.h
      /\ \A p \in Pixels(e) : p \in Named(e, r) <=> <<p[1] - e.x, p[2] - e.y>> \in Pixels(b)
  BY ClippedIs
<1>3. b.w > 0 /\ b.h > 0
  BY <1>2, Range32 DEF IsEmpty
<1> HIDE DEF b
<1>4. b.x \in I32 /\ b.y \in I32 /\ b.w \in I32 /\ b.h \in I32
  BY <1>2, Fields
<1>5. b.x \in 0..MaxI32 /\ b.y \in 0..MaxI32 /\ b.w \in 1..MaxI32 /\ b.h \in 1..MaxI32
  BY <1>2, <1>3, <1>4, Range32 DEF I32
<1> DEFINE x == Saturated(b.x + e.x)
           y == Saturated(b.y + e.y)
<1>6. x \in I32 /\ y \in I32
  BY <1>1, <1>4, SaturatedIs, Range32 DEF I32
<1>7. t = Rect(x, y, b.w, b.h)
  BY <1>1, <1>2, TranslateIs
<1>8. t \in Rectangles /\ t.x = x /\ t.y = y /\ t.w = b.w /\ t.h = b.h
  <2> DEFINE w == b.w
             h == b.h
  <2>1. x \in I32 /\ y \in I32 /\ w \in I32 /\ h \in I32 /\ t = Rect(x, y, w, h)
    BY <1>4, <1>6, <1>7
  <2> HIDE DEF x, y, t, w, h
  <2>2. /\ Rect(x, y, w, h) \in Rectangles
        /\ Rect(x, y, w, h).x = x /\ Rect(x, y, w, h).y = y
        /\ Rect(x, y, w, h).w = w /\ Rect(x, y, w, h).h = h
    BY <2>1, RectIs
  <2>3. t \in Rectangles /\ t.x = x /\ t.y = y /\ t.w = w /\ t.h = h
    BY <2>1, <2>2, Zenon
  <2> QED
    BY <2>3 DEF w, h
<1> HIDE DEF t
<1>9. /\ Lesser(Saturated(t.x + t.w), Saturated(e.x + e.w)) - Greater(t.x, e.x) \in I32
      /\ \A k \in Span(e.x, e.w) : k \in Span(t.x, t.w) <=> k - e.x \in Span(b.x, b.w)
  BY <1>1, <1>2, <1>5, <1>8, AxisMove
<1>10. /\ Lesser(Saturated(t.y + t.h), Saturated(e.y + e.h)) - Greater(t.y, e.y) \in I32
       /\ \A k \in Span(e.y, e.h) : k \in Span(t.y, t.h) <=> k - e.y \in Span(b.y, b.h)
  BY <1>1, <1>2, <1>5, <1>8, AxisMove
<1> HIDE DEF x, y
<1> DEFINE c == Intersect(t, e)
<1>11. /\ Pixels(c) = Pixels(t) \cap Pixels(e)
       /\ c \in Rectangles
       /\ c.x >= e.x /\ c.y >= e.y /\ c.w \in 0..MaxI32 /\ c.h \in 0..MaxI32
       /\ ~IsEmpty(c) => /\ c.x + c.w <= Saturated(e.x + e.w)
                         /\ c.y + c.h <= Saturated(e.y + e.h)
  BY <1>8, <1>9, <1>10, IntersectExact, IntersectTyped
<1> HIDE DEF c
<1>12. ASSUME NEW p \in Pixels(e)
       PROVE  p \in Pixels(t) <=> <<p[1] - e.x, p[2] - e.y>> \in Pixels(b)
  <2>1. PICK i, j \in Int : p = <<i, j>>
    BY PixelIn
  <2>2. i \in Span(e.x, e.w) /\ j \in Span(e.y, e.h)
    BY <2>1, PixelIn
  <2>3. i - e.x \in Int /\ j - e.y \in Int
    BY <1>1, Range32 DEF I32
  <2>4. <<i, j>> \in Pixels(t) <=> i \in Span(t.x, t.w) /\ j \in Span(t.y, t.h)
    BY <1>8, PixelIn
  <2>5. <<i - e.x, j - e.y>> \in Pixels(b) <=> i - e.x \in Span(b.x, b.w) /\ j - e.y \in Span(b.y, b.h)
    BY <1>2, <2>3, PixelIn
  <2>6. <<i, j>> \in Pixels(t) <=> <<i - e.x, j - e.y>> \in Pixels(b)
    BY <1>9, <1>10, <2>2, <2>4, <2>5
  <2> QED
    BY <2>1, <2>6
<1>13. Pixels(c) = Named(e, r)
  BY <1>2, <1>11, <1>12 DEF Named
<1>14. Placed(e, r) = c
  BY DEF Placed, c, t, b
<1> QED
  BY <1>11, <1>13, <1>14

-----------------------------------------------------------------------------
(* The box around rectangles.  What the list holds lies between extents that *)
(* were damaged, and begins and ends, on each axis, where damage does.       *)
Shown == {g \in Extents : ~IsEmpty(g)}

Within(r) ==
  /\ \E e \in Shown : e.x <= r.x
  /\ \E e \in Shown : r.x + r.w <= e.x + e.w
  /\ \E e \in Shown : e.y <= r.y
  /\ \E e \in Shown : r.y + r.h <= e.y + e.h

Tight(r, D) ==
  /\ \E p \in D : p[1] <= r.x
  /\ \E p \in D : r.x + r.w <= p[1] + 1
  /\ \E p \in D : p[2] <= r.y
  /\ \E p \in D : r.y + r.h <= p[2] + 1

Kept == {r \in Rectangles : ~IsEmpty(r)}
Good(D) == {r \in Kept : Within(r) /\ Tight(r, D)}

LEMMA ShownFit ==
  ASSUME BoxesFit, NEW r \in Kept, NEW s \in Kept, Within(r), Within(s)
  PROVE  /\ r.x + r.w <= MaxI32 /\ r.x + r.w - s.x <= MaxI32
         /\ r.y + r.h <= MaxI32 /\ r.y + r.h - s.y <= MaxI32
<1>1. \A e \in Shown : e.x \in Int /\ e.y \in Int /\ e.w \in Int /\ e.h \in Int
  BY RegionAssumption, Fields, Range32 DEF Shown, I32
<1>2. /\ r.x \in Int /\ r.y \in Int /\ r.w \in Int /\ r.h \in Int
      /\ s.x \in Int /\ s.y \in Int
  BY Fields, Range32 DEF Kept, I32
<1>3. PICK e \in Shown : r.x + r.w <= e.x + e.w
  BY DEF Within
<1>4. PICK f \in Shown : f.x <= s.x
  BY DEF Within
<1>5. PICK g \in Shown : r.y + r.h <= g.y + g.h
  BY DEF Within
<1>6. PICK h \in Shown : h.y <= s.y
  BY DEF Within
<1>7. /\ e.x + e.w <= MaxI32 /\ e.x + e.w - f.x <= MaxI32
      /\ g.y + g.h <= MaxI32 /\ g.y + g.h - h.y <= MaxI32
  BY DEF BoxesFit, Shown
<1> QED
  BY <1>1, <1>2, <1>3, <1>4, <1>5, <1>6, <1>7, Range32

LEMMA BoundingIs ==
  ASSUME NEW r \in Rectangles, NEW s \in Rectangles, ~IsEmpty(r), ~IsEmpty(s)
  PROVE  Bounding(r, s) = Rect(Lesser(r.x, s.x), Lesser(r.y, s.y),
                               Hull(r.x, r.w, s.x, s.w), Hull(r.y, r.h, s.y, s.h))
BY DEF Bounding, Hull, Right, Bottom

LEMMA BoundingTyped ==
  ASSUME NEW r \in Rectangles, NEW s \in Rectangles
  PROVE  Bounding(r, s) \in Rectangles
<1>1. ASSUME NEW a \in I32, NEW m \in I32, NEW b \in I32, NEW n \in I32
      PROVE  Lesser(a, b) \in I32 /\ Hull(a, m, b, n) \in I32
  <2>1. a \in Int /\ b \in Int /\ a + m \in Int /\ b + n \in Int
    BY Range32 DEF I32
  <2>2. Greater(Saturated(a + m), Saturated(b + n)) - Lesser(a, b) \in Int
    BY <2>1, SaturatedIs, Range32 DEF Lesser, Greater, I32
  <2> QED
    BY <2>2, WrappedIs, Range32 DEF Hull, Lesser, I32
<1>2. r.x \in I32 /\ r.y \in I32 /\ r.w \in I32 /\ r.h \in I32
  BY Fields
<1>3. s.x \in I32 /\ s.y \in I32 /\ s.w \in I32 /\ s.h \in I32
  BY Fields
<1> DEFINE x == Lesser(r.x, s.x)
           y == Lesser(r.y, s.y)
           w == Hull(r.x, r.w, s.x, s.w)
           h == Hull(r.y, r.h, s.y, s.h)
<1>4. x \in I32 /\ y \in I32 /\ w \in I32 /\ h \in I32
  BY <1>1, <1>2, <1>3
<1>5. ~IsEmpty(r) /\ ~IsEmpty(s) => Bounding(r, s) = Rect(x, y, w, h)
  BY BoundingIs
<1> HIDE DEF x, y, w, h
<1>6. Rect(x, y, w, h) \in Rectangles
  BY <1>4, RectIs
<1> QED
  BY <1>5, <1>6 DEF Bounding

(* The box around two rectangles that fit covers both and is as tight.       *)
LEMMA BoundingGood ==
  ASSUME BoxesFit, NEW D, NEW r \in Good(D), NEW s \in Good(D)
  PROVE  /\ Bounding(r, s) \in Good(D)
         /\ Pixels(r) \subseteq Pixels(Bounding(r, s))
         /\ Pixels(s) \subseteq Pixels(Bounding(r, s))
<1>1. /\ r \in Rectangles /\ s \in Rectangles /\ ~IsEmpty(r) /\ ~IsEmpty(s)
      /\ Within(r) /\ Within(s) /\ Tight(r, D) /\ Tight(s, D) /\ r \in Kept /\ s \in Kept
  BY DEF Good, Kept
<1>2. /\ r.x \in I32 /\ r.y \in I32 /\ r.w \in I32 /\ r.h \in I32
      /\ s.x \in I32 /\ s.y \in I32 /\ s.w \in I32 /\ s.h \in I32
  BY <1>1, Fields
<1>3. /\ r.w \in 1..MaxI32 /\ r.h \in 1..MaxI32 /\ s.w \in 1..MaxI32 /\ s.h \in 1..MaxI32
  BY <1>1, <1>2, Range32 DEF IsEmpty, I32
<1>4. /\ r.x + r.w <= MaxI32 /\ s.x + s.w <= MaxI32
      /\ r.x + r.w - s.x <= MaxI32 /\ s.x + s.w - r.x <= MaxI32
      /\ r.y + r.h <= MaxI32 /\ s.y + s.h <= MaxI32
      /\ r.y + r.h - s.y <= MaxI32 /\ s.y + s.h - r.y <= MaxI32
  BY <1>1, ShownFit
<1> DEFINE x == Lesser(r.x, s.x)
           y == Lesser(r.y, s.y)
           w == Hull(r.x, r.w, s.x, s.w)
           h == Hull(r.y, r.h, s.y, s.h)
           b == Bounding(r, s)
<1>5. /\ x \in I32 /\ w \in 1..MaxI32 /\ x + w = Greater(r.x + r.w, s.x + s.w)
      /\ Span(r.x, r.w) \subseteq Span(x, w) /\ Span(s.x, s.w) \subseteq Span(x, w)
  BY <1>2, <1>3, <1>4, AxisHull
<1>6. /\ y \in I32 /\ h \in 1..MaxI32 /\ y + h = Greater(r.y + r.h, s.y + s.h)
      /\ Span(r.y, r.h) \subseteq Span(y, h) /\ Span(s.y, s.h) \subseteq Span(y, h)
  BY <1>2, <1>3, <1>4, AxisHull
<1>7. b = Rect(x, y, w, h)
  BY <1>1, BoundingIs
<1>8. /\ x = r.x \/ x = s.x
      /\ y = r.y \/ y = s.y
      /\ x + w = r.x + r.w \/ x + w = s.x + s.w
      /\ y + h = r.y + r.h \/ y + h = s.y + s.h
  BY <1>5, <1>6 DEF Lesser, Greater
<1> HIDE DEF x, y, w, h, b
<1>9. w \in I32 /\ h \in I32
  BY <1>5, <1>6, Range32 DEF I32
<1>10. /\ Rect(x, y, w, h) \in Rectangles
       /\ Rect(x, y, w, h).x = x /\ Rect(x, y, w, h).y = y
       /\ Rect(x, y, w, h).w = w /\ Rect(x, y, w, h).h = h
  BY <1>5, <1>6, <1>9, RectIs
<1>11. b \in Rectangles /\ b.x = x /\ b.y = y /\ b.w = w /\ b.h = h
  BY <1>7, <1>10, Zenon
<1>12. b \in Kept
  BY <1>5, <1>6, <1>11, Range32 DEF Kept, IsEmpty
<1>13. Within(b)
  <2>1. (\E e \in Shown : e.x <= b.x) /\ (\E e \in Shown : e.y <= b.y)
    BY <1>1, <1>8, <1>11 DEF Within
  <2>2. (\E e \in Shown : b.x + b.w <= e.x + e.w) /\ (\E e \in Shown : b.y + b.h <= e.y + e.h)
    BY <1>1, <1>8, <1>11 DEF Within
  <2> QED
    BY <2>1, <2>2 DEF Within
<1>14. Tight(b, D)
  <2>1. (\E p \in D : p[1] <= b.x) /\ (\E p \in D : p[2] <= b.y)
    BY <1>1, <1>8, <1>11 DEF Tight
  <2>2. (\E p \in D : b.x + b.w <= p[1] + 1) /\ (\E p \in D : b.y + b.h <= p[2] + 1)
    BY <1>1, <1>8, <1>11 DEF Tight
  <2> QED
    BY <2>1, <2>2 DEF Tight
<1>15. ASSUME NEW q \in {r, s} PROVE Pixels(q) \subseteq Pixels(b)
  <2>1. q \in Rectangles /\ Span(q.x, q.w) \subseteq Span(b.x, b.w) /\ Span(q.y, q.h) \subseteq Span(b.y, b.h)
    BY <1>1, <1>5, <1>6, <1>11
  <2>2. \A i, j \in Int : <<i, j>> \in Pixels(q) => <<i, j>> \in Pixels(b)
    BY <1>11, <2>1, PixelIn
  <2> QED
    BY <2>1, <2>2, PixelIn
<1> QED
  BY <1>12, <1>13, <1>14, <1>15 DEF Good, b

(* bounding_box, step by step.                                               *)
Boxes(box, list) ==
  /\ box[0] = NoRect
  /\ \A i \in 1..Len(list) : box[i] = Bounding(box[i - 1], list[i])

LEMMA BoundingBoxIs ==
  ASSUME NEW list \in Seq(Rectangles)
  PROVE  \E box \in [0..Len(list) -> Rectangles] : Boxes(box, list) /\ BoundingBox(list) = box[Len(list)]
<1> DEFINE n == Len(list)
           step == [i \in 1..n |-> [r \in Rectangles |-> Bounding(r, list[i])]]
<1>1. n \in Nat /\ \A i \in 1..n : list[i] \in Rectangles
  OBVIOUS
<1>2. NoRect \in Rectangles
  BY Range32, RectIs DEF NoRect
<1>3. Steps(n, Rectangles, step)
  BY <1>1, BoundingTyped DEF Steps
<1>4. PICK f : Recursive(f, n, Rectangles, NoRect, step)
  BY <1>1, <1>2, <1>3, RecursiveFunction
<1>5. f \in [0..n -> Rectangles] /\ f[0] = NoRect /\ \A i \in 1..n : f[i] = step[i][f[i - 1]]
  BY <1>4 DEF Recursive
<1>6. \A i \in 1..n : f[i] = Bounding(f[i - 1], list[i])
  <2> SUFFICES ASSUME NEW i \in 1..n PROVE f[i] = Bounding(f[i - 1], list[i])
    OBVIOUS
  <2>1. i - 1 \in 0..n
    BY <1>1
  <2>2. f[i - 1] \in Rectangles
    BY <1>5, <2>1
  <2>3. step[i][f[i - 1]] = Bounding(f[i - 1], list[i])
    BY <2>2
  <2> QED
    BY <1>5, <2>3
<1> HIDE DEF step
<1> DEFINE g == CHOOSE g : g = [i \in 0..n |-> IF i = 0 THEN NoRect ELSE Bounding(g[i - 1], list[i])]
<1>7. f = [i \in 0..n |-> IF i = 0 THEN NoRect ELSE Bounding(f[i - 1], list[i])]
  BY <1>1, <1>5, <1>6
<1>8. g = [i \in 0..n |-> IF i = 0 THEN NoRect ELSE Bounding(g[i - 1], list[i])]
  BY <1>7
<1>9. BoundingBox(list) = g[n]
  BY DEF BoundingBox
<1> HIDE DEF g
<1>10. \A i \in 0..n : g[i] = f[i]
  <2> DEFINE T == {i \in 0..n : g[i] = f[i]}
  <2>1. 0 \in T
    BY <1>1, <1>5, <1>8
  <2>2. ASSUME NEW i \in 0..n, i \in T, i < n PROVE i + 1 \in T
    <3>1. i + 1 \in 1..n /\ i + 1 \in 0..n /\ (i + 1) - 1 = i /\ i + 1 # 0
      BY <1>1, <2>2
    <3>2. g[i + 1] = Bounding(g[i], list[i + 1])
      BY <1>8, <3>1
    <3>3. f[i + 1] = Bounding(f[i], list[i + 1])
      BY <1>6, <3>1
    <3> QED
      BY <2>2, <3>1, <3>2, <3>3
  <2> HIDE DEF T
  <2>3. \A i \in 0..n : i \in T
    BY <1>1, <2>1, <2>2, IntervalInduction
  <2> QED
    BY <2>3 DEF T
<1>11. BoundingBox(list) = f[n]
  BY <1>1, <1>9, <1>10
<1> QED
  BY <1>5, <1>6, <1>11 DEF Boxes


(* The box around rectangles that are kept is kept, and covers each of them. *)
LEMMA BoundingBoxGood ==
  ASSUME BoxesFit, NEW D, NEW list \in Seq(Good(D)), list # <<>>
  PROVE  /\ BoundingBox(list) \in Good(D)
         /\ \A i \in 1..Len(list) : Pixels(list[i]) \subseteq Pixels(BoundingBox(list))
<1> DEFINE n == Len(list)
<1>1. Good(D) \subseteq Rectangles
  BY DEF Good, Kept
<1>2. list \in Seq(Rectangles) /\ n \in Nat /\ n > 0 /\ \A i \in 1..n : list[i] \in Good(D)
  BY <1>1
<1>3. PICK box \in [0..n -> Rectangles] : Boxes(box, list) /\ BoundingBox(list) = box[n]
  BY <1>2, BoundingBoxIs
<1>4. box[0] = NoRect /\ \A i \in 1..n : box[i] = Bounding(box[i - 1], list[i])
  BY <1>3 DEF Boxes
<1> DEFINE T == {i \in 0..n : i > 0 => /\ box[i] \in Good(D)
                                      /\ \A j \in 1..i : Pixels(list[j]) \subseteq Pixels(box[i])}
<1>5. 0 \in T
  BY <1>2
<1>6. ASSUME NEW i \in 0..n, i \in T, i < n PROVE i + 1 \in T
  <2>1. i + 1 \in 1..n /\ (i + 1) - 1 = i /\ i + 1 \in 0..n
    BY <1>2, <1>6
  <2>2. box[i + 1] = Bounding(box[i], list[i + 1]) /\ list[i + 1] \in Good(D)
    BY <1>2, <1>4, <2>1
  <2>3. CASE i = 0
    <3>1. IsEmpty(box[0])
      BY <1>4 DEF IsEmpty, NoRect, Rect
    <3>2. box[i + 1] = list[i + 1]
      BY <2>2, <2>3, <3>1 DEF Bounding
    <3>3. \A j \in 1..(i + 1) : j = i + 1
      BY <2>3
    <3> QED
      BY <2>1, <2>2, <3>2, <3>3
  <2>4. CASE i # 0
    <3>1. box[i] \in Good(D) /\ \A j \in 1..i : Pixels(list[j]) \subseteq Pixels(box[i])
      BY <1>6, <2>4
    <3>2. /\ box[i + 1] \in Good(D)
          /\ Pixels(box[i]) \subseteq Pixels(box[i + 1])
          /\ Pixels(list[i + 1]) \subseteq Pixels(box[i + 1])
      BY <2>2, <3>1, BoundingGood
    <3>3. \A j \in 1..(i + 1) : j \in 1..i \/ j = i + 1
      BY <1>6
    <3>4. \A j \in 1..(i + 1) : Pixels(list[j]) \subseteq Pixels(box[i + 1])
      BY <3>1, <3>2, <3>3
    <3> QED
      BY <2>1, <3>2, <3>4
  <2> QED
    BY <2>3, <2>4
<1> HIDE DEF T
<1>7. \A i \in 0..n : i \in T
  BY <1>2, <1>5, <1>6, IntervalInduction
<1>8. n \in T
  BY <1>2, <1>7
<1> QED
  BY <1>2, <1>3, <1>8 DEF T

-----------------------------------------------------------------------------
(* The list.                                                                 *)
LEMMA AddTyped ==
  ASSUME NEW list \in Seq(Kept), Len(list) <= MAX_DAMAGE_RECTS, NEW r \in Rectangles
  PROVE  Add(list, r) \in Seq(Kept) /\ Len(Add(list, r)) <= MAX_DAMAGE_RECTS
<1>1. CASE IsEmpty(r)
  BY <1>1 DEF Add
<1>2. CASE ~IsEmpty(r)
  <2> DEFINE longer == Append(list, r)
             b == BoundingBox(longer)
  <2>1. r \in Kept /\ longer \in Seq(Kept)
    BY <1>2 DEF Kept
  <2>2. Kept \subseteq Rectangles
    BY DEF Kept
  <2> HIDE DEF longer
  <2>3. longer \in Seq(Rectangles) /\ Len(longer) \in Nat
    BY <2>1, <2>2
  <2>4. b \in Rectangles
    <3>1. PICK box \in [0..Len(longer) -> Rectangles] : b = box[Len(longer)]
      BY <2>3, BoundingBoxIs
    <3> QED
      BY <2>3, <3>1
  <2>5. Add(list, r) = IF Len(longer) > MAX_DAMAGE_RECTS
                       THEN IF IsEmpty(b) THEN <<>> ELSE <<b>>
                       ELSE longer
    BY <1>2 DEF Add, Coalesced, longer
  <2> HIDE DEF b
  <2>6. MAX_DAMAGE_RECTS \in Nat \ {0}
    BY RegionAssumption
  <2>7. ~IsEmpty(b) => <<b>> \in Seq(Kept) /\ Len(<<b>>) = 1
    BY <2>4 DEF Kept
  <2>8. <<>> \in Seq(Kept) /\ Len(<<>>) = 0
    OBVIOUS
  <2> QED
    BY <2>1, <2>3, <2>5, <2>6, <2>7, <2>8
<1> QED
  BY <1>1, <1>2

Covered(list) == UNION {Pixels(list[i]) : i \in DOMAIN list}

(* Adding loses nothing, and keeps what the list holds tight.                *)
LEMMA AddGood ==
  ASSUME BoxesFit, NEW D, NEW list \in Seq(Good(D)), Len(list) <= MAX_DAMAGE_RECTS,
         NEW r \in Good(D)
  PROVE  Add(list, r) \in Seq(Good(D)) /\ Covered(list) \cup Pixels(r) \subseteq Covered(Add(list, r))
<1> DEFINE longer == Append(list, r)
           b == BoundingBox(longer)
           m == Len(longer)
<1>1. longer \in Seq(Good(D)) /\ longer # <<>> /\ m \in Nat /\ DOMAIN longer = 1..m
  OBVIOUS
<1>2. ASSUME NEW p \in Covered(list) \cup Pixels(r) PROVE \E i \in 1..m : p \in Pixels(longer[i])
  <2>1. CASE p \in Pixels(r)
    <3>1. m \in 1..m /\ longer[m] = r
      OBVIOUS
    <3> QED
      BY <2>1, <3>1
  <2>2. CASE p \in Covered(list)
    <3>1. PICK i \in DOMAIN list : p \in Pixels(list[i])
      BY <2>2 DEF Covered
    <3>2. i \in 1..m /\ longer[i] = list[i]
      BY <3>1
    <3> QED
      BY <3>1, <3>2
  <2> QED
    BY <2>1, <2>2
<1>3. ~IsEmpty(r)
  BY DEF Good, Kept
<1> HIDE DEF longer
<1>4. b \in Good(D) /\ \A i \in 1..m : Pixels(longer[i]) \subseteq Pixels(b)
  BY <1>1, BoundingBoxGood
<1>5. ~IsEmpty(b)
  BY <1>4 DEF Good, Kept
<1>6. Add(list, r) = IF m > MAX_DAMAGE_RECTS THEN <<b>> ELSE longer
  BY <1>3, <1>5 DEF Add, Coalesced, longer
<1> HIDE DEF b, m
<1>7. CASE Add(list, r) = <<b>>
  <2>1. <<b>> \in Seq(Good(D)) /\ Covered(<<b>>) = Pixels(b)
    BY <1>4 DEF Covered
  <2> QED
    BY <1>2, <1>4, <1>7, <2>1
<1>8. CASE Add(list, r) = longer
  BY <1>1, <1>2, <1>8 DEF Covered
<1> QED
  BY <1>6, <1>7, <1>8

-----------------------------------------------------------------------------
(* Every variable keeps its type.                                            *)
Typed == rects \in Seq(Kept) /\ Len(rects) <= MAX_DAMAGE_RECTS

LEMMA TypedIs == Typed => TypeOK
<1> SUFFICES ASSUME Typed PROVE TypeOK
  OBVIOUS
<1>1. ASSUME NEW i \in DOMAIN rects
      PROVE  (\A n \in Range(rects[i]) : n \in MinI32..MaxI32) /\ ~IsEmpty(rects[i])
  <2>1. rects[i] \in Kept
    BY DEF Typed
  <2> DEFINE r == rects[i]
  <2> HIDE DEF r
  <2>2. r \in [{"x", "y", "w", "h"} -> MinI32..MaxI32] /\ ~IsEmpty(r)
    BY <2>1 DEF Kept, Rectangles, r
  <2>3. \A n \in Range(r) : n \in MinI32..MaxI32
    BY <2>2 DEF Range
  <2> QED
    BY <2>2, <2>3 DEF r
<1> QED
  BY <1>1 DEF TypeOK, Typed

LEMMA PlacedTyped ==
  ASSUME NEW e \in Extents, NEW r \in ClientRects, ~IsEmpty(Clipped(e, r))
  PROVE  Placed(e, r) \in Rectangles
BY PlacedIs, RegionAssumption

LEMMA NextTyped == Typed /\ [Next]_vars => Typed'
<1> SUFFICES ASSUME Typed, [Next]_vars PROVE Typed'
  OBVIOUS
<1>1. ASSUME NEW r \in Rectangles, rects' = Add(rects, r) PROVE Typed'
  BY <1>1, AddTyped DEF Typed
<1>2. ASSUME NEW e \in Extents, DamageRect(e) PROVE Typed'
  BY <1>1, <1>2, RegionAssumption DEF DamageRect
<1>3. ASSUME NEW e \in Extents, NEW r \in ClientRects, DamageContent(e, r) PROVE Typed'
  <2>1. rects' = IF IsEmpty(Clipped(e, r)) THEN rects ELSE Add(rects, Placed(e, r))
    BY <1>3 DEF DamageContent, Clipped, Placed
  <2>2. CASE IsEmpty(Clipped(e, r))
    BY <2>1, <2>2 DEF Typed
  <2>3. CASE ~IsEmpty(Clipped(e, r))
    BY <1>1, <2>1, <2>3, PlacedTyped
  <2> QED
    BY <2>2, <2>3
<1>4. CASE Snapshot
  BY <1>4, RegionAssumption DEF Snapshot, Typed
<1>5. CASE UNCHANGED vars
  BY <1>5 DEF vars, Typed
<1> QED
  BY <1>2, <1>3, <1>4, <1>5 DEF Next

-----------------------------------------------------------------------------
(* The list covers the damage, and holds nothing but boxes around it.        *)
Tracked ==
  /\ damaged \subseteq Int \X Int
  /\ rects \in Seq(Good(damaged))
  /\ damaged \subseteq Covered(rects)

(* The first and the last pixel of a rectangle that ends within the range.   *)
LEMMA CornersDamaged ==
  ASSUME NEW r \in Kept, r.x + r.w <= MaxI32, r.y + r.h <= MaxI32, NEW D, Pixels(r) \subseteq D
  PROVE  Tight(r, D)
<1>1. r \in Rectangles /\ ~IsEmpty(r)
  BY DEF Kept
<1>2. /\ r.x \in Int /\ r.y \in Int /\ r.w \in Int /\ r.h \in Int
      /\ r.x >= MinI32 /\ r.y >= MinI32
  BY <1>1, Fields, Range32 DEF I32
<1>3. r.w > 0 /\ r.h > 0
  BY <1>1, <1>2 DEF IsEmpty
<1> DEFINE i == r.x + (r.w - 1)
           j == r.y + (r.h - 1)
<1>4. Saturated(r.x + r.w) = r.x + r.w /\ Saturated(r.y + r.h) = r.y + r.h
  BY <1>2, <1>3, SaturatedIs, Range32
<1>5. /\ r.x \in Span(r.x, r.w) /\ r.y \in Span(r.y, r.h)
      /\ i \in Span(r.x, r.w) /\ j \in Span(r.y, r.h) /\ i \in Int /\ j \in Int
      /\ r.x + r.w <= i + 1 /\ r.y + r.h <= j + 1
  BY <1>2, <1>3, <1>4 DEF Span
<1> HIDE DEF i, j
<1>6. <<r.x, r.y>> \in D /\ <<i, j>> \in D
  BY <1>1, <1>2, <1>5, PixelIn
<1>7. (\E p \in D : p[1] <= r.x) /\ (\E p \in D : p[2] <= r.y)
  <2>1. <<r.x, r.y>>[1] <= r.x /\ <<r.x, r.y>>[2] <= r.y
    BY <1>2
  <2> QED
    BY <1>6, <2>1
<1>8. (\E p \in D : r.x + r.w <= p[1] + 1) /\ (\E p \in D : r.y + r.h <= p[2] + 1)
  <2>1. r.x + r.w <= <<i, j>>[1] + 1 /\ r.y + r.h <= <<i, j>>[2] + 1
    BY <1>5
  <2> QED
    BY <1>6, <2>1
<1> QED
  BY <1>7, <1>8 DEF Tight

LEMMA DamageTracked ==
  ASSUME BoxesFit, Typed, Tracked, NEW r \in Rectangles, ~IsEmpty(r) => Within(r),
         rects' = Add(rects, r), damaged' = damaged \cup Pixels(r)
  PROVE  Tracked'
<1>1. damaged' \subseteq Int \X Int /\ damaged \subseteq damaged'
  BY PixelIn DEF Tracked
<1>2. Good(damaged) \subseteq Good(damaged')
  BY <1>1 DEF Good, Tight
<1>3. rects \in Seq(Good(damaged'))
  <2> DEFINE A == Good(damaged)
             B == Good(damaged')
  <2>1. A \subseteq B /\ rects \in Seq(A)
    BY <1>2 DEF Tracked
  <2> HIDE DEF A, B
  <2>2. rects \in Seq(B)
    BY <2>1
  <2> QED
    BY <2>2 DEF B
<1>4. CASE IsEmpty(r)
  <2>1. rects' = rects /\ damaged' = damaged
    BY <1>4 DEF Add, Pixels
  <2>2. Good(damaged') = Good(damaged)'
    BY DEF Good, Kept, Within, Tight, Shown
  <2> QED
    BY <1>1, <1>3, <2>1, <2>2 DEF Tracked, Covered
<1>5. CASE ~IsEmpty(r)
  <2>1. r \in Kept /\ Within(r)
    BY <1>5 DEF Kept
  <2>2. r.x + r.w <= MaxI32 /\ r.y + r.h <= MaxI32
    BY <2>1, ShownFit
  <2>3. r \in Good(damaged')
    BY <2>1, <2>2, CornersDamaged DEF Good
  <2>4. /\ Add(rects, r) \in Seq(Good(damaged'))
        /\ Covered(rects) \cup Pixels(r) \subseteq Covered(Add(rects, r))
    BY <1>3, <2>3, AddGood DEF Typed
  <2>5. Good(damaged') = Good(damaged)'
    BY DEF Good, Kept, Within, Tight, Shown
  <2>6. damaged' \subseteq Covered(rects')
    BY <2>4 DEF Tracked
  <2>7. Covered(rects') = Covered(rects)'
    BY DEF Covered
  <2> QED
    BY <1>1, <2>4, <2>5, <2>6, <2>7 DEF Tracked
<1> QED
  BY <1>4, <1>5

LEMMA NextTracked ==
  BoxesFit /\ Typed /\ Tracked /\ [Next]_vars => Tracked'
<1> SUFFICES ASSUME BoxesFit, Typed, Tracked, [Next]_vars PROVE Tracked'
  OBVIOUS
<1>1. ASSUME NEW e \in Extents, DamageRect(e) PROVE Tracked'
  <2>1. e \in Rectangles
    BY RegionAssumption
  <2>2. /\ e.x \in Int /\ e.y \in Int /\ e.w \in Int /\ e.h \in Int
    BY <2>1, Fields, Range32 DEF I32
  <2>3. ~IsEmpty(e) => Within(e)
    <3>1. ~IsEmpty(e) => e \in Shown
      BY DEF Shown
    <3>2. e.x <= e.x /\ e.y <= e.y /\ e.x + e.w <= e.x + e.w /\ e.y + e.h <= e.y + e.h
      BY <2>2
    <3> QED
      BY <3>1, <3>2 DEF Within
  <2> QED
    BY <1>1, <2>1, <2>3, DamageTracked DEF DamageRect
<1>2. ASSUME NEW e \in Extents, NEW r \in ClientRects, DamageContent(e, r) PROVE Tracked'
  <2>1. /\ rects' = IF IsEmpty(Clipped(e, r)) THEN rects ELSE Add(rects, Placed(e, r))
        /\ damaged' = damaged \cup Named(e, r)
    BY <1>2 DEF DamageContent, Clipped, Placed, Named
  <2>2. e \in Rectangles /\ e.w >= 0 /\ e.h >= 0 /\ r \in Rectangles
    BY RegionAssumption
  <2>3. LET c == Clipped(e, r)
        IN  /\ c.x >= 0 /\ c.y >= 0 /\ c \in Rectangles
            /\ ~IsEmpty(c) => c.x + c.w <= e.w /\ c.y + c.h <= e.h
            /\ \A p \in Pixels(e) : p \in Named(e, r) <=> <<p[1] - e.x, p[2] - e.y>> \in Pixels(c)
    BY <2>2, ClippedIs
  <2>4. CASE IsEmpty(Clipped(e, r))
    <3>1. Named(e, r) = {}
      BY <2>3, <2>4 DEF Pixels, Named
    <3>2. UNCHANGED vars
      BY <2>1, <2>4, <3>1 DEF vars
    <3> QED
      BY <3>2 DEF vars, Tracked, Covered, Good, Kept, Within, Tight, Shown
  <2>5. CASE ~IsEmpty(Clipped(e, r))
    <3> DEFINE c == Placed(e, r)
    <3>1. /\ c \in Rectangles /\ Pixels(c) = Named(e, r)
          /\ c.x >= e.x /\ c.y >= e.y
          /\ ~IsEmpty(c) => /\ c.x + c.w <= Saturated(e.x + e.w)
                            /\ c.y + c.h <= Saturated(e.y + e.h)
      BY <2>2, <2>5, PlacedIs
    <3> HIDE DEF c
    <3>2. ~IsEmpty(e)
      <4> DEFINE b == Clipped(e, r)
      <4>1. b.x \in Int /\ b.y \in Int /\ b.w \in Int /\ b.h \in Int /\ e.w \in Int /\ e.h \in Int
        BY <2>2, <2>3, Fields, Range32 DEF I32
      <4>2. b.x >= 0 /\ b.y >= 0 /\ b.x + b.w <= e.w /\ b.y + b.h <= e.h /\ ~IsEmpty(b)
        BY <2>3, <2>5
      <4> HIDE DEF b
      <4> QED
        BY <4>1, <4>2 DEF IsEmpty
    <3>3. e \in Shown
      BY <3>2 DEF Shown
    <3>4. e.x + e.w <= MaxI32 /\ e.y + e.h <= MaxI32
      BY <3>3 DEF BoxesFit, Shown
    <3>5. /\ e.x \in Int /\ e.y \in Int /\ e.w \in Int /\ e.h \in Int
          /\ e.x >= MinI32 /\ e.y >= MinI32
      BY <2>2, Fields, Range32 DEF I32
    <3>6. Saturated(e.x + e.w) = e.x + e.w /\ Saturated(e.y + e.h) = e.y + e.h
      BY <2>2, <3>4, <3>5, SaturatedIs, Range32
    <3>7. ~IsEmpty(c) => Within(c)
      <4>1. e.x <= c.x /\ e.y <= c.y
        BY <3>1, <3>5, Fields, Range32 DEF I32
      <4> QED
        BY <3>1, <3>3, <3>6, <4>1 DEF Within
    <3>8. rects' = Add(rects, c) /\ damaged' = damaged \cup Pixels(c)
      BY <2>1, <2>5, <3>1 DEF c
    <3> QED
      BY <3>1, <3>7, <3>8, DamageTracked
  <2> QED
    BY <2>4, <2>5
<1>3. CASE Snapshot
  BY <1>3 DEF Snapshot, Tracked
<1>4. CASE UNCHANGED vars
  BY <1>4 DEF vars, Tracked, Covered, Good, Kept, Within, Tight, Shown
<1> QED
  BY <1>1, <1>2, <1>3, <1>4 DEF Next

(* What is repainted of a rectangle is what the frame has of it.             *)
LEMMA RepaintedIs ==
  ASSUME Typed
  PROVE  Repainted = Covered(rects) \cap Pixels(Frame)
<1>1. PICK w, h \in 0..MaxI32 : Frame = Rect(0, 0, w, h)
  BY RegionAssumption
<1>2. ASSUME NEW r \in Rectangles PROVE Pixels(Intersect(r, Frame)) = Pixels(r) \cap Pixels(Frame)
  BY <1>1, ClipExact
<1>3. \A i \in DOMAIN rects : rects[i] \in Rectangles
  BY DEF Typed, Kept
<1>4. ToSet(rects) = {rects[i] : i \in DOMAIN rects}
  BY DEF ToSet
<1>5. \A i \in DOMAIN rects : Pixels(Intersect(rects[i], Frame)) = Pixels(rects[i]) \cap Pixels(Frame)
  BY <1>2, <1>3
<1> QED
  BY <1>4, <1>5 DEF Repainted, Covered

LEMMA NoneIsLost == Typed /\ Tracked => NoDamageIsLost
BY RepaintedIs DEF Tracked, NoDamageIsLost

LEMMA NoneIsBeyond == BoxesFit /\ Typed /\ Tracked => NothingBeyondTheBox
<1> SUFFICES ASSUME BoxesFit, Typed, Tracked, NEW p \in Repainted
             PROVE  /\ \E low, high \in damaged : low[1] <= p[1] /\ p[1] <= high[1]
                    /\ \E low, high \in damaged : low[2] <= p[2] /\ p[2] <= high[2]
  BY DEF NothingBeyondTheBox
<1>1. PICK i \in DOMAIN rects : p \in Pixels(rects[i])
  BY RepaintedIs DEF Covered
<1> DEFINE r == rects[i]
<1>2. r \in Good(damaged) /\ p \in Pixels(r)
  BY <1>1 DEF Tracked
<1> HIDE DEF r
<1>3. r \in Kept /\ r \in Rectangles /\ Within(r) /\ Tight(r, damaged)
  BY <1>2 DEF Good, Kept
<1>4. r.x + r.w <= MaxI32 /\ r.y + r.h <= MaxI32
  BY <1>3, ShownFit
<1>5. /\ r.x \in Int /\ r.y \in Int /\ r.w \in Int /\ r.h \in Int
      /\ r.x >= MinI32 /\ r.y >= MinI32 /\ r.w > 0 /\ r.h > 0
  BY <1>3, Fields, Range32 DEF I32, Kept, IsEmpty
<1>6. Saturated(r.x + r.w) = r.x + r.w /\ Saturated(r.y + r.h) = r.y + r.h
  BY <1>4, <1>5, SaturatedIs, Range32
<1>7. PICK m, n \in Int : p = <<m, n>>
  BY <1>2, <1>3, PixelIn
<1>8. m \in Span(r.x, r.w) /\ n \in Span(r.y, r.h)
  BY <1>2, <1>3, <1>7, PixelIn
<1>9. r.x <= m /\ m + 1 <= r.x + r.w /\ r.y <= n /\ n + 1 <= r.y + r.h
  BY <1>5, <1>6, <1>7, <1>8 DEF Span
<1>10. \A q \in damaged : q[1] \in Int /\ q[2] \in Int
  BY DEF Tracked
<1>11. PICK a \in damaged : a[1] <= r.x
  BY <1>3 DEF Tight
<1>12. PICK b \in damaged : r.x + r.w <= b[1] + 1
  BY <1>3 DEF Tight
<1>13. PICK c \in damaged : c[2] <= r.y
  BY <1>3 DEF Tight
<1>14. PICK d \in damaged : r.y + r.h <= d[2] + 1
  BY <1>3 DEF Tight
<1>15. a[1] <= m /\ m <= b[1]
  BY <1>5, <1>7, <1>9, <1>10, <1>11, <1>12
<1>16. c[2] <= n /\ n <= d[2]
  BY <1>5, <1>7, <1>9, <1>10, <1>13, <1>14
<1>17. p[1] = m /\ p[2] = n
  BY <1>7
<1> QED
  BY <1>15, <1>16, <1>17

-----------------------------------------------------------------------------
LEMMA InitHolds == Init => Typed /\ Tracked
<1> SUFFICES ASSUME Init PROVE Typed /\ Tracked
  OBVIOUS
<1>1. rects = <<>> /\ damaged = {} /\ Len(<<>>) = 0 /\ MAX_DAMAGE_RECTS \in Nat \ {0}
  BY RegionAssumption DEF Init
<1>2. <<>> \in Seq(Kept) /\ <<>> \in Seq(Good(damaged))
  OBVIOUS
<1> QED
  BY <1>1, <1>2 DEF Typed, Tracked

(* However many rectangles arrive, and whatever wraps, the list keeps its    *)
(* bound, its rectangles stay within i32 and none of them is empty.          *)
THEOREM TypeCorrect == Spec => []TypeOK
<1>1. Init => Typed
  BY InitHolds
<1>2. Typed /\ [Next]_vars => Typed'
  BY NextTyped
<1>3. Typed => TypeOK
  BY TypedIs
<1> QED
  BY <1>1, <1>2, <1>3, PTL DEF Spec

LEMMA Invariant ==
  ASSUME BoxesFit
  PROVE  Spec => [](Typed /\ Tracked)
<1>1. Typed /\ Tracked /\ [Next]_vars => (Typed /\ Tracked)'
  BY NextTyped, NextTracked
<1> QED
  BY <1>1, InitHolds, PTL DEF Spec

(* If every box between extents fits i32, then whatever clients declare, and *)
(* however often the list coalesces: no damaged pixel of the frame is left   *)
(* as it was.                                                                *)
THEOREM NoneLost ==
  ASSUME BoxesFit
  PROVE  Spec => []NoDamageIsLost
<1>1. Typed /\ Tracked => NoDamageIsLost
  BY NoneIsLost
<1> QED
  BY <1>1, Invariant, PTL

(* And under the same condition nothing is repainted outside the box around  *)
(* the damage.                                                               *)
THEOREM NoneBeyond ==
  ASSUME BoxesFit
  PROVE  Spec => []NothingBeyondTheBox
<1>1. Typed /\ Tracked => NothingBeyondTheBox
  BY NoneIsBeyond
<1> QED
  BY <1>1, Invariant, PTL
=============================================================================
