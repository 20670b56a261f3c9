\* Two clients' windows: mapping, stacking, every way a window goes away.
CONSTANTS
  Surface <- TwoSurfaces
  NoSurface = NoSurface
  NoPixels = NoPixels
  Nothing = Nothing
  Colour = {"red", "blue", "glass"}
  Translucent = {"glass"}
  Output <- Cells2
  MAX_SUBSURFACE_DEPTH = 3
  Client = {k1, k2}
  Windows = {0, 1}
  Buffers <- TwoFormats
  Damages <- FirstCell
  Locations = {0}
  Origins <- OfSurface1
  Requests = {"geometry", "desync", "unsubsurface", "untoplevel", "destroy", "disconnect", "repaint"}
  CASCADE_ORIGIN = 0
  CASCADE_STEP = 1
  CASCADE_WRAP = 2
  MaxToplevels = 2
SPECIFICATION Spec
INVARIANTS TypeOK StaleOnlyWhereExposed FocusIsTopmostWindow
SYMMETRY Clients
