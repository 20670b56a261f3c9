\* One client's window with two synchronized subsurfaces, siblings or nested.
CONSTANTS
  Surface <- ThreeSurfaces
  NoSurface = NoSurface
  NoPixels = NoPixels
  Nothing = Nothing
  Colour = {"red", "blue", "glass"}
  Translucent = {"glass"}
  Output <- Cells3
  MAX_SUBSURFACE_DEPTH = 3
  Client = {k1}
  Windows = {0}
  Buffers <- TreeContents
  Damages <- FirstCell
  Locations = {0, 1}
  Origins <- NoGeometry
  Requests = {"restack", "move"}
  CASCADE_ORIGIN = 0
  CASCADE_STEP = 1
  CASCADE_WRAP = 2
  MaxToplevels = 2
SPECIFICATION TreeSpec
INVARIANTS StaleOnlyWhereExposed DrawnIsRoutable
