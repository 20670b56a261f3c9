\* The same tree: input reaches surfaces that are not drawn.
CONSTANTS
  Surface <- ThreeSurfaces
  NoSurface = NoSurface
  NoPixels = NoPixels
  Nothing = Nothing
  Colour = {"red", "blue", "glass"}
  Translucent = {"glass"}
  Output <- Cells3
  MAX_SUBSURFACE_DEPTH = 3
  Client = {k1}
  Windows = {0}
  Buffers <- TreeBuffers
  Damages <- WholeSurface
  Locations = {0, 1}
  Origins <- NoGeometry
  Requests = {"move", "restack"}
  CASCADE_ORIGIN = 0
  CASCADE_STEP = 1
  CASCADE_WRAP = 2
  MaxToplevels = 2
SPECIFICATION TreeSpec
INVARIANT ClickLandsOnWhatIsSeen
