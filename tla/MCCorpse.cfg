\* A clipboard whose owner has no window left disconnects.
CONSTANTS
  k1 = k1
  k2 = k2
  d1 = d1
  d2 = d2
  d3 = d3
  Client <- TwoClients
  Surface <- ThreeWindows
  Source <- ThreeSources
  Owner <- Ownership
  NoClient = NoClient
  NoSurface = NoSurface
  NoSource = NoSource
SPECIFICATION Spec
INVARIANT NoOfferFromTheDeparted
CHECK_DEADLOCK FALSE
