\* Two clients' windows and sources: every way either goes away.
CONSTANTS
  k1 = k1
  k2 = k2
  d1 = d1
  d2 = d2
  d3 = d3
  Client <- TwoClients
  Surface <- ThreeWindows
  Source <- ThreeSources
  Owner <- Ownership
  NoClient = NoClient
  NoSurface = NoSurface
  NoSource = NoSource
SPECIFICATION Spec
INVARIANTS TypeOK ClipboardFollowsTheKeyboard OfferIsAlive
CHECK_DEADLOCK FALSE
