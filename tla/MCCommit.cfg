\* The frame cycle under failures, VT switches and shutdown.
CONSTANTS
  LateEvents = FALSE
  Foreign = Foreign
  NoFlip = NoFlip
  MaxVersion = 2
  MaxFailures = 2
  MaxSwitches = 2
SPECIFICATION FairSpec
INVARIANTS TypeOK OneFrameInFlight BufferIsRecycled NoFrameWhileFlipping BeliefMatchesKernel
PROPERTIES ImplementsDisplay NeverWritesTheScannedBuffer ScreenCatchesUp ShutdownEndsBoth
CHECK_DEADLOCK FALSE
