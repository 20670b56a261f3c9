\* A flooding client and a well-behaved one.
CONSTANTS
  flooder = flooder
  mate = mate
  NoClient = NoClient
  Client = {flooder, mate}
  WithSubsurface = {flooder}
  MAX_PENDING_FRAME_CALLBACKS = 2
  RESUME_PENDING_FRAME_CALLBACKS = 1
  SocketSize = 1
  FastWriter = FALSE
  MaxRequests <- FloodAndTrickle
  Leaving = {flooder}
SPECIFICATION Spec
INVARIANTS TypeOK ParkedExactlyOverTheLimit BacklogIsBounded EachCallbackOnce
INVARIANTS NoFrameLeavesACallback NoDoneBeforeItsCommit
PROPERTIES EveryRequestIsRead EveryCallbackIsAnswered TheDepartedAreForgotten
