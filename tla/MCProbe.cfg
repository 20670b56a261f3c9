\* A machine with a connector that fails the probe.
CONSTANTS
  MillihertzPerKilohertz = 1000
  MaxRate = 100000
  NoSelection = NoSelection
  Machines <- OneOrTwoDevices
  Client = {k1}
  NoDevice = NoDevice
  NotBound = NotBound
  Failure = Failure
  Placeholder <- PlaceholderMode
  OUTPUT_REFRESH_MHZ = 60
SPECIFICATION Spec
INVARIANT ProbeFailureIsNotFatal
CHECK_DEADLOCK FALSE
