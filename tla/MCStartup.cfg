\* Starting and stopping on machines of every kind, with a client.
CONSTANTS
  MillihertzPerKilohertz = 1000
  MaxRate = 100000
  NoSelection = NoSelection
  Machines <- OneOrTwoDevices
  Client = {k1}
  NoDevice = NoDevice
  NotBound = NotBound
  Failure = Failure
  Placeholder <- PlaceholderMode
  OUTPUT_REFRESH_MHZ = 60
SPECIFICATION FairSpec
INVARIANTS TypeOK FirstUsableIsDriven AdvertisedIsDriven ScreenIsGivenBack
PROPERTIES ClientsLearnTheMode RunReturns
CHECK_DEADLOCK FALSE
