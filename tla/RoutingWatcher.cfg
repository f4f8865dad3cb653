SPECIFICATION RoutingFairSpec
CONSTANTS
  StreamIds = {1, 2}
  KindsOf <- MCKindsOf
  Outputs = {1, 2}
  OutputApp <- MCOutputApp
  MaxFaults = 1
INVARIANTS ActiveIsJournaled ChannelsStayLinked
PROPERTIES RecoveryEnds OneRouteAtATime ReleasedWhenRestored
