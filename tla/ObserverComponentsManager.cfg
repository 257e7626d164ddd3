CONSTANTS
  MaxCalls = 0
  MaxServerFlips = 4
SPECIFICATION Spec
INVARIANT DeviceObserverFollowsConnection
PROPERTY DeviceObserverSettles
CHECK_DEADLOCK FALSE
