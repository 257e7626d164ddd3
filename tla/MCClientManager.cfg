CONSTANTS
  MaxCalls = 3
  MaxServerFlips = 3
SPECIFICATION Spec
INVARIANT ClientOnlyWhileEnabled
PROPERTY Reconnects ImplementsReconnectingLink
CHECK_DEADLOCK FALSE
