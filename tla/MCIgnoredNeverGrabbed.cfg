CONSTANTS
  d1 = d1
  d2 = d2
  NoDevice = NoDevice
  NoKey = NoKey
  Devices <- MCDevices
  PointingDevices <- MCPointingDevices
  InputKeys <- MCInputKeys
  Keys <- MCKeys
  Modifiers <- MCModifiers
  PointingButtons <- MCPointingButtons
  Profiles <- MCProfiles
  Threshold = 1
  MaxTime = 2
  MaxKeyActions = 2

SPECIFICATION Spec

INVARIANT IgnoredNeverGrabbed
CHECK_DEADLOCK FALSE
