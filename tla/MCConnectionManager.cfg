CONSTANTS
  is1 = is1
  is2 = is2
  p1 = p1
  p2 = p2
  finder = finder
  eventViewer = eventViewer
  InputSources <- MCInputSources
  PrefValues <- MCPrefValues
  Apps <- MCApps
  EventViewerIds <- MCEventViewerIds
  MaxEnvSteps = 5
SPECIFICATION Spec
INVARIANT GrabberToldInputSource
INVARIANT GrabberToldPreferences
PROPERTY PartsFollowConsoleUser
CHECK_DEADLOCK FALSE
