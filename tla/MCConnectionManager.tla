------------------------- MODULE MCConnectionManager -------------------------
(***************************************************************************)
(* connection_manager for TLC: two input sources, two preference values,  *)
(* an ordinary application and the EventViewer.                          *)
(***************************************************************************)
EXTENDS ConnectionManager

CONSTANTS is1, is2, p1, p2, finder, eventViewer

MCInputSources == {is1, is2}
MCPrefValues == {p1, p2}
MCApps == {finder, eventViewer}
MCEventViewerIds == {eventViewer}

\* Once no input source notification is queued, a grabber_client that has
\* an input_source_observer beside it knows the selected input source:
\* a new client learns it from the new observer's constructor, which runs
\* only because release() dropped the old observer together with the old
\* client, and later selections reach it through the notification.
GrabberToldInputSource ==
  ("grabber_client" \in parts /\ "input_source_observer" \in parts /\ ~isPending)
    => told.inputSource = inputSource

\* Once system_preferences_monitor's values_ hold the current preferences
\* and no callback is in flight, the current grabber_client has been told
\* them: values_ suppress a callback only for values this client got,
\* because a monitor dies with the client it reports to.
GrabberToldPreferences ==
  ("grabber_client" \in parts /\ "system_preferences_monitor" \in parts
     /\ spValues = prefs /\ spCall = NoCall)
    => told.prefs = prefs

\* The timer converges: once the console stops changing hands and the
\* grabber stops restarting, every member exists while this user owns the
\* console and none otherwise.
PartsFollowConsoleUser ==
  <>[](parts = IF consoleUser THEN AllParts ELSE {})

\* No callback reaches a grabber_client after release() destroyed it.
NoCallIntoReleasedClient == ~freedUse

=============================================================================
