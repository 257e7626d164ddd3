-------------------------- MODULE ConnectionManager --------------------------
(***************************************************************************)
(* console_user_server's connection_manager                              *)
(* (src/core/console_user_server/include/connection_manager.hpp) with the *)
(* two monitors it creates whose code is in the repository:              *)
(* input_source_observer (src/share/input_source_observer.hpp) and        *)
(* system_preferences_monitor (src/share/system_preferences_monitor.hpp). *)
(*                                                                         *)
(* A one-second timer on the main queue creates, while this user owns the *)
(* console, the receiver, the grabber_client, the configuration_manager   *)
(* and the three observers, in that order, each only if missing; an       *)
(* exception from a constructor, another console user, or the grabber's  *)
(* "is launched" notification releases all of them.  The observers       *)
(* forward what they see to the grabber_client, which is reduced to what  *)
(* it has been told.                                                       *)
(*                                                                         *)
(* system_preferences_monitor's timer handler runs on the monitor's own   *)
(* queue_, not on the main queue: its callback into                       *)
(* system_preferences_updated_callback tests grabber_client_ and then     *)
(* calls it, two steps that the main queue's release() can separate.      *)
(* frontmost_application_observer is not in the repository in the form   *)
(* connection_manager uses; it is modelled from the spec as a callback on *)
(* the main queue.                                                         *)
(***************************************************************************)
EXTENDS Integers, FiniteSets

CONSTANTS
  InputSources,     \* input sources the user may select
  PrefValues,       \* system_preferences::values the user may set
  Apps,             \* frontmost applications, the EventViewer ids included
  EventViewerIds,   \* "org.pqrs.Karabiner.EventViewer" and its variant
  MaxEnvSteps       \* bound on the environment's steps (all kinds)

None == "none"

\* The members connection_manager creates, in the order the timer creates
\* them.
PartOrder == <<"receiver", "grabber_client", "configuration_manager",
               "system_preferences_monitor", "frontmost_application_observer",
               "input_source_observer">>
AllParts == {PartOrder[i] : i \in 1..6}

VARIABLES
  consoleUser,  \* session::get_current_console_user_id() == getuid()
  parts,        \* the members that are not null
  client,       \* serial number of the current grabber_client_ object
  inputSource,  \* the selected keyboard input source
  isPending,    \* a kTISNotifySelectedKeyboardInputSourceChanged is queued
  prefs,        \* the system preferences
  spValues,     \* system_preferences_monitor::values_ (None: unset)
  spCall,       \* a handler between its grabber_client_ test and its call
  frontmost,    \* the frontmost application
  told,         \* what the current grabber_client has been told
  freedUse,     \* a callback has used a grabber_client after its release
  envSteps      \* environment steps so far

vars == <<consoleUser, parts, client, inputSource, isPending, prefs, spValues,
          spCall, frontmost, told, freedUse, envSteps>>

\* No handler is between its test and its call (client serials start at 1).
NoCall == [client |-> 0, prefs |-> None]

NothingTold == [inputSource |-> None, prefs |-> None, app |-> None]

Init ==
  /\ consoleUser \in BOOLEAN
  /\ parts = {}
  /\ client = 0
  /\ inputSource \in InputSources
  /\ isPending = FALSE
  /\ prefs \in PrefValues
  /\ spValues = None
  /\ spCall = NoCall
  /\ frontmost \in Apps \ EventViewerIds
  /\ told = NothingTold
  /\ freedUse = FALSE
  /\ envSteps = 0

\* input_source_changed_callback: tell grabber_client_, if there is one.
TellInputSource(t, p, is) ==
  IF "grabber_client" \in p THEN [t EXCEPT !.inputSource = is] ELSE t

-----------------------------------------------------------------------------
(* release() and the state that belongs to the objects it destroys.        *)

\* Mutant: release() forgets input_source_observer_.
ReleasedKeepingInputSourceObserver(p) == p \cap {"input_source_observer"}

\* Mutant: release() forgets system_preferences_monitor_.
ReleasedKeepingSystemPreferencesMonitor(p) == p \cap {"system_preferences_monitor"}

\* Mutant: release() forgets grabber_client_.
ReleasedKeepingGrabberClient(p) == p \cap {"grabber_client"}

\* release(): every member is reset.
Released(p) == {}

\* What goes with the objects that are gone: the observer's queued
\* notification, the monitor's values_, the client's knowledge.
AfterParts(p) ==
  /\ parts' = p
  /\ isPending' = (isPending /\ "input_source_observer" \in p)
  /\ spValues' = IF "system_preferences_monitor" \in p THEN spValues ELSE None
  /\ told' = IF "grabber_client" \in p THEN told ELSE NothingTold

Release ==
  /\ AfterParts(Released(parts))
  /\ UNCHANGED client

\* The timer's try block when no constructor throws: create what is
\* missing, in order.  A new grabber_client has been told nothing; a new
\* input_source_observer's constructor reports the current input source
\* to it; a new system_preferences_monitor starts with values_ unset.
CreateMissing ==
  LET newClient == "grabber_client" \notin parts
      told0     == IF newClient THEN NothingTold ELSE told
  IN /\ parts' = AllParts
     /\ client' = IF newClient THEN client + 1 ELSE client
     /\ isPending' = isPending
     /\ spValues' = IF "system_preferences_monitor" \in parts THEN spValues ELSE None
     /\ told' = IF "input_source_observer" \in parts THEN told0
                ELSE TellInputSource(told0, AllParts, inputSource)

-----------------------------------------------------------------------------
(* Actions of the main queue. *)

\* The main-queue timer (lines 33-78).  `throws` is the index in PartOrder
\* of a missing member whose constructor throws, or 0; the members built
\* before it are released with the others.
TimerHandler(throws) ==
  /\ IF consoleUser /\ throws = 0
     THEN CreateMissing
     ELSE Release
  /\ throws # 0 => /\ consoleUser
                   /\ PartOrder[throws] \notin parts
                   /\ envSteps < MaxEnvSteps
  /\ envSteps' = IF throws = 0 THEN envSteps ELSE envSteps + 1
  /\ UNCHANGED <<consoleUser, inputSource, prefs, spCall, frontmost, freedUse>>

\* grabber_is_launched_callback: release() synchronously on the main queue.
GrabberIsLaunched ==
  /\ envSteps < MaxEnvSteps
  /\ Release
  /\ envSteps' = envSteps + 1
  /\ UNCHANGED <<consoleUser, inputSource, prefs, spCall, frontmost, freedUse>>

\* input_source_observer delivers the queued notification: its callback
\* reads the current input source and input_source_changed_callback
\* passes it to grabber_client_ if there is one.
InputSourceNotified ==
  /\ isPending
  /\ isPending' = FALSE
  /\ told' = TellInputSource(told, parts, inputSource)
  /\ UNCHANGED <<consoleUser, parts, client, inputSource, prefs, spValues,
                 spCall, frontmost, freedUse, envSteps>>

\* Another application comes to the front.  An existing observer calls
\* frontmost_application_changed_callback: the EventViewer is never
\* reported; otherwise the grabber_client, if any, is told.
FrontmostApplicationChanged(app) ==
  /\ frontmost # app
  /\ envSteps < MaxEnvSteps
  /\ frontmost' = app
  /\ told' = IF /\ "frontmost_application_observer" \in parts
                /\ app \notin EventViewerIds /\ "grabber_client" \in parts
             THEN [told EXCEPT !.app = app] ELSE told
  /\ envSteps' = envSteps + 1
  /\ UNCHANGED <<consoleUser, parts, client, inputSource, isPending, prefs,
                 spValues, spCall, freedUse>>

-----------------------------------------------------------------------------
(* system_preferences_monitor's timer handler, on the monitor's queue.    *)

\* The handler reads the values and, if they differ from values_, stores
\* them and calls back; the callback tests grabber_client_ (line 119).
SystemPreferencesPolled ==
  /\ "system_preferences_monitor" \in parts
  /\ spCall = NoCall
  /\ spValues # prefs
  /\ spValues' = prefs
  /\ spCall' = IF "grabber_client" \in parts
               THEN [client |-> client, prefs |-> prefs] ELSE NoCall
  /\ UNCHANGED <<consoleUser, parts, client, inputSource, isPending, prefs,
                 frontmost, told, freedUse, envSteps>>

\* The callback calls grabber_client_->system_preferences_updated (line
\* 120) on the object it tested, which may have been released since.
SystemPreferencesDelivered ==
  /\ spCall # NoCall
  /\ spCall' = NoCall
  /\ IF "grabber_client" \in parts /\ client = spCall.client
     THEN told' = [told EXCEPT !.prefs = spCall.prefs] /\ UNCHANGED freedUse
     ELSE freedUse' = TRUE /\ UNCHANGED told
  /\ UNCHANGED <<consoleUser, parts, client, inputSource, isPending, prefs,
                 spValues, frontmost, envSteps>>

-----------------------------------------------------------------------------
(* The environment. *)

\* Fast user switching moves the console to or from this user.
ConsoleUserSwitched ==
  /\ envSteps < MaxEnvSteps
  /\ consoleUser' = ~consoleUser
  /\ envSteps' = envSteps + 1
  /\ UNCHANGED <<parts, client, inputSource, isPending, prefs, spValues,
                 spCall, frontmost, told, freedUse>>

\* The user selects another input source; an existing observer is notified.
InputSourceSelected(is) ==
  /\ envSteps < MaxEnvSteps
  /\ inputSource # is
  /\ inputSource' = is
  /\ isPending' = (isPending \/ "input_source_observer" \in parts)
  /\ envSteps' = envSteps + 1
  /\ UNCHANGED <<consoleUser, parts, client, prefs, spValues, spCall,
                 frontmost, told, freedUse>>

\* The user changes the system preferences.
PreferencesChanged(v) ==
  /\ envSteps < MaxEnvSteps
  /\ prefs # v
  /\ prefs' = v
  /\ envSteps' = envSteps + 1
  /\ UNCHANGED <<consoleUser, parts, client, inputSource, isPending,
                 spValues, spCall, frontmost, told, freedUse>>

Next ==
  \/ \E i \in 0..6 : TimerHandler(i)
  \/ GrabberIsLaunched
  \/ InputSourceNotified
  \/ \E app \in Apps : FrontmostApplicationChanged(app)
  \/ SystemPreferencesPolled
  \/ SystemPreferencesDelivered
  \/ ConsoleUserSwitched
  \/ \E is \in InputSources : InputSourceSelected(is)
  \/ \E v \in PrefValues : PreferencesChanged(v)

\* The main-queue timer repeats every second, notifications are delivered,
\* and the monitor's timer repeats; the user and the grabber are not fair.
Fairness ==
  /\ WF_vars(TimerHandler(0))
  /\ WF_vars(InputSourceNotified)
  /\ WF_vars(SystemPreferencesPolled)
  /\ WF_vars(SystemPreferencesDelivered)

Spec == Init /\ [][Next]_vars /\ Fairness

=============================================================================
