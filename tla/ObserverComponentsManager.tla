---------------------- MODULE ObserverComponentsManager ----------------------
(***************************************************************************)
(* The observer's components_manager (src/core/observer/include/          *)
(* components_manager.hpp) and the client_manager of its grabber_client,  *)
(* on one shared dispatcher.                                              *)
(*                                                                         *)
(* The constructor enqueues async_start_grabber_client; that task creates *)
(* the grabber_client, connects its signals and calls async_start.  The   *)
(* device_observer exists while the grabber is reachable: it is started  *)
(* on connected and stopped on connect_failed and closed.  grabber_client *)
(* is not in the repository: it wraps a client_manager and re-emits its   *)
(* signals (spec).  The version monitor's manual checks are not modelled. *)
(***************************************************************************)
EXTENDS ClientManager

VARIABLES
  grabberClient,    \* grabber_client_ exists
  deviceObserver    \* device_observer_ exists

vars == <<cm, server, calls, flips, grabberClient, deviceObserver>>

\* The components_manager's own task.
StartGrabberClientTask == Task("async_start_grabber_client")

Init ==
  /\ cm = Enqueue(NewClientManager, StartGrabberClientTask)
  /\ server \in BOOLEAN
  /\ calls = 0
  /\ flips = 0
  /\ grabberClient = FALSE
  /\ deviceObserver = FALSE

\* async_start_grabber_client's task: nothing if the client exists;
\* otherwise create it and call its async_start().
AsyncStartGrabberClient ==
  /\ cm.queue # <<>>
  /\ Head1(cm) = StartGrabberClientTask
  /\ IF grabberClient
     THEN cm' = Pop(cm) /\ UNCHANGED grabberClient
     ELSE /\ grabberClient' = TRUE
          /\ cm' = Enqueue(Pop(cm), Task("async_start"))
  /\ UNCHANGED <<server, calls, flips, deviceObserver>>

\* start_device_observer / stop_device_observer.
StartDeviceObserver(obs) == TRUE
StopDeviceObserver(obs) == FALSE

\* Mutant: the closed handler leaves the device observer running.
OnGrabberClientSignalKeepingObserverOnClose(sig, obs) ==
  CASE sig = "connected"      -> StartDeviceObserver(obs)
    [] sig = "connect_failed" -> StopDeviceObserver(obs)
    [] sig = "closed"         -> obs

\* The handlers connected to the grabber_client's signals.
OnGrabberClientSignal(sig, obs) ==
  CASE sig = "connected"      -> StartDeviceObserver(obs)
    [] sig = "connect_failed" -> StopDeviceObserver(obs)
    [] sig = "closed"         -> StopDeviceObserver(obs)

\* The client_manager's forwarded signal reaches the handlers.
EmitSignal ==
  /\ cm.queue # <<>>
  /\ Head1(cm).kind = "signal"
  /\ cm' = Pop(cm)
  /\ deviceObserver' = OnGrabberClientSignal(Head1(cm).arg, deviceObserver)
  /\ UNCHANGED <<server, calls, flips, grabberClient>>

Manager(A) == A /\ UNCHANGED <<grabberClient, deviceObserver>>

Next ==
  \/ AsyncStartGrabberClient \/ EmitSignal
  \/ Manager(Dispatch) \/ Manager(DelayedDue)
  \/ Manager(ClientStep) \/ Manager(ServerFlip)

\* The dispatcher runs its tasks and timers; the client's attempts and
\* server checks end.  The grabber comes and goes as it likes.
Fairness ==
  /\ WF_vars(AsyncStartGrabberClient) /\ WF_vars(EmitSignal)
  /\ WF_vars(Manager(Dispatch)) /\ WF_vars(Manager(DelayedDue))
  /\ WF_vars(Manager(ClientStep))

Spec == Init /\ [][Next]_vars /\ Fairness

-----------------------------------------------------------------------------

\* Once the dispatcher has nothing left to run, the device observer runs
\* exactly when the grabber_client is connected: every connect, failure
\* and close, however they interleave with reconnect timers, has reached
\* the handlers in the order it happened.
DeviceObserverFollowsConnection ==
  cm.queue = <<>> => (deviceObserver <=> cm.client = "connected")

\* Whatever the grabber did, once it stops coming and going the device
\* observer ends up running exactly when the grabber is up.
DeviceObserverSettles ==
  <>[](deviceObserver <=> server)

=============================================================================
