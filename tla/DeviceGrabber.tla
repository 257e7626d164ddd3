---------------------------- MODULE DeviceGrabber ----------------------------
(***************************************************************************)
(* device_grabber (src/core/grabber/include/device_grabber.hpp): the      *)
(* grabber process.  It matches keyboards and mice, seizes ("grabs") them *)
(* while it is in grabbing mode and the virtual HID keyboard is ready,    *)
(* feeds their key events into the four-stage manipulator pipeline       *)
(*   merged -> simple_modifications -> complex_modifications             *)
(*          -> fn_function_keys -> post_event_to_virtual_devices         *)
(* and re-drives the pipeline from the manipulator timer.                 *)
(*                                                                         *)
(* human_interface_device's grab()/ungrab() with its retry timer and the  *)
(* virtual_hid_device_client are not in the repository in the form       *)
(* device_grabber calls them; they are modelled from the spec and marked  *)
(* as such in PROJECT.json.                                                *)
(***************************************************************************)
EXTENDS Integers, Sequences, FiniteSets, ManipulatorManagersConnector

CONSTANTS
  Devices,          \* physical keyboards and mice that may be matched
  PointingDevices,  \* the devices that conform to pointer or mouse usage
  NoDevice,         \* device_id(0), the origin of system events
  InputKeys,        \* key codes a physical device can send
  Keys,             \* every key code an event may carry
  Profiles,         \* profiles the configuration file may select
  MaxTime,          \* bound on the clock (mach_absolute_time)
  MaxKeyActions     \* bound on physical key presses and releases

ASSUME Threshold \in Nat /\ MaxTime \in Nat /\ MaxKeyActions \in Nat

VARIABLES
  mode,         \* mode_: "observing" or "grabbing"
  suspended,    \* suspended_
  configured,   \* configuration_monitor_ exists (its callback may run)
  coreConfiguration, \* core_configuration_'s selected profile (EmptyProfile
                     \* while none is loaded); never reset once loaded
  profile,      \* profile_, the profile set_profile installed
  hids,         \* devices in hids_
  grabbed,      \* devices seized by their human_interface_device
  grabPending,  \* devices whose grab() keeps retrying
  phys,         \* phys[d]: keys physically held on device d
  repeating,    \* repeating_key_ of d's human_interface_device
  osPressed,    \* keys of d the OS saw pressed while d was not seized
  vhid,         \* virtual_hid_device_client_: closed/connecting/connected
  kbReady,      \* is_virtual_hid_keyboard_ready()
  vPointing,    \* the virtual pointing device is initialized
  pipeline,     \* the manipulator managers and their queues
  locked,       \* manipulate_mutex_ is held by a pass
  timerDue,     \* due time of manipulator_timer_id_, or NoTimer
  clock,        \* mach_absolute_time()
  keyActions    \* physical key presses and releases so far

vars == <<mode, suspended, configured, coreConfiguration, profile, hids, grabbed, grabPending,
          phys, repeating, osPressed, vhid, kbReady, vPointing, pipeline,
          locked, timerDue, clock, keyActions>>

\* Stage numbers, in the order the constructor connects them.
SimpleStage  == 1
ComplexStage == 2
FnStage      == 3
PostStage    == 4

NoTimer == -1

\* The profile of a default-constructed core_configuration::profile.
EmptyProfile ==
  [devSimple |-> <<>>, simple |-> <<>>, complex |-> <<>>, fn |-> <<>>,
   ignore |-> {}]

\* The constructor: empty queues, the post manipulator in the last stage.
InitPipeline ==
  [ms |-> <<<<>>, <<>>, <<>>, <<Post>>>>,
   q  |-> [k \in 0..PostStage |-> EmptyQueue]]

\* What post_event_to_virtual_devices holds down on the virtual keyboard.
\* (None once the sink has been collected.)
VirtualPressed ==
  IF pipeline.ms[PostStage] = <<>> THEN {} ELSE pipeline.ms[PostStage][1].pressed

(***************************************************************************)
(* manipulate(now) and the event posting around it.  A "pt" record holds  *)
(* the pipeline and the timer: [p, timerDue].                             *)
(***************************************************************************)

\* The lock block: drive every stage, then clear the posted queue.
ClearPosted(p) == [p EXCEPT !.q[PostStage] = ClearEvents(@)]

RunPass(p, now) == ClearPosted(ConnectorManipulate(p, now))

\* Mutant: the timer is not re-armed after the lock block.
RegisterTimerNotRearmed(p, due) == due

\* After the lock block: register the earliest front time stamp, if any.
RegisterTimer(p, due) ==
  IF HasMinInputEventTimeStamp(p) THEN MinInputEventTimeStamp(p) ELSE due

\* A whole manipulate(now) call made while the mutex is free.
WithTimer(p, due) == [p |-> p, timerDue |-> RegisterTimer(p, due)]

ManipulateCall(pt, now) == WithTimer(RunPass(pt.p, now), pt.timerDue)

\* Push an event onto merged_input_event_queue_.
PushMerged(p, e) == [p EXCEPT !.q[0] = PushBackEvent(@, e)]

\* post_device_ungrabbed_event: push, then input_event_arrived().
PostDeviceUngrabbedEvent(pt, d, now) ==
  ManipulateCall([pt EXCEPT !.p = PushMerged(@, ControlEvent(d, "device_ungrabbed", now))],
                 now)


(***************************************************************************)
(* Grabbing.  An "st" record holds what ungrab and grab change:          *)
(* [grabbed, pending, pt].                                                 *)
(***************************************************************************)

CurrentSt == [grabbed |-> grabbed, pending |-> grabPending,
              pt |-> [p |-> pipeline, timerDue |-> timerDue]]

ApplySt(st) ==
  /\ grabbed' = st.grabbed
  /\ grabPending' = st.pending
  /\ pipeline' = st.pt.p
  /\ timerDue' = st.pt.timerDue

\* is_ignored_device: the selected profile's "ignore" flag for the device;
\* FALSE while no configuration is loaded (the empty profile ignores none).
IsIgnoredDevice(d, prof) == d \in prof.ignore

\* Mutant: the callback consults only the ignore flag.
IsGrabbableCallbackIgnoringVhid(d, prof, vh, ready) ==
  IF IsIgnoredDevice(d, prof) THEN "ungrabbable_permanently" ELSE "grabbable"

\* is_grabbable_callback, given the profile, the virtual HID client state
\* and keyboard readiness the caller sees.  The exception for an ignored
\* built-in keyboard that must be disabled is not modelled (see README).
IsGrabbableCallback(d, prof, vh, ready) ==
  CASE IsIgnoredDevice(d, prof) -> "ungrabbable_permanently"
    [] vh # "connected"  -> "ungrabbable_temporarily"
    [] ~ready            -> "ungrabbable_temporarily"
    [] OTHER             -> "grabbable"

\* human_interface_device::is_grabbable: not while a key repeats or a
\* button is held, otherwise what the callback says.
IsGrabbable(d, prof, vh, ready) ==
  CASE repeating[d] # NoKey                -> "ungrabbable_temporarily"
    [] phys[d] \cap PointingButtons # {}   -> "ungrabbable_temporarily"
    [] OTHER                               -> IsGrabbableCallback(d, prof, vh, ready)

\* human_interface_device::grab: start the grab retry unless seized.
HidGrab(st, d) ==
  IF d \in st.grabbed THEN st ELSE [st EXCEPT !.pending = @ \cup {d}]

\* human_interface_device::ungrab: stop retrying; a seized device is
\* released and ungrabbed_callback posts device_ungrabbed.
HidUngrab(st, d, now) ==
  IF d \in st.grabbed
  THEN [st EXCEPT !.grabbed = @ \ {d}, !.pending = @ \ {d},
                  !.pt = PostDeviceUngrabbedEvent(@, d, now)]
  ELSE [st EXCEPT !.pending = @ \ {d}]

\* ungrab_devices over hids_ in the given iteration order.
RECURSIVE UngrabDevices(_, _, _)
UngrabDevices(order, st, now) ==
  IF order = <<>> THEN st
  ELSE UngrabDevices(Tail(order), HidUngrab(st, Head(order), now), now)

\* grab_devices over hids_ in the given iteration order.
RECURSIVE GrabDevices(_, _, _, _, _, _)
GrabDevices(order, st, prof, vh, ready, now) ==
  IF order = <<>> THEN st
  ELSE LET d == Head(order)
           s2 == IF IsGrabbable(d, prof, vh, ready) = "ungrabbable_permanently"
                 THEN HidUngrab(st, d, now) ELSE HidGrab(st, d)
       IN GrabDevices(Tail(order), s2, prof, vh, ready, now)

\* Iteration orders of the unordered_map hids_.
Orders(S) == SetToSeqs(S)

(***************************************************************************)
(* Profiles.  A profile is a record                                        *)
(*   [devSimple, simple, complex, fn, ignore]                              *)
(* devSimple: per-device simple modifications, a sequence of               *)
(* [dev, from, to]; simple and fn: sequences of [from, to]; complex: the  *)
(* manipulators of the complex modification rules with their conditions; *)
(* ignore: devices whose "ignore" flag is set.                            *)
(***************************************************************************)

\* make_device_if_condition: a device_if condition whose one identifiers
\* entry (vendor, product, is_keyboard, is_pointing_device) is that of the
\* profile's device entry; it matches that device only.
MakeDeviceIfCondition(dev) == {dev}

\* update_simple_modifications_manipulators: per-device pairs (with a
\* device_if condition) first, then the global pairs.
UpdateSimpleModificationsManipulators(ms, prof) ==
  InvalidateManipulators(ms)
    \o [i \in 1..Len(prof.devSimple) |->
          Basic(prof.devSimple[i].from, prof.devSimple[i].to,
                <<MakeDeviceIfCondition(prof.devSimple[i].dev)>>)]
    \o [i \in 1..Len(prof.simple) |-> Basic(prof.simple[i].from, prof.simple[i].to, <<>>)]

\* update_complex_modifications_manipulators.
UpdateComplexModificationsManipulators(ms, prof) ==
  InvalidateManipulators(ms) \o prof.complex

\* update_fn_function_keys_manipulators.
UpdateFnFunctionKeysManipulators(ms, prof) ==
  InvalidateManipulators(ms)
    \o [i \in 1..Len(prof.fn) |-> Basic(prof.fn[i].from, prof.fn[i].to, <<>>)]

\* set_profile's effect on the pipeline.
SetProfile(p, prof) ==
  [p EXCEPT !.ms[SimpleStage]  = UpdateSimpleModificationsManipulators(@, prof),
            !.ms[ComplexStage] = UpdateComplexModificationsManipulators(@, prof),
            !.ms[FnStage]      = UpdateFnFunctionKeysManipulators(@, prof)]

\* update_virtual_hid_keyboard: initialize the keyboard in grabbing mode,
\* terminate it otherwise; nothing while the client is not connected.
UpdateVirtualHidKeyboard(vh, m, ready) ==
  IF vh = "connected" THEN m = "grabbing" ELSE ready

\* is_pointing_device_grabbed.
IsPointingDeviceGrabbed(seized) == seized \cap PointingDevices # {}

\* Mutant: only the rules' needs_virtual_hid_pointing is consulted.
UpdateVirtualHidPointingForRulesOnly(vh, m, seized, p, cur) ==
  IF vh = "connected"
  THEN m = "grabbing" /\ ConnectorNeedsVirtualHidPointing(p)
  ELSE cur

\* update_virtual_hid_pointing: in grabbing mode, initialize the virtual
\* pointing device while a pointing device is seized or a rule needs it,
\* terminate it otherwise; nothing while the client is not connected.
\* cur is whether it is initialized now, p the pipeline it consults.
UpdateVirtualHidPointing(vh, m, seized, p, cur) ==
  IF vh = "connected"
  THEN m = "grabbing" /\ (IsPointingDeviceGrabbed(seized)
                            \/ ConnectorNeedsVirtualHidPointing(p))
  ELSE cur


(***************************************************************************)
(* The initial state: the constructor, before start_grabbing.             *)
(***************************************************************************)
Init ==
  /\ mode = "observing"
  /\ suspended = FALSE
  /\ configured = FALSE
  /\ coreConfiguration = EmptyProfile
  /\ profile = EmptyProfile
  /\ hids = {}
  /\ grabbed = {}
  /\ grabPending = {}
  /\ phys = [d \in Devices |-> {}]
  /\ repeating = [d \in Devices |-> NoKey]
  /\ osPressed = [d \in Devices |-> {}]
  /\ vhid = "closed"
  /\ kbReady = FALSE
  /\ vPointing = FALSE
  /\ pipeline = InitPipeline
  /\ locked = FALSE
  /\ timerDue = NoTimer
  /\ clock = 0
  /\ keyActions = 0

(***************************************************************************)
(* Input arrival and the manipulate mutex.                                 *)
(***************************************************************************)

\* queue_value_available_callback: repeating_key_ after a key value.
UpdateRepeatingKey(r, k, down) ==
  CASE k \in PointingButtons -> r
    [] down                 -> IF k \in Modifiers THEN NoKey ELSE k
    [] OTHER                -> IF r = k THEN NoKey ELSE r

\* input_event_arrived -> manipulate(now) with the merged queue p1: a free
\* mutex starts a pass (finished by Unlock); a held one makes the call
\* skip the lock block and only register the timer.
InputEventArrived(p1) ==
  \/ /\ ~locked
     /\ pipeline' = RunPass(p1, clock)
     /\ locked' = TRUE
     /\ UNCHANGED timerDue
  \/ /\ locked
     /\ pipeline' = p1
     /\ timerDue' = RegisterTimer(p1, timerDue)
     /\ UNCHANGED locked

\* A key of device d goes down or up: queue_value_available_callback
\* followed by value_callback, which queues the key event of a seized
\* device or an event_from_ignored_device for an observed one.
KeyAction(d, k, down) ==
  /\ d \in hids
  /\ keyActions < MaxKeyActions
  /\ clock + Threshold <= MaxTime
  /\ IF down THEN k \notin phys[d] ELSE k \in phys[d]
  /\ LET held == IF down THEN phys[d] \cup {k} ELSE phys[d] \ {k}
         type == IF down THEN "down" ELSE "up"
         e    == IF d \in grabbed THEN KeyEvent(d, k, type, clock)
                 ELSE ControlEvent(d, "event_from_ignored_device", clock)
     IN /\ phys' = [phys EXCEPT ![d] = held]
        /\ osPressed' = IF d \in grabbed THEN osPressed
                        ELSE [osPressed EXCEPT ![d] =
                                IF down THEN @ \cup {k} ELSE @ \ {k}]
        /\ InputEventArrived(PushMerged(pipeline, e))
  /\ repeating' = [repeating EXCEPT ![d] = UpdateRepeatingKey(@, k, down)]
  /\ keyActions' = keyActions + 1
  /\ UNCHANGED <<mode, suspended, configured, coreConfiguration, profile, hids, grabbed,
                 grabPending, vhid, kbReady, vPointing, clock>>

\* The end of manipulate's lock block: release the mutex and register
\* the earliest pending front time stamp with the manipulator timer.
Unlock ==
  /\ locked
  /\ locked' = FALSE
  /\ timerDue' = RegisterTimer(pipeline, timerDue)
  /\ UNCHANGED <<mode, suspended, configured, coreConfiguration, profile, hids, grabbed,
                 grabPending, phys, repeating, osPressed, vhid, kbReady, vPointing,
                 pipeline, clock, keyActions>>

\* timer_invoked for manipulator_timer_id_: forget the id, manipulate(now).
TimerFire ==
  /\ timerDue # NoTimer
  /\ clock >= timerDue
  /\ \/ /\ ~locked
        /\ pipeline' = RunPass(pipeline, clock)
        /\ locked' = TRUE
        /\ timerDue' = NoTimer
     \/ /\ locked
        /\ timerDue' = RegisterTimer(pipeline, NoTimer)
        /\ UNCHANGED <<pipeline, locked>>
  /\ UNCHANGED <<mode, suspended, configured, coreConfiguration, profile, hids, grabbed,
                 grabPending, phys, repeating, osPressed, vhid, kbReady, vPointing,
                 clock, keyActions>>

\* Time passes.
Tick ==
  /\ clock < MaxTime
  /\ clock' = clock + 1
  /\ UNCHANGED <<mode, suspended, configured, coreConfiguration, profile, hids, grabbed,
                 grabPending, phys, repeating, osPressed, vhid, kbReady, vPointing,
                 pipeline, locked, timerDue, keyActions>>


(***************************************************************************)
(* Operations run on the main queue.  None of them can run in the middle  *)
(* of a manipulate pass, so each requires the mutex to be free, and a     *)
(* manipulate call inside one (through post_device_ungrabbed_event) is    *)
(* a whole call.                                                           *)
(***************************************************************************)

\* start_grabbing: grabbing mode, a configuration_monitor whose callback
\* will load the profile, and a connection attempt to the driver.
StartGrabbing ==
  /\ ~locked
  /\ mode' = "grabbing"
  /\ configured' = TRUE
  /\ vhid' = IF vhid = "closed" THEN "connecting" ELSE vhid
  /\ UNCHANGED <<suspended, coreConfiguration, profile, hids, grabbed, grabPending, phys,
                 repeating, osPressed, kbReady, vPointing, pipeline, locked, timerDue,
                 clock, keyActions>>

\* The configuration_monitor callback: set_profile (rebuild the
\* manipulators, update the virtual keyboard and pointing device), then
\* grab_devices.
ConfigurationLoaded(pr) ==
  /\ ~locked
  /\ configured
  /\ coreConfiguration' = pr
  /\ profile' = pr
  /\ LET ready == UpdateVirtualHidKeyboard(vhid, mode, kbReady)
         st0   == [CurrentSt EXCEPT !.pt.p = SetProfile(@, pr)]
     IN /\ kbReady' = ready
        /\ vPointing' = UpdateVirtualHidPointing(vhid, mode, grabbed, st0.pt.p, vPointing)
        /\ \E order \in Orders(hids) :
             ApplySt(GrabDevices(order, st0, pr, vhid, ready, clock))
  /\ UNCHANGED <<mode, suspended, configured, hids, phys, repeating,
                 osPressed, vhid, locked, clock, keyActions>>

\* stop_grabbing: drop the monitor, ungrab_devices, observing mode, close
\* the driver client (which takes the virtual devices with it).
StopGrabbingSteps ==
  /\ configured' = FALSE
  /\ \E order \in Orders(hids) : ApplySt(UngrabDevices(order, CurrentSt, clock))
  /\ mode' = "observing"
  /\ vhid' = "closed"
  /\ kbReady' = FALSE
  /\ vPointing' = FALSE

StopGrabbing ==
  /\ ~locked
  /\ StopGrabbingSteps
  /\ UNCHANGED <<suspended, coreConfiguration, profile, hids, phys, repeating, osPressed,
                 locked, clock, keyActions>>

\* suspend: ungrab everything if grabbing.
Suspend ==
  /\ ~locked
  /\ ~suspended
  /\ suspended' = TRUE
  /\ \E order \in Orders(hids) :
       ApplySt(IF mode = "grabbing" THEN UngrabDevices(order, CurrentSt, clock)
                                    ELSE CurrentSt)
  /\ UNCHANGED <<mode, configured, coreConfiguration, profile, hids, phys, repeating, osPressed,
                 vhid, kbReady, vPointing, locked, clock, keyActions>>

\* resume: grab everything again if grabbing.
Resume ==
  /\ ~locked
  /\ suspended
  /\ suspended' = FALSE
  /\ \E order \in Orders(hids) :
       ApplySt(IF mode = "grabbing"
               THEN GrabDevices(order, CurrentSt, coreConfiguration, vhid, kbReady, clock)
               ELSE CurrentSt)
  /\ UNCHANGED <<mode, configured, coreConfiguration, profile, hids, phys, repeating, osPressed,
                 vhid, kbReady, vPointing, locked, clock, keyActions>>

\* client_connected: update_virtual_hid_keyboard, then
\* update_virtual_hid_pointing.
VhidConnected ==
  /\ ~locked
  /\ vhid = "connecting"
  /\ vhid' = "connected"
  /\ kbReady' = UpdateVirtualHidKeyboard("connected", mode, kbReady)
  /\ vPointing' = UpdateVirtualHidPointing("connected", mode, grabbed, pipeline, vPointing)
  /\ UNCHANGED <<mode, suspended, configured, coreConfiguration, profile, hids, grabbed,
                 grabPending, phys, repeating, osPressed, pipeline, locked,
                 timerDue, clock, keyActions>>

\* client_disconnected: stop_grabbing.
VhidDisconnected ==
  /\ ~locked
  /\ vhid = "connected"
  /\ StopGrabbingSteps
  /\ UNCHANGED <<suspended, coreConfiguration, profile, hids, phys, repeating, osPressed,
                 locked, clock, keyActions>>

\* device_matching_callback for a physical device not yet in hids_:
\* observe it, add it, update_virtual_hid_pointing, and grab_devices when
\* grabbing.
DeviceMatched(d) ==
  /\ ~locked
  /\ d \notin hids
  /\ hids' = hids \cup {d}
  /\ vPointing' = UpdateVirtualHidPointing(vhid, mode, grabbed, pipeline, vPointing)
  /\ \E order \in Orders(hids') :
       ApplySt(IF mode = "grabbing"
               THEN GrabDevices(order, CurrentSt, coreConfiguration, vhid, kbReady, clock)
               ELSE CurrentSt)
  /\ UNCHANGED <<mode, suspended, configured, coreConfiguration, profile, phys, repeating,
                 osPressed, vhid, kbReady, locked, clock, keyActions>>

\* `if (mode_ == mode::grabbing) grab_devices();` after st.
GrabDevicesIfGrabbing(order, st) ==
  IF mode = "grabbing"
  THEN GrabDevices(order, st, coreConfiguration, vhid, kbReady, clock) ELSE st

\* Mutant: the removed device is erased from hids_ without dev->ungrab().
DeviceRemovedWithoutUngrab(d) ==
  /\ ~locked
  /\ d \in hids
  /\ hids' = hids \ {d}
  /\ phys' = [phys EXCEPT ![d] = {}]
  /\ repeating' = [repeating EXCEPT ![d] = NoKey]
  /\ osPressed' = [osPressed EXCEPT ![d] = {}]
  /\ vPointing' = UpdateVirtualHidPointing(vhid, mode, grabbed, pipeline, vPointing)
  /\ \E order \in Orders(hids') : ApplySt(GrabDevicesIfGrabbing(order, CurrentSt))
  /\ UNCHANGED <<mode, suspended, configured, coreConfiguration, profile, vhid, kbReady, locked,
                 clock, keyActions>>

\* device_removal_callback for a physical device: ungrab and erase it
\* (its keys are gone with it), update_virtual_hid_pointing, then
\* grab_devices when grabbing.
DeviceRemoved(d) ==
  /\ ~locked
  /\ d \in hids
  /\ hids' = hids \ {d}
  /\ phys' = [phys EXCEPT ![d] = {}]
  /\ repeating' = [repeating EXCEPT ![d] = NoKey]
  /\ osPressed' = [osPressed EXCEPT ![d] = {}]
  /\ LET st == HidUngrab(CurrentSt, d, clock)
     IN /\ vPointing' = UpdateVirtualHidPointing(vhid, mode, st.grabbed, st.pt.p, vPointing)
        /\ \E order \in Orders(hids') : ApplySt(GrabDevicesIfGrabbing(order, st))
  /\ UNCHANGED <<mode, suspended, configured, coreConfiguration, profile, vhid, kbReady, locked,
                 clock, keyActions>>

\* The trailing grab_devices of the virtual keyboard branch, which sees
\* the client still connecting.
RegrabIfGrabbing(order, st) ==
  IF mode = "grabbing"
  THEN GrabDevices(order, st, coreConfiguration, "connecting", FALSE, clock) ELSE st

\* device_removal_callback for the virtual keyboard: close the client
\* (the virtual devices go with it), ungrab_devices, connect again,
\* grab_devices, update_virtual_hid_pointing (a no-op while connecting),
\* and grab_devices again when grabbing.
VirtualKeyboardRemoved ==
  /\ ~locked
  /\ kbReady
  /\ vhid' = "connecting"
  /\ kbReady' = FALSE
  /\ vPointing' = FALSE
  /\ \E o1, o2, o3 \in Orders(hids) :
       ApplySt(RegrabIfGrabbing(o3,
                 GrabDevices(o2, UngrabDevices(o1, CurrentSt, clock),
                             coreConfiguration, "connecting", FALSE, clock)))
  /\ UNCHANGED <<mode, suspended, configured, coreConfiguration, profile, hids, phys, repeating,
                 osPressed, locked, clock, keyActions>>

\* The grab retry of human_interface_device finds the device grabbable:
\* seize it, then grabbed_callback, whose update_virtual_hid_pointing sees
\* the device seized (the caps lock LED is not modelled).
GrabRetry(d) ==
  /\ ~locked
  /\ d \in grabPending
  /\ IsGrabbable(d, coreConfiguration, vhid, kbReady) = "grabbable"
  /\ grabbed' = grabbed \cup {d}
  /\ grabPending' = grabPending \ {d}
  /\ vPointing' = UpdateVirtualHidPointing(vhid, mode, grabbed', pipeline, vPointing)
  /\ UNCHANGED <<mode, suspended, configured, coreConfiguration, profile, hids, phys, repeating,
                 osPressed, vhid, kbReady, pipeline, locked, timerDue, clock,
                 keyActions>>

\* A post_*_event body: a system event from device_id(0), then
\* input_event_arrived.
PostSystemEvent(pt, kind, now) ==
  ManipulateCall([pt EXCEPT !.p = PushMerged(@, ControlEvent(NoDevice, kind, now))], now)

CurrentPt == [p |-> pipeline, timerDue |-> timerDue]

ApplyPt(pt) == pipeline' = pt.p /\ timerDue' = pt.timerDue

\* The main-queue operations below leave everything but the pipeline and
\* the timer alone.
PipelineOnly ==
  UNCHANGED <<mode, suspended, configured, hids, grabbed, grabPending, phys,
              repeating, osPressed, vhid, kbReady, vPointing, locked, clock, keyActions>>

\* post_frontmost_application_changed_event.
FrontmostApplicationChanged ==
  /\ ~locked
  /\ ApplyPt(PostSystemEvent(CurrentPt, "frontmost_application_changed", clock))
  /\ UNCHANGED <<coreConfiguration, profile>> /\ PipelineOnly

\* post_input_source_changed_event.
InputSourceChanged ==
  /\ ~locked
  /\ ApplyPt(PostSystemEvent(CurrentPt, "input_source_changed", clock))
  /\ UNCHANGED <<coreConfiguration, profile>> /\ PipelineOnly

\* post_keyboard_type_changed_event.
PostKeyboardTypeChangedEvent(pt, now) == PostSystemEvent(pt, "keyboard_type_changed", now)

\* set_system_preferences: rebuild the fn_function_keys rules (their
\* modifiers follow keyboard_fn_state, which the model abstracts), then
\* post_keyboard_type_changed_event.
SetSystemPreferences ==
  /\ ~locked
  /\ ApplyPt(PostKeyboardTypeChangedEvent(
       [CurrentPt EXCEPT !.p.ms[FnStage] = UpdateFnFunctionKeysManipulators(@, profile)],
       clock))
  /\ UNCHANGED <<coreConfiguration, profile>> /\ PipelineOnly

\* caps_lock_state_changed_callback: post_caps_lock_state_changed_callback
\* (the LED update is not modelled).
CapsLockStateChanged ==
  /\ ~locked
  /\ ApplyPt(PostSystemEvent(CurrentPt, "caps_lock_state_changed", clock))
  /\ UNCHANGED <<coreConfiguration, profile>> /\ PipelineOnly

\* unset_profile: an empty profile, and invalidate_manipulators on every
\* connected manager, the post_event_to_virtual_devices manager included.
UnsetProfile ==
  /\ ~locked
  /\ profile' = EmptyProfile
  /\ pipeline' = ConnectorInvalidateManipulators(pipeline)
  /\ UNCHANGED <<coreConfiguration, timerDue>> /\ PipelineOnly

Next ==
  \/ \E d \in Devices, k \in InputKeys, down \in BOOLEAN : KeyAction(d, k, down)
  \/ Unlock
  \/ TimerFire
  \/ Tick
  \/ StartGrabbing
  \/ \E pr \in Profiles : ConfigurationLoaded(pr)
  \/ StopGrabbing
  \/ Suspend
  \/ Resume
  \/ VhidConnected
  \/ VhidDisconnected
  \/ \E d \in Devices : DeviceMatched(d)
  \/ \E d \in Devices : DeviceRemoved(d)
  \/ VirtualKeyboardRemoved
  \/ \E d \in Devices : GrabRetry(d)
  \/ FrontmostApplicationChanged
  \/ InputSourceChanged
  \/ SetSystemPreferences
  \/ CapsLockStateChanged
  \/ UnsetProfile

\* A registered timer whose time has come can start a pass.
TimerCanFire == ~locked /\ timerDue # NoTimer /\ clock >= timerDue

\* The steps of TimerFire that start a pass: no other action takes the
\* mutex and clears the timer in one step.
TimerFiredStep == TimerCanFire /\ locked' /\ timerDue' = NoTimer

\* The mutex is released at the end of every pass, a registered timer
\* fires once its time has come, and the clock advances; user and system
\* events (keys, devices, configuration, sessions) need not happen.  The
\* timer's weak fairness is written out on the step's effect, which is
\* the same condition as WF_vars of TimerFire's first disjunct.
Fairness ==
  /\ WF_vars(Unlock)
  /\ WF_vars(Tick)
  /\ []<>~TimerCanFire \/ []<><<TimerFiredStep>>_vars

Spec == Init /\ [][Next]_vars /\ Fairness


(***************************************************************************)
(* Properties.                                                             *)
(***************************************************************************)

Events == [dev : Devices \cup {NoDevice},
           kind : {"key_code", "device_ungrabbed", "event_from_ignored_device",
                   "frontmost_application_changed", "input_source_changed",
                   "keyboard_type_changed", "caps_lock_state_changed"},
           key : Keys \cup {NoKey}, type : {"down", "up", "single"},
           valid : BOOLEAN, ts : 0..MaxTime]

TypeOK ==
  /\ mode \in {"observing", "grabbing"}
  /\ suspended \in BOOLEAN /\ configured \in BOOLEAN /\ kbReady \in BOOLEAN
  /\ coreConfiguration \in Profiles \cup {EmptyProfile}
  /\ profile \in Profiles \cup {EmptyProfile}
  /\ hids \subseteq Devices /\ grabbed \subseteq hids /\ grabPending \subseteq hids
  /\ phys \in [Devices -> SUBSET InputKeys]
  /\ repeating \in [Devices -> InputKeys \cup {NoKey}]
  /\ osPressed \in [Devices -> SUBSET InputKeys]
  /\ vhid \in {"closed", "connecting", "connected"}
  /\ PointingDevices \subseteq Devices /\ vPointing \in BOOLEAN
  /\ Len(pipeline.ms) = PostStage
  /\ \A k \in 0..PostStage : \A i \in DOMAIN pipeline.q[k].events :
       pipeline.q[k].events[i] \in Events
  /\ locked \in BOOLEAN
  /\ timerDue \in 0..MaxTime \cup {NoTimer}
  /\ clock \in 0..MaxTime
  /\ keyActions \in 0..MaxKeyActions

\* No pass is running and every stage has consumed its input.
Quiescent ==
  /\ ~locked
  /\ \A k \in 0..PostStage - 1 : pipeline.q[k].events = <<>>

\* No stuck virtual key (spec sections 1 and 8): once the pipeline has
\* drained, every key post_event_to_virtual_devices holds down on the
\* virtual keyboard comes from a device that is still seized and still has
\* a key physically held.  It takes the device_ungrabbed event that
\* ungrabbed_callback posts, the key_up a basic manipulator keeps
\* rewriting after a profile change made it invalid (remove_invalid_manipulators
\* keeps it while active()), and the resets manipulate() does for
\* device_ungrabbed, over interleavings of keys, grabs and profile loads.
VirtualKeysBacked ==
  Quiescent =>
    \A pr \in VirtualPressed : pr[1] \in grabbed /\ phys[pr[1]] # {}

\* A device is seized only while the driver client is connected and the
\* virtual keyboard is ready, whichever of start/stop_grabbing, driver
\* disconnection, virtual keyboard removal, profile loads or grab retries
\* came in between (is_grabbable_callback and every path that closes the
\* client ungrabs first).
GrabbedOnlyWithVirtualKeyboard ==
  grabbed # {} => vhid = "connected" /\ kbReady

\* A seized mouse or pointer is never left without the virtual pointing
\* device its reports are posted to.  update_virtual_hid_pointing runs
\* from the client connection, device matching and removal, profile loads
\* and grabbed_callback, each reading is_pointing_device_grabbed at that
\* moment; the client closing (stop_grabbing, driver disconnection,
\* virtual keyboard removal) takes the device away, and every path that
\* closes it ungrabs first.
PointingSeizedWithVirtualPointing ==
  IsPointingDeviceGrabbed(grabbed) => vPointing

\* Every pass eventually finishes and every event left in a stage (a key
\* a wait rule holds back, an event queued while the mutex was held) is
\* eventually processed: the manipulator timer registered after the lock
\* block re-drives the pipeline.
Drains == ~Quiescent ~> Quiescent

\* A device the selected profile marks "ignore" is never seized: once a
\* configuration that ignores a device loads, grab_devices must ungrab it
\* (is_grabbable_callback answers ungrabbable_permanently), and a grab
\* retry or a later grab_devices must not seize it again.  It is about the
\* order of the checks in human_interface_device::is_grabbable, which
\* answers for a repeating key or a held button before it asks the callback.
IgnoredNeverGrabbed == \A d \in grabbed : ~IsIgnoredDevice(d, coreConfiguration)

\* While suspended, no device is seized: suspend ungrabs every device and
\* resume grabs them again only in grabbing mode.
NoGrabWhileSuspended == suspended => grabbed = {}

\* Spec section 4.6: a device is never seized while one of its keys is
\* down as far as the OS is concerned, since its release would then never
\* reach the OS (human_interface_device::is_grabbable).
GrabStrandsNoKey == \A d \in grabbed : osPressed[d] = {}

=============================================================================
