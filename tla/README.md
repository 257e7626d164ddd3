# TLA+ models of Karabiner-Elements

These modules model the processes of Karabiner-Elements that seize keyboards
and rewrite their keys, and the wiring between them. All are checked with TLC.
- The grabber: `device_grabber`, its four-stage manipulator pipeline, and
  `human_interface_device`.
- The observer: its `components_manager` and the datagram `client_manager`
  it reaches the grabber through.
- The console user server: `connection_manager`, the monitors it owns, and
  the `receiver` with its `input_source_manager`.

Paths below are relative to src/src/.

## The system and how its parts interact

| Part | Source | Role |
|---|---|---|
| device_grabber | core/grabber/include/device_grabber.hpp | Matches HID devices and seizes them in grabbing mode. Turns their values into queued events and drives the pipeline with `manipulate(now)`. Re-arms the manipulator timer. Posts system events such as the frontmost application, input source, keyboard type and caps lock |
| manipulator_manager | core/grabber/include/manipulator/manipulator_manager.hpp | One pipeline stage: moves events from its input queue to its output queue through its manipulators |
| condition_manager | core/grabber/include/manipulator/condition_manager.hpp | The AND of a manipulator's conditions |
| manipulators | details/nop.hpp (basic and post_event_to_virtual_devices are not in the repository) | Rewrite keys. The last stage holds what the virtual keyboard has pressed |
| event_queue, manipulator_managers_connector | not in the repository (spec 4.1, 4.5) | Queues that track active modifiers per device. The connector chains the four stages |
| human_interface_device | share/human_interface_device.hpp | Per-device IOKit wrapper: open or seize, queue start and stop, the repeating key, pressed buttons and key usages, `is_grabbable` |
| grabbable_state_manager::entry | share/grabbable_state_manager/entry.hpp | The spec 4.6 classifier (device_grabber does not use it in this snapshot) |
| types conversions | share/types.hpp | Conversions between key_code and (usage page, usage), and to consumer_key_code, pointing_button and modifier_flag |
| local_datagram::client_manager | share/local_datagram/client_manager.hpp | Owns a datagram client and reconnects it after a failure or close while reconnecting is enabled |
| observer components_manager | core/observer/include/components_manager.hpp | Runs the device observer exactly while the grabber is reachable |
| connection_manager | core/console_user_server/include/connection_manager.hpp | A one-second timer creates the receiver, grabber_client, configuration_manager and three observers while this user owns the console, and releases them otherwise |
| system_preferences_monitor, input_source_observer | share/ | Tell the grabber_client about preference and input source changes |
| receiver, input_source_manager | core/console_user_server/include/receiver.hpp, share/input_source_manager.hpp | Datagram server that runs shell commands and selects input sources for the grabber |
| libkrbn, cli, vendor code | apps/, bin/, vendor/ | C API, command line, driver examples |

Within the grabber, events flow like this:
1. A device value reaches `value_callback`. It pushes a key event onto the merged queue for a grabbed device, or `event_from_ignored_device` for an observed one.
2. `input_event_arrived` calls `manipulate(now)`.
3. `manipulate(now)` try-locks `manipulate_mutex_`, runs the four stages and clears the posted queue.
4. Lock or no lock, it then arms the manipulator timer at the earliest front time stamp still queued. The timer's callback calls `manipulate(now)` again.

Ungrabbing a device posts `device_ungrabbed` and runs a pass. That pass releases the device's modifiers in each stage's output and lets manipulators forget the device.

Between processes:
- The observer and the console user server reach the grabber through a `grabber_client`, which wraps a `client_manager`. It reconnects every second while enabled and re-emits connected, connect_failed and closed on the shared dispatcher.
- The console user server's monitors call into the grabber_client.
- The grabber sends select-input-source and shell-command datagrams back to the receiver.

## Modules

### The grabber

- **EventQueue** (spec_modelled): a queue is `[events, active]`.
  `PushBackEvent` tracks active modifiers and buttons per device, and
  `EraseAllActive*` appends the compensating key_ups.
- **Manipulators**: the manipulator record and its variants. `basic` maps
  from→to and keeps rewriting the key_up it owes after it is invalidated. A
  `wait` rule returns `needs_wait_until_time_stamp`. The post stage's
  `pressed` set is what the virtual keyboard holds. `IsFulfilled` is
  `condition_manager::is_fulfilled`; the rest comes from the spec.
- **ManipulatorManager**: `manipulate` as RECURSIVE operators. `RunLoop` is
  the `while` and `DispatchFront` the `switch`. `ManipLoop` is the
  manipulator loop with its `goto finish`. `AfterDispatch` is the
  forward-and-erase, and `Collect` is `remove_invalid_manipulators`.
- **ManipulatorManagersConnector** (spec_modelled): stage k reads queue k-1
  and writes queue k. Also defines `MinInputEventTimeStamp` and
  `ConnectorInvalidateManipulators`.
- **DeviceGrabber**: the state machine. Its VARIABLES follow the members:
  `mode_`, `suspended_`, `hids_`, the pipeline, `manipulate_mutex_` as
  `locked`, `manipulator_timer_id_` as `timerDue` and `profile_`.
  `coreConfiguration` is the selected profile of `core_configuration_`.
  It is a separate variable because `unset_profile` clears `profile_` but
  keeps `core_configuration_`, and `stop_grabbing` keeps it too.
  `is_ignored_device` (`IsIgnoredDevice`) reads `core_configuration_`, so
  a device stays ignored after `unset_profile`.
  `MakeDeviceIfCondition` is `make_device_if_condition`. It gives a
  per-device simple modification a condition that matches only its device.
  `vPointing` is whether the virtual pointing device is initialized, and
  `PointingDevices` are the devices that conform to mouse or pointer.
  `UpdateVirtualHidPointing` is `update_virtual_hid_pointing`. It is applied
  where the code calls it: in `VhidConnected`, `DeviceMatched` (before
  `grab_devices`), `DeviceRemoved`, `ConfigurationLoaded` (inside
  `set_profile`, before `grab_devices`) and `GrabRetry` (`grabbed_callback`).
  Closing the client clears it. There is one action per handler:
  - `KeyAction`, `Unlock`, `TimerFire`;
  - `StartGrabbing`, `ConfigurationLoaded`, `StopGrabbing`, `Suspend`,
    `Resume`;
  - `VhidConnected`, `VhidDisconnected`;
  - `DeviceMatched`, `DeviceRemoved`, `VirtualKeyboardRemoved`, `GrabRetry`;
  - `FrontmostApplicationChanged`, `InputSourceChanged`,
    `SetSystemPreferences`, `CapsLockStateChanged`, `UnsetProfile`;
  - `Tick`.

  The system events go through `PostSystemEvent` (push, then `manipulate`),
  as `post_*` does in the code. Handlers on the main queue are atomic. A
  `manipulate` pass is split at the mutex: an event arriving between the
  pass and `Unlock` finds the mutex held and only registers the timer.
  `grab_devices` and `ungrab_devices` iterate `hids_` in every order.
- **MCDeviceGrabber**: two devices, keys `a` and `left_shift`, and two
  profiles. The first rewrites d1's `a` to `b` under a device_if condition
  and holds `b` back with a wait rule. The second rewrites every `a` to `c`
  and ignores d2. d2 is also a pointing device.
- **HidUsage**: the types.hpp conversions with their real numeric values:
  `MakeKeyCode`, `MakeHidUsagePage`, `MakeHidUsage`, `MakeModifierFlag`,
  `MakeConsumerKeyCode` and `MakePointingButton`.
- **GrabbableStateEntry** and **MCGrabbableStateEntry**: `entry::update` on
  one device whose eight inputs are pressed and released in every order,
  against `held`, the physical reference.
- **HumanInterfaceDevice**: one device as a record. Each method is an
  operator on it: `Observe`, `GrabHid`, `Unobserve`, `UngrabHid`,
  `QueueValue` (`queue_value_available_callback`), `ClearPressedKeys`,
  `IsGrabbable`. The std::lists keep their duplicates; `RemoveAll` is
  `std::list::remove`.
- **MCHumanInterfaceDevice**: the owner's calls, with IOHIDDeviceOpen
  possibly failing, interleaved with presses and releases of six inputs
  across four usage pages. `held` is the physical reference.

### Inter-process wiring

- **ClientManager**: `client_manager` on the shared dispatcher. `cm` is
  `[enabled, client, queue, delayed]`. The dispatcher runs tasks from the
  head of `queue`. A task enqueued for `when_now() + reconnect_interval_`
  waits in `delayed`. Each task is an operator: `Connect`, `Close`, `Stop`,
  `OnClientEvent`, `ReconnectTask`. The datagram client is not in the
  repository; from the spec, it ends each attempt with connected or
  connect_failed, and a connected client's check with closed.
- **MCClientManager**: an owner calls `async_start` and `async_stop`
  against a server that appears and disappears.
- **ReconnectingLink**: what client_manager promises its owner, without the
  dispatcher. It has `enabled`, `server` and a link that is idle, trying,
  up or down. Start tries at once. Stop drops the link. A dead link is
  dropped, and an idle link is retried while enabled. MCClientManager maps
  the manager onto it: no client is idle, connecting is trying, connected is
  up, and a failed or closed client is down. It checks `Link!Spec`, the
  abstract specification with its fairness, as a property.
- **ObserverComponentsManager**: the observer's constructor task
  `async_start_grabber_client` and the handlers that start and stop the
  device observer, on top of ClientManager.
- **ConnectionManager**: connection_manager's timer, `release()`, the
  grabber's "is launched" notification, and two monitors.
  - `parts` is the set of members that are not null.
  - `TimerHandler(throws)` is one timer tick. `throws` names a constructor
    that throws, whose exception releases everything.
  - `input_source_observer` and `system_preferences_monitor` report to the
    grabber_client. `told` is what the current client has been told.
  - The monitor's timer runs on its own queue. Its callback is split into
    the test of `grabber_client_` (`SystemPreferencesPolled`) and the call
    (`SystemPreferencesDelivered`).
- **MCConnectionManager**: two input sources, two preference values, and a
  plain application and the EventViewer.
- **Receiver**: receiver and input_source_manager.
  - `AsyncStart` and `StartTask` create the server_manager and connect its
    signals. `ServerEvent` is the server_manager (from the spec) binding,
    failing or closing; each event is forwarded as a task.
  - The received handler's select path is `SelectReceived`, which does the
    size and time-stamp checks, followed by `SelectFinished`, which is
    `select()` over `entries_` and the time-stamp update.
  - `EnabledInputSourcesChanged` rebuilds `entries_`.
  - The sender delivers every request in order, each once or twice in a row.
- **MCReceiver**: two input sources and three requests, one of them
  malformed.

PROJECT.json's `map` gives the source lines each definition translates, or
marks it `spec_modelled` where the code is not in the repository.

## Runs

| Run | Config | Checks | Result |
|---|---|---|---|
| grabber_safety | MCDeviceGrabber.cfg | TypeOK, VirtualKeysBacked, GrabbedOnlyWithVirtualKeyboard, PointingSeizedWithVirtualPointing, Drains | pass, 234,370 states (about 2 minutes) |
| grab_while_suspended | MCNoGrabWhileSuspended.cfg | NoGrabWhileSuspended | violated |
| grab_with_modifier_down | MCGrabStrandsNoKey.cfg | GrabStrandsNoKey | violated |
| grabber_ignore_while_repeating | MCIgnoredNeverGrabbed.cfg | IgnoredNeverGrabbed | violated |
| entry_classifier | MCGrabbableStateEntry.cfg | EntryAgreesWithSpec46, ModifierFlagsMatchHeld | pass, 897 states |
| hid_bookkeeping | MCHumanInterfaceDevice.cfg | BookkeepingMatchesHeld | pass, 53,091 states |
| hid_refuses_with_nothing_held | MCRefusesOnlyWhileHeld.cfg | RefusesOnlyWhileHeld | violated |
| client_manager_reconnect | MCClientManager.cfg | ClientOnlyWhileEnabled, Reconnects, ImplementsReconnectingLink | pass, 7,244 states |
| observer_device_observer | ObserverComponentsManager.cfg | DeviceObserverFollowsConnection, DeviceObserverSettles | pass, 158 states |
| console_user_server_members | MCConnectionManager.cfg | GrabberToldInputSource, GrabberToldPreferences, PartsFollowConsoleUser | pass, 8,188 states |
| preferences_callback_after_release | MCNoCallIntoReleasedClient.cfg | NoCallIntoReleasedClient | violated |
| receiver_select_dedup | MCReceiver.cfg | SelectedAtMostOnce | pass, 13,632 states |

### Properties that hold

- **VirtualKeysBacked**: once the pipeline is drained, every key the post
  stage holds belongs to a device that is still seized and still has a key
  down. This also covers `client_disconnected`: `stop_grabbing` ungrabs
  after the client is gone, and the key_ups of the device_ungrabbed
  events must still clear the post stage.
- **GrabbedOnlyWithVirtualKeyboard**: a device is seized only while the
  driver client is connected and the virtual keyboard is ready.
- **PointingSeizedWithVirtualPointing**: a seized mouse always has the
  virtual pointing device to post to. Each of the five callers of
  `update_virtual_hid_pointing` sees a different grabbed set. The proof
  rests on `grabbed_callback` running it after every seize, and on every
  client close ungrabbing first. The converse does not hold, and no run
  checks it. A profile that ignores the only mouse is loaded by
  `set_profile`, which updates the pointing device before `grab_devices`
  ungrabs the mouse. The virtual pointing device then stays until the next
  update. It is listed as a hazard.
- **Drains**: every held-back or late event is eventually processed. Only
  the manipulator timer guarantees this.
- **EntryAgreesWithSpec46** and **ModifierFlagsMatchHeld**: the entry's
  verdict and modifier flags follow from the physical keys, through the
  conversion round trip.
- **BookkeepingMatchesHeld**: while the queue has seen every change, the
  following agree with what is physically held:
  - `pressed_key_usages_` (and so `get_pressed_keys_count`);
  - `pressed_buttons_`;
  - `repeating_key_`.
- **ClientOnlyWhileEnabled**: no client outlives `async_stop`, whatever
  reconnect tasks and client events are still queued.
- **Reconnects**: while enabled and with the server up, the manager
  eventually connects.
- **ImplementsReconnectingLink**: client_manager refines ReconnectingLink,
  so every step is a step of the abstract link and the abstract fairness
  holds. The difficult case is a stale event of a destroyed client: it is
  still in the dispatcher's queue when `async_stop` and a new
  `async_start` run. Because `close()` disconnects the client's signals,
  the stale event never acts on the new client.
- **DeviceObserverFollowsConnection** and **DeviceObserverSettles**: when
  the dispatcher is idle, the device observer runs exactly when the client
  is connected. Once the grabber stops coming and going, it runs exactly
  when the grabber is up.
- **GrabberToldInputSource** and **GrabberToldPreferences**: once the
  notifications are delivered, the current grabber_client has been told the
  current input source and preferences. This holds across releases, failed
  constructions and recreations.
- **PartsFollowConsoleUser**: eventually the members exist exactly while
  this user owns the console.
- **SelectedAtMostOnce**: a request delivered twice is carried out once. A
  request that found no enabled source is still retried.

Every property of a passing run has a mutant in PROJECT.json: a plausible bug
in a mapped definition that TLC finds violating it.

### Findings (violation runs)

- **NoGrabWhileSuspended** (code_bug): `device_matching_callback`, the
  configuration callback and `device_removal_callback` call `grab_devices()`
  without reading `suspended_`.
- **GrabStrandsNoKey** (divergence from spec 4.6): `is_grabbable` ignores
  held modifiers, so a device is seized with a modifier down.
- **IgnoredNeverGrabbed** (code_bug): `grab_devices` ungrabs a device
  only on an `ungrabbable_permanently` verdict. `is_grabbable` answers
  "temporarily" for a repeating key before it asks the callback that checks
  the ignore flag. A configuration that ignores a seized device, loaded
  while a key on it repeats, therefore leaves the device seized. Releasing
  the key does not re-run `grab_devices`. The trace is 8 states: start, connect,
  match and seize d2, press a on d2, load a profile that ignores d2.
- **RefusesOnlyWhileHeld** (code_bug): `unobserve` and `ungrab` keep
  `repeating_key_`. A key released while the queue is stopped makes
  `is_grabbable` refuse a device on which nothing is down.
- **NoCallIntoReleasedClient** (code_bug): the preferences monitor's
  callback runs on the monitor's own queue. It tests `grabber_client_` and
  then calls it, and `release()` on the main queue can fall between the two.

PROJECT.json's `hazards` lists the other hard-to-test places. Two of
them are reached by the models but checked by no run:
- `select()` iterates `entries_` while the main run loop rebuilds it. The
  race is latent: connection_manager never calls `receiver::async_start`.
- A spec-4.6 entry says grabbable with a key down after a down, b down,
  b up.

## Bounds

- **MCDeviceGrabber**:
  - Two devices make the per-device state, the ignore flag, device_if and
    the `hids_` iteration order matter.
  - `MaxKeyActions = 2` holds a rewritten key across a profile change, a
    suspend or a removal.
  - `MaxTime = 2` and `Threshold = 1` let a wait rule both expire and be
    overtaken.
- **MCGrabbableStateEntry** is finite, so every order of presses and
  releases is explored.
- **MCHumanInterfaceDevice**:
  - Up to 3 inputs are held at once (`MaxHeld`).
  - The lists are capped at `MaxListLen = 3`, because stale entries of
    releases the queue never saw accumulate in the code. The cap is why the
    growth itself is not a property.
- **MCClientManager**: 3 owner calls and 3 server flips cover a stop with
  a reconnect pending and a close followed by a reconnect.
- **ObserverComponentsManager**: 4 server flips.
- **MCConnectionManager**: `MaxEnvSteps = 5` bounds user switches,
  selections, preference changes, throwing constructors and grabber
  launches together. That is enough for release, recreate and a change on
  each side of both.
- **MCReceiver**:
  - `MaxTasks = 2` lets a start task and a forwarded signal be queued
    together.
  - Each request may arrive twice, and the enabled sources change freely.

## Fairness

- **Grabber**:
  - `WF(Unlock)`: the mutex is a scoped lock.
  - `WF(Tick)`: time advances.
  - The GCD timer fires once due.
- **ClientManager and Observer**: weak fairness on the dispatcher running
  its tasks, on delayed tasks becoming due, and on the client finishing an
  attempt or a check. These are the dispatcher thread, its timer and the
  client's own timeouts. The owner and the server are not fair.
  ReconnectingLink's weak fairness on Up, Fail, Drop and Retry is not
  assumed. It is checked, and it follows from the dispatcher's fairness.
- **ConnectionManager**:
  - Weak fairness on `TimerHandler(0)` (the repeating one-second timer) and
    on the delivery of queued notifications.
  - Weak fairness on the monitor's timer and its callback.
  - The user, the grabber and throwing constructors are not fair.
- **Receiver**: no liveness is checked; no fairness is assumed.

## Not modelled

- In the grabber: the caps lock LED (`update_caps_lock_led` and its
  one-second monitor timer). It only reads the configuration and grabbed
  set, which the model already has. But the LED state of every device, the
  system caps lock state and the timer would multiply the grabber's
  234,370 states at least eightfold. That run already takes about 2 of
  its 5 minutes. The event tap and pointing events,
  built-in keyboard disabling (`human_interface_device::disable` is not in
  the repository), JSON output, IOKit
  I/O, and the name tables of types.hpp.
- The grabber's components_manager and the version monitors, whose work is
  process and file watching.
- The configuration_manager and frontmost_application_observer internals,
  beyond their effect on the grabber_client.
- The server_manager and the datagram client. They are not in the
  repository and are modelled from the spec.
- The receiver's shell command is reduced to "run if the size is right".
- libkrbn, the cli and the vendor code, which are C API, argument parsing
  and examples.
