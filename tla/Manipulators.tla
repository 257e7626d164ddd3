---------------------------- MODULE Manipulators ----------------------------
(***************************************************************************)
(* The manipulator variants the pipeline runs and the condition list that *)
(* gates them.  manipulator::details::basic, post_event_to_virtual_devices *)
(* and the conditions are not part of the repository snapshot; their      *)
(* behaviour is written from the spec (sections 3, 4.2, 4.3 and 5).  The   *)
(* AND over the condition list is condition_manager::is_fulfilled.         *)
(*                                                                         *)
(* A manipulator is a record                                               *)
(*   [kind, valid, from, to, conds, held, pressed]                         *)
(*   kind    "basic": rewrites key `from` into key `to`;                   *)
(*           "wait":  defers a key_down of `from` until a later event or   *)
(*                    Threshold time units have passed (a rule waiting to  *)
(*                    see whether a second key follows);                   *)
(*           "post":  post_event_to_virtual_devices, the last stage, which *)
(*                    presses and releases keys on the virtual keyboard.   *)
(*   conds   sequence of device_if conditions, each a set of devices;      *)
(*   held    devices whose `from` key_down this rule rewrote and whose     *)
(*           key_up it still has to rewrite (what keeps it active());      *)
(*   pressed <<device, key>> pairs held down on the virtual keyboard.      *)
(***************************************************************************)
EXTENDS Integers, Sequences, EventQueue

CONSTANTS
  Threshold   \* time a "wait" rule waits for a second event

\* A manipulator as built from a profile (valid, nothing in flight).
Basic(from, to, conds) ==
  [kind |-> "basic", valid |-> TRUE, from |-> from, to |-> to,
   conds |-> conds, held |-> {}, pressed |-> {}]
Wait(from, conds) ==
  [kind |-> "wait", valid |-> TRUE, from |-> from, to |-> NoKey,
   conds |-> conds, held |-> {}, pressed |-> {}]
Post ==
  [kind |-> "post", valid |-> TRUE, from |-> NoKey, to |-> NoKey,
   conds |-> <<>>, held |-> {}, pressed |-> {}]

\* conditions::device (device_if): the event comes from one of the devices.
ConditionFulfilled(c, e) == e.dev \in c

\* condition_manager::is_fulfilled: every condition holds.
IsFulfilled(conds, e) == \A i \in DOMAIN conds : ConditionFulfilled(conds[i], e)

\* active(): the manipulator still has output to finish.
Active(m) == m.held # {} \/ m.pressed # {}

\* The front event, now claimed by the manipulator.
Invalidated(front) == [front EXCEPT !.valid = FALSE]

Result(m, front, out, r) == [m |-> m, front |-> front, out |-> out, result |-> r]

\* basic::manipulate.  A valid rule rewrites a matching key_down; a rule,
\* valid or not, rewrites the key_up of a key_down it rewrote.
ManipulateBasic(m, front, out) ==
  LET dev == front.dev
      mine == front.valid /\ front.kind = "key_code" /\ front.key = m.from
  IN CASE mine /\ front.type = "down" /\ m.valid /\ IsFulfilled(m.conds, front) ->
            Result([m EXCEPT !.held = @ \cup {dev}], Invalidated(front),
                   PushBackEvent(out, KeyEvent(dev, m.to, "down", front.ts)),
                   "manipulated")
       [] mine /\ front.type = "up" /\ dev \in m.held ->
            Result([m EXCEPT !.held = @ \ {dev}], Invalidated(front),
                   PushBackEvent(out, KeyEvent(dev, m.to, "up", front.ts)),
                   "manipulated")
       [] OTHER -> Result(m, front, out, "passed")

\* A "wait" rule: undecided while its key_down is the last event of the
\* input queue and less than Threshold has passed since it arrived.
ManipulateWait(m, front, in, out, now) ==
  IF /\ front.valid /\ front.kind = "key_code" /\ front.type = "down"
     /\ front.key = m.from /\ m.valid /\ IsFulfilled(m.conds, front)
     /\ now < front.ts + Threshold
     /\ Len(in.events) = 1
  THEN Result(m, front, out, "needs_wait_until_time_stamp")
  ELSE Result(m, front, out, "passed")

\* post_event_to_virtual_devices::manipulate: a key event is dispatched to
\* the virtual keyboard and consumed.
ManipulatePost(m, front, out) ==
  IF front.valid /\ front.kind = "key_code"
  THEN Result([m EXCEPT !.pressed =
                 IF front.type = "down" THEN @ \cup {<<front.dev, front.key>>}
                 ELSE @ \ {<<front.dev, front.key>>}],
              Invalidated(front), out, "manipulated")
  ELSE Result(m, front, out, "passed")

\* base::manipulate dispatched on the variant.
ManipulateOne(m, front, in, out, now) ==
  CASE m.kind = "basic" -> ManipulateBasic(m, front, out)
    [] m.kind = "wait"  -> ManipulateWait(m, front, in, out, now)
    [] m.kind = "post"  -> ManipulatePost(m, front, out)

\* already_manipulated: none of the modelled variants replays an event it
\* has already consumed.
AlreadyManipulated(m, front) == FALSE

\* handle_device_ungrabbed_event: forget what is in flight for the device
\* (the output queue is passed as const, so nothing is appended).
HandleDeviceUngrabbed(m, dev) ==
  [m EXCEPT !.held = @ \ {dev},
            !.pressed = {p \in @ : p[1] # dev}]

\* needs_virtual_hid_pointing: a basic rule that posts a pointing button
\* needs the virtual pointing device; nop, wait and the sink do not.
NeedsVirtualHidPointing(m) == m.kind = "basic" /\ m.to \in PointingButtons

\* handle_event_from_ignored_device: no modelled variant reacts to it.
HandleEventFromIgnoredDevice(m, front) == m

=============================================================================
