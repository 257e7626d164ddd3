----------------------------- MODULE EventQueue -----------------------------
(***************************************************************************)
(* The event_queue every pipeline stage writes to (spec section 4.1): an   *)
(* ordered sequence of queued events plus, per device, the modifier flags  *)
(* and pointing buttons the queue has reported as pressed downstream.      *)
(* event_queue.hpp is not part of the repository snapshot, so these        *)
(* operators are written from the spec.                                    *)
(*                                                                         *)
(* A queued event is a record                                              *)
(*   [dev, kind, key, type, valid, ts]                                     *)
(* where dev is the device_id, kind abstracts event::type, key is the     *)
(* key_code (NoKey for control events), type is event_type and ts the     *)
(* event_time_stamp.                                                       *)
(***************************************************************************)
EXTENDS Sequences, SequencesExt

CONSTANTS
  Modifiers,        \* key codes that map to a modifier_flag
  PointingButtons,  \* key codes that are pointing buttons
  NoKey             \* key of events that carry no key

\* A queue with no events and nothing active.
EmptyQueue == [events |-> <<>>, active |-> {}]

\* A key event of the given type for the key.
KeyEvent(dev, key, type, ts) ==
  [dev |-> dev, kind |-> "key_code", key |-> key,
   type |-> type, valid |-> TRUE, ts |-> ts]

\* A control event (device_ungrabbed, event_from_ignored_device, ...).
ControlEvent(dev, kind, ts) ==
  [dev |-> dev, kind |-> kind, key |-> NoKey,
   type |-> "single", valid |-> TRUE, ts |-> ts]

\* Keys whose state the queue tracks per device.
Tracked == Modifiers \cup PointingButtons

\* push_back_event: append and update the active modifier flags and
\* pointing buttons of the event's device.
PushBackEvent(q, e) ==
  LET p == <<e.dev, e.key>>
  IN [events |-> Append(q.events, e),
      active |-> IF e.kind = "key_code" /\ e.key \in Tracked
                   THEN CASE e.type = "down" -> q.active \cup {p}
                          [] e.type = "up"   -> q.active \ {p}
                          [] OTHER           -> q.active
                   ELSE q.active]

\* erase_all_active_* for the device of event `front`: append a key_up for
\* every key of `kinds` the queue believes pressed for that device, then
\* forget them.  The key_ups carry the time stamp of `front`.
EraseAllActive(q, front, kinds) ==
  LET gone == {k \in kinds : <<front.dev, k>> \in q.active}
      ups  == [i \in 1..Len(SetToSeq(gone)) |->
                 KeyEvent(front.dev, SetToSeq(gone)[i], "up", front.ts)]
  IN [events |-> q.events \o ups,
      active |-> {p \in q.active : ~(p[1] = front.dev /\ p[2] \in kinds)}]

\* erase_all_active_modifier_flags / erase_all_active_pointing_buttons.
\* (The _except_lock variants serve only device_keys_and_pointing_buttons_are_released,
\* which nothing in the repository posts.)
EraseAllActiveModifierFlags(q, front) == EraseAllActive(q, front, Modifiers)
EraseAllActivePointingButtons(q, front) == EraseAllActive(q, front, PointingButtons)

\* get_front_event / erase_front_event / clear_events.
FrontEvent(q) == Head(q.events)
EraseFrontEvent(q) == [q EXCEPT !.events = Tail(@)]
ClearEvents(q) == [q EXCEPT !.events = <<>>]

=============================================================================
