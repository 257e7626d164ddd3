------------------------- MODULE GrabbableStateEntry -------------------------
(***************************************************************************)
(* grabbable_state_manager::entry (src/share/grabbable_state_manager/     *)
(* entry.hpp): the per-device classifier of spec section 4.6.  update()   *)
(* is fed one queued event per observed HID value; it updates the key    *)
(* repeat detector and the pressed modifier flags and pointing buttons,  *)
(* then recomputes the grabbable state in priority order.                *)
(*                                                                         *)
(* An entry is a record [repeating, modifiers, buttons, state, reason].   *)
(* keyboard_repeat_detector.hpp is not in the repository: Detector* is    *)
(* written from the spec and follows human_interface_device's            *)
(* repeating_key_ (a non-modifier key_down repeats, a modifier key_down  *)
(* stops the repeat, the key_up of the repeating key stops it), keyed by *)
(* (usage page, usage) as set() is called.                               *)
(***************************************************************************)
EXTENDS Integers, HidUsage

NoRepeat == <<None, None>>

\* The constructor: state none, reason none.
NewEntry == [repeating |-> NoRepeat, modifiers |-> {}, buttons |-> {},
             state |-> "none", reason |-> "none"]

\* The queued event built from an observed HID value (the event_queue
\* helper is not in the repository): a key_code if the usage has one, else
\* a consumer_key_code, else a pointing_button.
MakeEvent(page, u, type) ==
  LET k == MakeKeyCode(page, u)
      c == IF k = None THEN MakeConsumerKeyCode(page, u) ELSE None
      b == IF k = None /\ c = None THEN MakePointingButton(page, u) ELSE None
  IN [key_code |-> k, consumer_key_code |-> c, pointing_button |-> b, type |-> type]

\* keyboard_repeat_detector::set(usage_page, usage, type).
DetectorSet(rep, page, u, type) ==
  CASE type = "key_down" ->
         IF MakeModifierFlagOfUsage(page, u) # NoFlag THEN NoRepeat ELSE <<page, u>>
    [] type = "key_up" /\ rep = <<page, u>> -> NoRepeat
    [] OTHER -> rep

\* keyboard_repeat_detector::is_repeating().
IsRepeating(rep) == rep # NoRepeat

\* Lines 28-45: a key_code event goes to the detector as its (page, usage)
\* and, if that usage is a modifier, updates the pressed modifier flags.
UpdateKeyCode(e, k, type) ==
  LET page == MakeHidUsagePage(k)
      u    == MakeHidUsage(k)
      m    == MakeModifierFlagOfUsage(page, u)
  IN IF k = None \/ page = None \/ u = None THEN e
     ELSE [e EXCEPT !.repeating = DetectorSet(@, page, u, type),
                    !.modifiers = CASE m = NoFlag        -> @
                                    [] type = "key_down" -> @ \cup {m}
                                    [] type = "key_up"   -> @ \ {m}
                                    [] OTHER             -> @]

\* Lines 47-55: a consumer_key_code event goes to the detector only.
UpdateConsumerKeyCode(e, c, type) ==
  IF c = None THEN e
  ELSE [e EXCEPT !.repeating =
          DetectorSet(@, ConsumerHidUsagePage(c), ConsumerHidUsage(c), type)]

\* Lines 57-63: pointing buttons.
UpdatePointingButton(e, b, type) ==
  CASE b = None            -> e
    [] type = "key_down"   -> [e EXCEPT !.buttons = @ \cup {b}]
    [] type = "key_up"     -> [e EXCEPT !.buttons = @ \ {b}]
    [] OTHER               -> e

\* The grabbable_state assigned for a reason; none means grabbable.
WithReason(e, reason) ==
  [e EXCEPT !.state = IF reason = "none" THEN "grabbable" ELSE "ungrabbable_temporarily",
            !.reason = reason]

\* Mutant: the modifier check before the repeat check.
UpdateGrabbableStateModifiersFirst(e) ==
  WithReason(e, CASE e.modifiers # {}         -> "modifier_key_pressed"
                  [] IsRepeating(e.repeating) -> "key_repeating"
                  [] e.buttons # {}           -> "pointing_button_pressed"
                  [] OTHER                    -> "none")

\* update_grabbable_state (lines 69-111): repeat, then modifiers, then
\* buttons, each an early return.
UpdateGrabbableState(e) ==
  WithReason(e, CASE IsRepeating(e.repeating) -> "key_repeating"
                  [] e.modifiers # {}         -> "modifier_key_pressed"
                  [] e.buttons # {}           -> "pointing_button_pressed"
                  [] OTHER                    -> "none")

\* update(device_id, time_stamp, entry) (lines 25-66).
Update(e, ev) ==
  UpdateGrabbableState(
    UpdatePointingButton(
      UpdateConsumerKeyCode(
        UpdateKeyCode(e, ev.key_code, ev.type),
        ev.consumer_key_code, ev.type),
      ev.pointing_button, ev.type))

=============================================================================
