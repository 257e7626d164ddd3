------------------------- MODULE HumanInterfaceDevice -------------------------
(***************************************************************************)
(* human_interface_device (src/share/human_interface_device.hpp): one     *)
(* IOHIDDevice with its IOHIDQueue, opened to observe or to seize it, and *)
(* the bookkeeping its queue callback keeps of what is pressed:           *)
(* repeating_key_, pressed_buttons_ and pressed_key_usages_ (std::lists:  *)
(* push_back on press, remove() of every equal element on release).       *)
(*                                                                         *)
(* A device is a record [hasQueue, open, scheduled, started, callback,    *)
(* repeating, buttons, keyUsages].  The key_code and modifier lookups the *)
(* callback makes (types::get_key_code, get_modifier_flag, and            *)
(* get_pointing_button) are types.hpp's make_key_code, make_modifier_flag *)
(* and make_pointing_button, their current names.                         *)
(***************************************************************************)
EXTENDS Integers, Sequences, HidUsage

\* The constructor: the queue exists unless IOHIDQueueCreate failed; the
\* device is neither open nor scheduled.
NewHid(hasQueue) ==
  [hasQueue |-> hasQueue, open |-> "closed", scheduled |-> FALSE,
   started |-> FALSE, callback |-> FALSE,
   repeating |-> None, buttons |-> <<>>, keyUsages |-> <<>>]

\* open(options) / close(): IOHIDDeviceOpen, with kIOHIDOptionsTypeSeizeDevice
\* for grab.
Open(h, mode) == [h EXCEPT !.open = mode]
Close(h) == [h EXCEPT !.open = "closed"]

\* schedule() / unschedule() on the main run loop.
Schedule(h) == [h EXCEPT !.scheduled = TRUE]
Unschedule(h) == [h EXCEPT !.scheduled = FALSE]

\* register_value_callback: store the callback, then IOHIDQueueStart if
\* there is a queue; unregister_value_callback: stop, then drop it.
RegisterValueCallback(h) == [h EXCEPT !.callback = TRUE, !.started = h.hasQueue]
UnregisterValueCallback(h) == [h EXCEPT !.started = FALSE, !.callback = FALSE]

\* observe / grab: open (return on error), register, schedule.
OpenAndRegister(h, mode, ok) ==
  IF ~ok THEN h ELSE Schedule(RegisterValueCallback(Open(h, mode)))
Observe(h, ok) == OpenAndRegister(h, "open", ok)
GrabHid(h, ok) == OpenAndRegister(h, "seized", ok)

\* unobserve / ungrab: unschedule, unregister, close.
Unobserve(h) == Close(UnregisterValueCallback(Unschedule(h)))
UngrabHid(h) == Close(UnregisterValueCallback(Unschedule(h)))

\* The queue's values reach queue_value_available_callback.
Delivering(h) == h.started /\ h.scheduled /\ h.open # "closed"

\* std::list::remove: every element equal to x.
RemoveAll(s, x) == SelectSeq(s, LAMBDA y : y # x)

\* Lines 408-423: a non-modifier key_down starts repeating, a modifier
\* key_down stops it, the key_up of the repeating key stops it.
UpdateRepeatingKey(rep, page, u, pressed) ==
  LET k == MakeKeyCode(page, u)
  IN CASE k = None -> rep
       [] pressed  -> IF MakeModifierFlag(k) # NoFlag THEN None ELSE k
       [] rep = k  -> None
       [] OTHER    -> rep

\* Lines 425-434.
UpdatePressedButtons(bs, page, u, pressed) ==
  LET b == MakePointingButton(page, u)
  IN CASE b = None -> bs
       [] pressed  -> Append(bs, b)
       [] OTHER    -> RemoveAll(bs, b)

\* Mutant: the fn key of the top-case page left out of pressed_key_usages_.
IsPressedKeyUsageWithoutFn(page, u) ==
  page = PageKeyboardOrKeypad \/ page = PageButton

\* Lines 436-438: the usages pressed_key_usages_ counts.
IsPressedKeyUsage(page, u) ==
  \/ page = PageKeyboardOrKeypad
  \/ page = PageAppleVendorTopCase /\ u = \h03
  \/ page = PageButton

\* Lines 435-446: (usage_page << 32) | usage, kept as the pair.
UpdatePressedKeyUsages(us, page, u, pressed) ==
  CASE ~IsPressedKeyUsage(page, u) -> us
    [] pressed                     -> Append(us, <<page, u>>)
    [] OTHER                       -> RemoveAll(us, <<page, u>>)

\* queue_value_available_callback for one value; value_callback_ is then
\* called when set.
QueueValue(h, page, u, pressed) ==
  [h EXCEPT !.repeating = UpdateRepeatingKey(@, page, u, pressed),
            !.buttons   = UpdatePressedButtons(@, page, u, pressed),
            !.keyUsages = UpdatePressedKeyUsages(@, page, u, pressed)]

\* clear_pressed_keys / get_pressed_keys_count.
ClearPressedKeys(h) == [h EXCEPT !.keyUsages = <<>>]
PressedKeysCount(h) == Len(h.keyUsages)

\* is_grabbable: not while a key repeats or a button is down, then ask
\* is_grabbable_callback_ (its answer is cb).
IsGrabbable(h, cb) ==
  /\ h.repeating = None
  /\ h.buttons = <<>>
  /\ cb

=============================================================================
