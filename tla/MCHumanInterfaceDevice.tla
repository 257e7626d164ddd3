----------------------- MODULE MCHumanInterfaceDevice -----------------------
(***************************************************************************)
(* One human_interface_device whose owner calls observe, grab, unobserve, *)
(* ungrab and clear_pressed_keys in any order, while the user presses and *)
(* releases keys a and b, left shift, the top-case fn key, the consumer   *)
(* volume_increment key and button1.                                      *)
(***************************************************************************)
EXTENDS Integers, FiniteSets, HumanInterfaceDevice

CONSTANTS
  MaxHeld,      \* bound on inputs held at once
  MaxListLen    \* bound on the lengths of the two lists, which keep a stale
                \* entry for every press whose release was not seen

Inputs == {<<PageKeyboardOrKeypad, \h04>>, <<PageKeyboardOrKeypad, \h05>>,
           <<PageKeyboardOrKeypad, \hE1>>, <<PageAppleVendorTopCase, \h03>>,
           <<PageConsumer, \hE9>>, <<PageButton, 1>>}

\* Reference sets written out without the code's predicates: the inputs
\* pressed_key_usages_ is meant to count (keyboard page, fn, buttons) and
\* the buttons.
RefKeyUsageInputs == Inputs \ {<<PageConsumer, \hE9>>}
RefButtonInputs == {<<PageButton, 1>>}

VARIABLES
  hid,      \* the human_interface_device
  held,     \* inputs physically down
  synced    \* every change since the start reached the callback and
            \* pressed_key_usages_ was never cleared

vars == <<hid, held, synced>>

Init ==
  /\ hid \in {NewHid(TRUE), NewHid(FALSE)}
  /\ held = {}
  /\ synced = TRUE

\* The user changes input v; the queue delivers it if it is running.
Change(v, pressed) ==
  /\ hid' = IF Delivering(hid) THEN QueueValue(hid, v[1], v[2], pressed) ELSE hid
  /\ synced' = (synced /\ Delivering(hid))

Press(v) ==
  /\ v \notin held
  /\ Cardinality(held) < MaxHeld
  /\ Len(hid.keyUsages) < MaxListLen /\ Len(hid.buttons) < MaxListLen
  /\ held' = held \cup {v}
  /\ Change(v, TRUE)

Release(v) ==
  /\ v \in held
  /\ held' = held \ {v}
  /\ Change(v, FALSE)

\* The owner's calls; IOHIDDeviceOpen may fail (ok = FALSE).
Call(h2) == hid' = h2 /\ UNCHANGED <<held, synced>>

Next ==
  \/ \E v \in Inputs : Press(v) \/ Release(v)
  \/ \E ok \in BOOLEAN : Call(Observe(hid, ok)) \/ Call(GrabHid(hid, ok))
  \/ Call(Unobserve(hid))
  \/ Call(UngrabHid(hid))
  \/ hid' = ClearPressedKeys(hid) /\ synced' = FALSE /\ UNCHANGED held

Spec == Init /\ [][Next]_vars

-----------------------------------------------------------------------------

\* While the queue has seen every change and nobody cleared it,
\* pressed_key_usages_ lists each held keyboard key, fn and button once
\* (its count is get_pressed_keys_count), pressed_buttons_ holds exactly
\* the held buttons, and repeating_key_ is a key still held: the
\* push_back / remove() list updates, the usage page tests and the key_code
\* and modifier lookups of queue_value_available_callback agree with the
\* physical keys over every order of presses and releases.
BookkeepingMatchesHeld ==
  synced =>
    /\ PressedKeysCount(hid) = Cardinality(held \cap RefKeyUsageInputs)
    /\ {hid.keyUsages[i] : i \in DOMAIN hid.keyUsages} = held \cap RefKeyUsageInputs
    /\ {hid.buttons[i] : i \in DOMAIN hid.buttons} =
         {MakePointingButton(v[1], v[2]) : v \in held \cap RefButtonInputs}
    /\ hid.repeating # None => \E v \in held : MakeKeyCode(v[1], v[2]) = hid.repeating

\* is_grabbable's comments: a device is refused because a key is repeating
\* or a button is pressed; it should therefore never be refused once
\* nothing is physically down.
RefusesOnlyWhileHeld ==
  ~IsGrabbable(hid, TRUE) => held # {}

=============================================================================
