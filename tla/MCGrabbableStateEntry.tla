------------------------ MODULE MCGrabbableStateEntry ------------------------
(***************************************************************************)
(* One device's grabbable_state_manager::entry fed with the HID values of *)
(* its physical keys.  Each step presses a key that is up or releases one *)
(* that is down, and update() runs on the queued event built from that    *)
(* value.  Beside the entry the model keeps, from the physical presses    *)
(* alone, the reference answer of spec section 4.6.                       *)
(***************************************************************************)
EXTENDS Integers, GrabbableStateEntry

\* The physical inputs, as (usage page, usage): keys a and b, caps lock,
\* the keyboard-page mute key (converted to the consumer page), left shift,
\* the top-case fn key, the consumer volume_increment key and button1.
Inputs == {<<PageKeyboardOrKeypad, \h04>>, <<PageKeyboardOrKeypad, \h05>>,
           <<PageKeyboardOrKeypad, \h39>>, <<PageKeyboardOrKeypad, \h7F>>,
           <<PageKeyboardOrKeypad, \hE1>>, <<PageAppleVendorTopCase, \h03>>,
           <<PageConsumer, \hE9>>, <<PageButton, 1>>}

\* The reference classification, written without the conversions: which
\* physical inputs are modifiers (caps lock is not, as types.hpp's
\* make_modifier_flag states) and which are buttons.
RefModifiers == {<<PageKeyboardOrKeypad, \hE1>>, <<PageAppleVendorTopCase, \h03>>}
RefButtons   == {<<PageButton, 1>>}

VARIABLES
  entry,    \* the grabbable_state_manager::entry
  held,     \* inputs physically down
  refLast   \* reference: the last non-modifier key pressed and still auto-repeating

vars == <<entry, held, refLast>>

NoInput == <<None, None>>

Init ==
  /\ entry = NewEntry
  /\ held = {}
  /\ refLast = NoInput

\* A key goes down: the device reports value 1 for its usage.
Press(v) ==
  /\ v \notin held
  /\ held' = held \cup {v}
  /\ entry' = Update(entry, MakeEvent(v[1], v[2], "key_down"))
  /\ refLast' = CASE v \in RefModifiers -> NoInput
                  [] v \in RefButtons   -> refLast
                  [] OTHER              -> v

\* A key goes up: value 0.
Release(v) ==
  /\ v \in held
  /\ held' = held \ {v}
  /\ entry' = Update(entry, MakeEvent(v[1], v[2], "key_up"))
  /\ refLast' = IF refLast = v THEN NoInput ELSE refLast

Next == \E v \in Inputs : Press(v) \/ Release(v)

Spec == Init /\ [][Next]_vars

-----------------------------------------------------------------------------

\* The spec 4.6 verdict for what is physically down.
RefReason ==
  CASE refLast # NoInput           -> "key_repeating"
    [] held \cap RefModifiers # {} -> "modifier_key_pressed"
    [] held \cap RefButtons # {}   -> "pointing_button_pressed"
    [] OTHER                       -> "none"

\* After every update, entry::update_grabbable_state gives the spec 4.6
\* verdict, in its priority order, for the keys physically down: the
\* modifier flags and pointing buttons it accumulated through
\* make_hid_usage_page / make_hid_usage / make_modifier_flag and the repeat
\* detector's (page, usage) keys agree with the physical keys.
EntryAgreesWithSpec46 ==
  entry.state # "none" =>
    /\ entry.reason = RefReason
    /\ entry.state = IF RefReason = "none" THEN "grabbable" ELSE "ungrabbable_temporarily"

\* entry::update learns whether a key_code is a modifier by sending it
\* through make_hid_usage_page and make_hid_usage and back through
\* make_modifier_flag(usage_page, usage); the flags it holds must be those
\* of the key codes of the keys physically down, the fn key (a vendor
\* page) and caps lock (deliberately no flag) included.
ModifierFlagsMatchHeld ==
  entry.modifiers =
    {MakeModifierFlag(MakeKeyCode(v[1], v[2])) : v \in held} \ {NoFlag}

=============================================================================
