------------------------------ MODULE HidUsage ------------------------------
(***************************************************************************)
(* The conversions of src/share/types.hpp between HID (usage page, usage)  *)
(* pairs, key_code, consumer_key_code, pointing_button and modifier_flag.  *)
(* Enumerators keep their numeric values (the IOKit HID usage tables and  *)
(* the order of the enums in types.hpp), because make_key_code and        *)
(* make_hid_usage cast between usage and key_code.  boost::none is None.  *)
(***************************************************************************)
EXTENDS Integers, TLC

None == -1

\* hid_usage_page
PageKeyboardOrKeypad == \h07
PageButton           == \h09
PageConsumer         == \h0C
PageAppleVendorKeyboard == \hFF01
PageAppleVendorTopCase  == \h00FF

\* hid_usage: kHIDUsage_KeyboardErrorUndefined and kHIDUsage_Keyboard_Reserved
KeyboardErrorUndefined == \h03
KeyboardReserved       == \hFFFF

\* key_code: 0x00 - 0xff are keyboard_or_keypad usages, then extra_ (0x10000)
\* and the keys that are not in the keyboard_or_keypad page, in enum order.
KeyA == \h04
KeyB == \h05
KeyCapsLock == \h39
KeyMute == \h7F
KeyVolumeIncrement == \h80
KeyVolumeDecrement == \h81
KeyLeftControl == \hE0
KeyLeftShift   == \hE1
KeyRightCommand == \hE7
Extra == \h10000
KeyVkNone == Extra + 1
KeyFn == Extra + 2
ExtraKeyNames == <<"display_brightness_decrement", "display_brightness_increment",
                   "dashboard", "launchpad", "mission_control",
                   "illumination_decrement", "illumination_increment",
                   "rewind", "play_or_pause", "fastforward", "eject",
                   "apple_display_brightness_decrement",
                   "apple_display_brightness_increment",
                   "apple_top_case_display_brightness_decrement",
                   "apple_top_case_display_brightness_increment">>
\* The key_code of one of the enumerators after fn.
K(name) == CHOOSE v \in KeyFn + 1 .. KeyFn + 15 : ExtraKeyNames[v - KeyFn] = name

\* modifier_flag, by name; make_modifier_flag(key_code) (types.hpp 1136-1161):
\* the eight keyboard modifiers and fn; caps_lock is deliberately none.
NoFlag == "none"
ModifierFlagOfKey ==
  [k \in KeyLeftControl .. KeyRightCommand |->
     <<"left_control", "left_shift", "left_option", "left_command",
       "right_control", "right_shift", "right_option", "right_command">>[k - KeyLeftControl + 1]]
  @@ (KeyFn :> "fn")

\* The value of a table at x, or none.
Lookup(f, x, none) == IF x \in DOMAIN f THEN f[x] ELSE none

MakeModifierFlag(k) == Lookup(ModifierFlagOfKey, k, NoFlag)

\* make_key_code(usage_page, usage) (1506-1557): the keyboard page by cast
\* between ErrorUndefined and Reserved (both excluded); the two Apple vendor
\* pages by table.  kHIDUsage_AV_TopCase_* and kHIDUsage_AppleVendorKeyboard_*.
TopCaseKeyOfUsage ==
  (\h03 :> KeyFn) @@ (\h04 :> K("apple_top_case_display_brightness_increment"))
  @@ (\h05 :> K("apple_top_case_display_brightness_decrement"))
  @@ (\h08 :> K("illumination_increment")) @@ (\h09 :> K("illumination_decrement"))
VendorKeyboardKeyOfUsage ==
  (\h02 :> K("dashboard")) @@ (\h03 :> KeyFn) @@ (\h04 :> K("launchpad"))
  @@ (\h10 :> K("mission_control"))
  @@ (\h20 :> K("apple_display_brightness_increment"))
  @@ (\h21 :> K("apple_display_brightness_decrement"))

MakeKeyCode(page, u) ==
  CASE page = PageKeyboardOrKeypad ->
         IF KeyboardErrorUndefined < u /\ u < KeyboardReserved THEN u ELSE None
    [] page = PageAppleVendorTopCase  -> Lookup(TopCaseKeyOfUsage, u, None)
    [] page = PageAppleVendorKeyboard -> Lookup(VendorKeyboardKeyOfUsage, u, None)
    [] OTHER -> None

\* make_modifier_flag(usage_page, usage) (1163-1168).
MakeModifierFlagOfUsage(page, u) ==
  IF MakeKeyCode(page, u) = None THEN NoFlag ELSE MakeModifierFlag(MakeKeyCode(page, u))

\* kHIDUsage_Csmr_* of the keys make_hid_usage_page sends to the consumer page.
CsmrOfKey ==
  (KeyMute :> \hE2) @@ (KeyVolumeDecrement :> \hEA) @@ (KeyVolumeIncrement :> \hE9)
  @@ (K("display_brightness_decrement") :> \h70)
  @@ (K("display_brightness_increment") :> \h6F)
  @@ (K("rewind") :> \hB4) @@ (K("play_or_pause") :> \hCD)
  @@ (K("fastforward") :> \hB3) @@ (K("eject") :> \hB8)

\* make_hid_usage_page(key_code) (1569-1602).
TopCaseKeys == {KeyFn, K("illumination_decrement"), K("illumination_increment"),
                K("apple_top_case_display_brightness_decrement"),
                K("apple_top_case_display_brightness_increment")}
VendorKeyboardKeys == {K("dashboard"), K("launchpad"), K("mission_control"),
                       K("apple_display_brightness_decrement"),
                       K("apple_display_brightness_increment")}
\* Mutant: fn left out of the top-case keys.
MakeHidUsagePageWithoutFn(k) ==
  CASE k \in TopCaseKeys \ {KeyFn} -> PageAppleVendorTopCase
    [] k \in VendorKeyboardKeys     -> PageAppleVendorKeyboard
    [] k \in DOMAIN CsmrOfKey       -> PageConsumer
    [] k = KeyVkNone                -> None
    [] OTHER                        -> PageKeyboardOrKeypad

MakeHidUsagePage(k) ==
  CASE k \in TopCaseKeys        -> PageAppleVendorTopCase
    [] k \in VendorKeyboardKeys -> PageAppleVendorKeyboard
    [] k \in DOMAIN CsmrOfKey   -> PageConsumer
    [] k = KeyVkNone            -> None
    [] OTHER                    -> PageKeyboardOrKeypad

\* make_hid_usage(key_code) (1604-1669): the vendor and consumer usages by
\* table, vk_none none, every other key_code cast to its usage.
UsageOfExtraKey ==
  (KeyFn :> \h03) @@ (K("illumination_decrement") :> \h09)
  @@ (K("illumination_increment") :> \h08)
  @@ (K("apple_top_case_display_brightness_decrement") :> \h05)
  @@ (K("apple_top_case_display_brightness_increment") :> \h04)
  @@ (K("dashboard") :> \h02) @@ (K("launchpad") :> \h04)
  @@ (K("mission_control") :> \h10)
  @@ (K("apple_display_brightness_decrement") :> \h21)
  @@ (K("apple_display_brightness_increment") :> \h20)
  @@ CsmrOfKey
MakeHidUsage(k) ==
  CASE k \in DOMAIN UsageOfExtraKey -> UsageOfExtraKey[k]
    [] k = KeyVkNone                -> None
    [] OTHER                        -> k

\* make_consumer_key_code(usage_page, usage) (1732-1758): the twelve
\* consumer_key_code enumerators of the consumer page.
ConsumerKeyCodes == {\h30, \h6F, \h70, \hB3, \hB4, \hB5, \hB6,
                     \hB8, \hCD, \hE2, \hE9, \hEA}
MakeConsumerKeyCode(page, u) ==
  IF page = PageConsumer /\ u \in ConsumerKeyCodes THEN u ELSE None

\* make_hid_usage_page / make_hid_usage (consumer_key_code) (1770-1776).
ConsumerHidUsagePage(c) == PageConsumer
ConsumerHidUsage(c) == c

\* make_pointing_button(usage_page, usage) (1864-1869): the button page,
\* usage n being buttonn.
MakePointingButton(page, u) == IF page = PageButton THEN u ELSE None

=============================================================================
