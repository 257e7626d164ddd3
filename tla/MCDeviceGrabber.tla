-------------------------- MODULE MCDeviceGrabber --------------------------
(***************************************************************************)
(* Model of device_grabber for TLC: two devices, a plain key and a        *)
(* modifier, and two profiles that make the pipeline rewrite and wait.    *)
(***************************************************************************)
EXTENDS DeviceGrabber

CONSTANTS d1, d2

MCDevices == {d1, d2}
\* d2 is a keyboard with a pointing interface (it also conforms to mouse).
MCPointingDevices == {d2}
MCInputKeys == {"a", "left_shift"}
MCKeys == {"a", "b", "c", "left_shift"}
MCModifiers == {"left_shift"}
MCPointingButtons == {}

\* d1's "a" becomes "b" (a device_if simple modification), and a complex
\* rule holds a "b" key_down back until a later event or Threshold.
ProfileRemapAndWait ==
  [devSimple |-> <<[dev |-> d1, from |-> "a", to |-> "b"]>>,
   simple |-> <<>>,
   complex |-> <<Wait("b", <<>>)>>,
   fn |-> <<>>,
   ignore |-> {}]

\* Every "a" becomes "c"; d2 is ignored.
ProfileGlobalIgnore ==
  [devSimple |-> <<>>,
   simple |-> <<[from |-> "a", to |-> "c"]>>,
   complex |-> <<>>,
   fn |-> <<>>,
   ignore |-> {d2}]

MCProfiles == {ProfileRemapAndWait, ProfileGlobalIgnore}

=============================================================================
