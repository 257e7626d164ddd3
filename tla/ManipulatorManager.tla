------------------------- MODULE ManipulatorManager -------------------------
(***************************************************************************)
(* manipulator_manager (src/core/grabber/include/manipulator/              *)
(* manipulator_manager.hpp): one pipeline stage.  It owns an ordered       *)
(* sequence of manipulators and moves the events of its input queue to    *)
(* its output queue, letting every manipulator look at each event.        *)
(*                                                                         *)
(* These are pure operators over (ms, in, out): the manipulator sequence  *)
(* and the two queues.  A whole call of manipulate() is one evaluation of *)
(* Manipulate, the loop being a RECURSIVE operator, because the caller    *)
(* holds the manipulate mutex for the whole call.                         *)
(***************************************************************************)
EXTENDS Integers, Sequences, Manipulators

\* Kinds the stage forwards without calling any manipulator.
PassiveKinds == {"frontmost_application_changed", "caps_lock_state_changed",
                 "input_source_changed", "keyboard_type_changed"}

\* Kinds the manipulators may transform.
TransformableKinds == {"key_code"}

\* The state of one dispatch: the stage's manipulators, the (possibly
\* rewritten) front event, the output queue and whether a manipulator
\* asked to wait.
Dispatch(ms, front, out, wait) ==
  [ms |-> ms, front |-> front, out |-> out, wait |-> wait]

\* The `for (auto&& m : manipulators_)` loop calling m->manipulate: each
\* manipulator sees the front as the previous one left it; a
\* needs_wait_until_time_stamp result leaves the loop (goto finish).
RECURSIVE ManipLoop(_, _, _, _, _, _), ManipLoopNext(_, _, _, _, _)
ManipLoop(ms, i, front, in, out, now) ==
  IF i > Len(ms) THEN Dispatch(ms, front, out, FALSE)
  ELSE ManipLoopNext(ms, i, ManipulateOne(ms[i], front, in, out, now), in, now)

\* The switch on manipulator i's result r.
ManipLoopNext(ms, i, r, in, now) ==
  IF r.result = "needs_wait_until_time_stamp"
  THEN Dispatch([ms EXCEPT ![i] = r.m], r.front, r.out, TRUE)
  ELSE ManipLoop([ms EXCEPT ![i] = r.m], i + 1, r.front, in, r.out, now)

\* The switch on the type of the front event.
DispatchFront(ms, in, out, now) ==
  LET front == FrontEvent(in)
      skip  == front.valid /\ \E i \in DOMAIN ms : AlreadyManipulated(ms[i], front)
  IN CASE front.kind = "device_ungrabbed" ->
            \* reset the device's modifiers and buttons on the output
            \* queue before the handlers run
            Dispatch([i \in DOMAIN ms |-> HandleDeviceUngrabbed(ms[i], front.dev)],
                     front,
                     EraseAllActivePointingButtons(
                       EraseAllActiveModifierFlags(out, front), front),
                     FALSE)
       [] front.kind = "event_from_ignored_device" ->
            Dispatch([i \in DOMAIN ms |-> HandleEventFromIgnoredDevice(ms[i], front)],
                     front, out, FALSE)
       [] front.kind \in PassiveKinds ->
            Dispatch(ms, front, out, FALSE)
       [] front.kind \in TransformableKinds ->
            IF skip THEN Dispatch(ms, Invalidated(front), out, FALSE)
                    ELSE ManipLoop(ms, 1, front, in, out, now)

\* One iteration of the while loop: dispatch, then (unless waiting)
\* forward the front if it is still valid and erase it.  The front is a
\* reference into the input queue, so its rewritten form stays there.
AfterDispatch(d, in) ==
  IF d.wait
  THEN [ms |-> d.ms, in |-> [in EXCEPT !.events[1] = d.front], out |-> d.out,
        wait |-> TRUE]
  ELSE [ms |-> d.ms, in |-> EraseFrontEvent(in),
        out |-> IF d.front.valid THEN PushBackEvent(d.out, d.front) ELSE d.out,
        wait |-> FALSE]

StepFront(ms, in, out, now) == AfterDispatch(DispatchFront(ms, in, out, now), in)

\* `while (!input_event_queue->empty())`, left early on a wait.
RECURSIVE RunLoop(_, _, _, _), RunLoopNext(_, _)
RunLoop(ms, in, out, now) ==
  IF in.events = <<>> THEN [ms |-> ms, in |-> in, out |-> out]
  ELSE RunLoopNext(StepFront(ms, in, out, now), now)

RunLoopNext(s, now) ==
  IF s.wait THEN [ms |-> s.ms, in |-> s.in, out |-> s.out]
  ELSE RunLoop(s.ms, s.in, s.out, now)

\* Mutant: collection that ignores active(), dropping a rule whose key_up
\* is still owed.
RemoveInvalidManipulatorsIgnoringActive(ms) == SelectSeq(ms, LAMBDA m : m.valid)

\* remove_invalid_manipulators: drop what is invalid and no longer active.
RemoveInvalidManipulators(ms) == SelectSeq(ms, LAMBDA m : m.valid \/ Active(m))

\* manipulate(input, output, now): the loop, then (finish:) the collection.
Collect(r) == [r EXCEPT !.ms = RemoveInvalidManipulators(@)]

Manipulate(ms, in, out, now) == Collect(RunLoop(ms, in, out, now))

\* invalidate_manipulators: mark every manipulator invalid and collect.
InvalidateManipulators(ms) ==
  RemoveInvalidManipulators([i \in DOMAIN ms |-> [ms[i] EXCEPT !.valid = FALSE]])

\* needs_virtual_hid_pointing: any of the manipulators needs it.
ManagerNeedsVirtualHidPointing(ms) == \E i \in DOMAIN ms : NeedsVirtualHidPointing(ms[i])

\* push_back_manipulator.
PushBackManipulator(ms, m) == Append(ms, m)

=============================================================================
