--------------------- MODULE ManipulatorManagersConnector ---------------------
(***************************************************************************)
(* manipulator_managers_connector (spec section 4.5; its header is not in *)
(* the repository snapshot): stage k reads queue k-1 and writes queue k.  *)
(* A pipeline is a record [ms, q] with ms[k] the manipulators of stage k  *)
(* (k \in 1..N) and q[k] the queues (k \in 0..N); q[0] is the merged      *)
(* input queue and q[N] the queue handed to the virtual devices.          *)
(***************************************************************************)
EXTENDS Integers, Sequences, ManipulatorManager

\* Number of stages of a pipeline.
StageCount(p) == Len(p.ms)

\* Stage k's manipulate result r written back into the pipeline.
StoreStage(p, k, r) ==
  [ms |-> [p.ms EXCEPT ![k] = r.ms],
   q  |-> [p.q EXCEPT ![k - 1] = r.in, ![k] = r.out]]

\* manipulate(now): drive stage k, then the stages after it.
RECURSIVE ManipulateFrom(_, _, _)
ManipulateFrom(p, k, now) ==
  IF k > StageCount(p) THEN p
  ELSE ManipulateFrom(StoreStage(p, k, Manipulate(p.ms[k], p.q[k - 1], p.q[k], now)),
                      k + 1, now)

ConnectorManipulate(p, now) == ManipulateFrom(p, 1, now)

\* Time stamps of the front events of every stage's input queue.
FrontTimeStamps(p) ==
  {p.q[k].events[1].ts : k \in {j \in 0..StageCount(p) - 1 : p.q[j].events # <<>>}}

\* min_input_event_time_stamp: none when every input queue is empty.
HasMinInputEventTimeStamp(p) == FrontTimeStamps(p) # {}
MinInputEventTimeStamp(p) == Min(FrontTimeStamps(p))

\* needs_virtual_hid_pointing: any stage's manager needs it.
ConnectorNeedsVirtualHidPointing(p) ==
  \E k \in DOMAIN p.ms : ManagerNeedsVirtualHidPointing(p.ms[k])

\* invalidate_manipulators on every stage.
ConnectorInvalidateManipulators(p) ==
  [p EXCEPT !.ms = [k \in DOMAIN @ |-> InvalidateManipulators(@[k])]]

=============================================================================
