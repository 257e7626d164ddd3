------------------------------- MODULE Receiver -------------------------------
(***************************************************************************)
(* console_user_server's receiver                                          *)
(* (src/core/console_user_server/include/receiver.hpp) and its            *)
(* input_source_manager (src/share/input_source_manager.hpp).              *)
(*                                                                         *)
(* async_start's task creates the local_datagram::server_manager and      *)
(* forwards its bound / bind_failed / closed signals through the shared   *)
(* dispatcher.  Its received handler runs on the dispatcher thread: a     *)
(* shell_command_execution message of the right size runs the command; a  *)
(* select_input_source message of the right size is dropped if its time  *)
(* stamp is last_select_input_source_time_stamp_, otherwise               *)
(* input_source_manager::select walks entries_ for a match and the time  *)
(* stamp is remembered when one is selected.  entries_ is rebuilt by the  *)
(* enabled-input-sources notification, delivered on the main run loop    *)
(* where the manager was constructed.  The select loop is split in two    *)
(* steps (start, finish) so that a rebuild can fall between them.        *)
(*                                                                         *)
(* server_manager and the sender are not in the repository: from the     *)
(* spec, the server binds or fails and may close, and each request the    *)
(* grabber sends may arrive twice in a row.                               *)
(***************************************************************************)
EXTENDS Integers, Sequences, FiniteSets

CONSTANTS
  InputSources,     \* input sources that may be enabled
  RequestSeq,       \* the grabber's select_input_source requests, in the
                    \* order sent: [ts, source, sizeOk]
  MaxShell,         \* bound on shell_command_execution messages
  MaxTasks          \* bound on the receiver's queued tasks

None == "none"

VARIABLES
  server,       \* server_manager_: "none", "started", "bound", "closed"
  tasks,        \* the receiver's tasks on the dispatcher
  entries,      \* input_source_manager::entries_ (enabled input sources)
  enabled,      \* the enabled input sources of the system
  selected,     \* the selected input source
  lastTs,       \* last_select_input_source_time_stamp_
  selecting,    \* a select loop between its start and its end, or NoSelect
  inbox,        \* requests the server has still to deliver
  selects,      \* selects[ts]: successful selections for that request
  shellRuns     \* commands run

vars == <<server, tasks, entries, enabled, selected, lastTs, selecting, inbox,
          selects, shellRuns>>

-----------------------------------------------------------------------------

\* The constructor: last_select_input_source_time_stamp_(0); the
\* input_source_manager constructor reads the enabled list.
NewReceiverEntries(en) == en

\* Mutant: no check of the time stamp.
IsDuplicateIgnoringTimeStamp(last, r) == FALSE

\* Lines 122-124: the same time stamp as the last selected request.
IsDuplicate(last, r) == last = r.ts

\* input_source_selector::test over entries_ (lines 34-43): the first
\* entry that matches is selected.
SelectResult(es, r) == IF r.source \in es THEN r.source ELSE None

\* Lines 125-127: remember the time stamp when select succeeded.
AfterSelect(last, r, res) == IF res # None THEN r.ts ELSE last

\* No select loop is running (time stamps start at 1).
NoSelect == [ts |-> 0, source |-> None, sizeOk |-> FALSE]

\* The forwarded server_manager signals.
Forward(sig) == [kind |-> "signal", arg |-> sig]

\* What arrives: every request in order, each once or twice in a row.
Deliveries(copies) ==
  [i \in 1..Len(RequestSeq) |-> [j \in 1..copies[i] |-> RequestSeq[i]]]

Flatten(ss) ==
  LET F[i \in 0..Len(ss)] == IF i = 0 THEN <<>> ELSE F[i - 1] \o ss[i]
  IN F[Len(ss)]

TimeStamps == {RequestSeq[i].ts : i \in 1..Len(RequestSeq)}

Init ==
  /\ server = "none"
  /\ tasks = <<>>
  /\ enabled \in SUBSET InputSources
  /\ entries = NewReceiverEntries(enabled)
  /\ selected \in InputSources
  /\ lastTs = 0
  /\ selecting = NoSelect
  /\ inbox \in {Flatten(Deliveries(c)) : c \in [1..Len(RequestSeq) -> {1, 2}]}
  /\ selects = [t \in TimeStamps |-> 0]
  /\ shellRuns = 0

-----------------------------------------------------------------------------
(* The receiver's tasks on the dispatcher. *)

\* async_start(): enqueue the start task.
AsyncStart ==
  /\ Len(tasks) < MaxTasks
  /\ tasks' = Append(tasks, [kind |-> "start", arg |-> None])
  /\ UNCHANGED <<server, entries, enabled, selected, lastTs, selecting, inbox,
                 selects, shellRuns>>

\* The start task: nothing if server_manager_ exists; otherwise create it,
\* connect its signals and call its async_start().
StartTask ==
  /\ tasks # <<>> /\ Head(tasks).kind = "start"
  /\ tasks' = Tail(tasks)
  /\ server' = IF server # "none" THEN server ELSE "started"
  /\ UNCHANGED <<entries, enabled, selected, lastTs, selecting, inbox, selects,
                 shellRuns>>

\* A forwarded signal is emitted (to nobody here).
EmitSignal ==
  /\ tasks # <<>> /\ Head(tasks).kind = "signal"
  /\ tasks' = Tail(tasks)
  /\ UNCHANGED <<server, entries, enabled, selected, lastTs, selecting, inbox,
                 selects, shellRuns>>

\* server_manager (spec): it binds, fails to bind and retries, or loses
\* its socket and binds again; each is forwarded.
ServerEvent(from, to, sig) ==
  /\ server = from
  /\ Len(tasks) < MaxTasks
  /\ server' = to
  /\ tasks' = Append(tasks, Forward(sig))
  /\ UNCHANGED <<entries, enabled, selected, lastTs, selecting, inbox, selects,
                 shellRuns>>

-----------------------------------------------------------------------------
(* The received handler, on the dispatcher thread. *)

\* A select_input_source message: the size check, the time stamp check,
\* then the start of input_source_manager::select's loop.
SelectReceived ==
  /\ server = "bound"
  /\ selecting = NoSelect
  /\ inbox # <<>>
  /\ inbox' = Tail(inbox)
  /\ LET r == Head(inbox)
     IN selecting' = IF r.sizeOk /\ ~IsDuplicate(lastTs, r) THEN r ELSE NoSelect
  /\ UNCHANGED <<server, tasks, entries, enabled, selected, lastTs, selects,
                 shellRuns>>

\* The end of the loop: TISSelectInputSource on the first match, and the
\* time stamp remembered when there was one.
SelectFinished ==
  /\ selecting # NoSelect
  /\ LET r   == selecting
         res == SelectResult(entries, r)
     IN /\ selected' = IF res # None THEN res ELSE selected
        /\ lastTs' = AfterSelect(lastTs, r, res)
        /\ selects' = IF res # None THEN [selects EXCEPT ![r.ts] = @ + 1] ELSE selects
  /\ selecting' = NoSelect
  /\ UNCHANGED <<server, tasks, entries, enabled, inbox, shellRuns>>

\* A shell_command_execution message runs its command if its size is right.
ShellReceived(sizeOk) ==
  /\ server = "bound"
  /\ shellRuns < MaxShell
  /\ shellRuns' = IF sizeOk THEN shellRuns + 1 ELSE shellRuns
  /\ UNCHANGED <<server, tasks, entries, enabled, selected, lastTs, selecting,
                 inbox, selects>>

-----------------------------------------------------------------------------
(* The main run loop and the user. *)

\* The user enables or disables input sources; the notification runs
\* enabled_input_sources_changed_callback (lines 87-109): clear entries_
\* and push back the select-capable keyboard input sources.
EnabledInputSourcesChanged(en) ==
  /\ enabled # en
  /\ enabled' = en
  /\ entries' = en
  /\ UNCHANGED <<server, tasks, selected, lastTs, selecting, inbox, selects,
                 shellRuns>>

\* The user selects an input source by hand.
UserSelected(is) ==
  /\ is \in enabled /\ selected # is
  /\ selected' = is
  /\ UNCHANGED <<server, tasks, entries, enabled, lastTs, selecting, inbox,
                 selects, shellRuns>>

Next ==
  \/ AsyncStart \/ StartTask \/ EmitSignal
  \/ ServerEvent("started", "bound", "bound")
  \/ ServerEvent("started", "started", "bind_failed")
  \/ ServerEvent("bound", "started", "closed")
  \/ SelectReceived \/ SelectFinished
  \/ \E ok \in BOOLEAN : ShellReceived(ok)
  \/ \E en \in SUBSET InputSources : EnabledInputSourcesChanged(en)
  \/ \E is \in InputSources : UserSelected(is)

Spec == Init /\ [][Next]_vars

=============================================================================
