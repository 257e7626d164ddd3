---------------------------- MODULE ClientManager ----------------------------
(***************************************************************************)
(* local_datagram::client_manager (src/share/local_datagram/               *)
(* client_manager.hpp) on the shared pqrs dispatcher.                      *)
(*                                                                         *)
(* The dispatcher runs one task at a time in the order they were          *)
(* enqueued; a task enqueued for when_now() + reconnect_interval_ waits in *)
(* `delayed` and joins the queue when its time comes.  The manager's state *)
(* is cm = [enabled, client, queue, delayed]: reconnect_enabled_, the     *)
(* client it owns (none, or the client object's state), and the two task *)
(* lists.                                                                  *)
(*                                                                         *)
(* local_datagram::client is not in the repository; from the spec: an     *)
(* async_connect attempt ends with connected or connect_failed, a         *)
(* connected client's server check ends with closed, each reported by a   *)
(* task of the client, and destroying a client detaches it from the      *)
(* dispatcher, dropping its queued tasks.                                 *)
(***************************************************************************)
EXTENDS Integers, Sequences, SequencesExt

CONSTANTS
  MaxCalls,         \* async_start / async_stop calls made by the owner
  MaxServerFlips    \* times the server socket appears or disappears

VARIABLES
  cm,       \* the client_manager
  server,   \* the server socket is bound
  calls,    \* async_start / async_stop calls so far
  flips     \* server changes so far

Task(kind) == [kind |-> kind, arg |-> "none"]
ClientEvent(ev) == [kind |-> "client_event", arg |-> ev]
SignalTask(sig) == [kind |-> "signal", arg |-> sig]

NewClientManager ==
  [enabled |-> FALSE, client |-> "none", queue |-> <<>>, delayed |-> <<>>]

Enqueue(m, t) == [m EXCEPT !.queue = Append(@, t)]

\* connect(): nothing if a client exists; otherwise a new client starts
\* async_connect.
Connect(m) == IF m.client # "none" THEN m ELSE [m EXCEPT !.client = "connecting"]

\* Mutant: close() without detaching the client's queued tasks.
CloseKeepingEvents(m) ==
  IF m.client = "none" THEN m ELSE [m EXCEPT !.client = "none"]

\* close(): drop the client; its queued tasks go with it.
Close(m) ==
  IF m.client = "none" THEN m
  ELSE [m EXCEPT !.client = "none",
                 !.queue = SelectSeq(@, LAMBDA t : t.kind # "client_event")]

\* enqueue_reconnect(): a task for when_now() + reconnect_interval_.
EnqueueReconnect(m) == [m EXCEPT !.delayed = Append(@, Task("reconnect"))]

\* Mutant: the reconnect task without its reconnect_enabled_ check.
ReconnectTaskIgnoringEnabled(m) == Connect(m)

\* The reconnect task: connect() unless reconnect_enabled_ was cleared.
ReconnectTask(m) == IF ~m.enabled THEN m ELSE Connect(m)

\* stop(): clear reconnect_enabled_, then close().
Stop(m) == Close([m EXCEPT !.enabled = FALSE])

\* Mutant: the failure and close handlers without enqueue_reconnect().
OnClientEventWithoutReconnect(m, ev) ==
  LET fwd == Enqueue(m, SignalTask(ev))
  IN IF ev = "connected" THEN fwd ELSE Close(fwd)

\* The client's signal handlers, run by the client's task: forward the
\* signal through the dispatcher; after a failure or a close, also
\* close() and enqueue_reconnect().
OnClientEvent(m, ev) ==
  LET fwd == Enqueue(m, SignalTask(ev))
  IN IF ev = "connected" THEN fwd ELSE EnqueueReconnect(Close(fwd))

\* One task taken from the head of the queue, except the signal
\* forwarders, whose effect belongs to the listener.
RunTask(m, t) ==
  CASE t.kind = "async_start"  -> Connect([m EXCEPT !.enabled = TRUE])
    [] t.kind = "async_stop"   -> Stop(m)
    [] t.kind = "client_event" -> OnClientEvent(m, t.arg)
    [] t.kind = "reconnect"    -> ReconnectTask(m)

\* Tasks the manager enqueues for itself or its client.
ManagerTaskKinds == {"async_start", "async_stop", "client_event", "reconnect"}

Head1(m) == Head(m.queue)
Pop(m) == [m EXCEPT !.queue = Tail(@)]

-----------------------------------------------------------------------------
(* Actions *)

\* async_start() / async_stop(): enqueue the call.
AsyncStart ==
  /\ calls < MaxCalls
  /\ cm' = Enqueue(cm, Task("async_start"))
  /\ calls' = calls + 1
  /\ UNCHANGED <<server, flips>>

AsyncStop ==
  /\ calls < MaxCalls
  /\ cm' = Enqueue(cm, Task("async_stop"))
  /\ calls' = calls + 1
  /\ UNCHANGED <<server, flips>>

\* The dispatcher thread runs the task at the head of the queue.
Dispatch ==
  /\ cm.queue # <<>>
  /\ Head1(cm).kind \in ManagerTaskKinds
  /\ cm' = RunTask(Pop(cm), Head1(cm))
  /\ UNCHANGED <<server, calls, flips>>

\* The earliest delayed task's time comes.
DelayedDue ==
  /\ cm.delayed # <<>>
  /\ cm' = [cm EXCEPT !.queue = Append(@, Head(cm.delayed)), !.delayed = Tail(@)]
  /\ UNCHANGED <<server, calls, flips>>

\* The client's attempt or server check ends (spec-modelled client).
ClientConnected ==
  /\ cm.client = "connecting" /\ server
  /\ cm' = Enqueue([cm EXCEPT !.client = "connected"], ClientEvent("connected"))
  /\ UNCHANGED <<server, calls, flips>>

ClientConnectFailed ==
  /\ cm.client = "connecting" /\ ~server
  /\ cm' = Enqueue([cm EXCEPT !.client = "failed"], ClientEvent("connect_failed"))
  /\ UNCHANGED <<server, calls, flips>>

ClientClosed ==
  /\ cm.client = "connected" /\ ~server
  /\ cm' = Enqueue([cm EXCEPT !.client = "closed"], ClientEvent("closed"))
  /\ UNCHANGED <<server, calls, flips>>

ClientStep == ClientConnected \/ ClientConnectFailed \/ ClientClosed

\* The server process starts or exits.
ServerFlip ==
  /\ flips < MaxServerFlips
  /\ server' = ~server
  /\ flips' = flips + 1
  /\ UNCHANGED <<cm, calls>>

=============================================================================
