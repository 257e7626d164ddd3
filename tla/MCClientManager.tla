--------------------------- MODULE MCClientManager ---------------------------
(***************************************************************************)
(* A client_manager driven by an owner that calls async_start and          *)
(* async_stop, against a server that comes and goes.  The signals it      *)
(* forwards have no listener here.                                        *)
(***************************************************************************)
EXTENDS ClientManager

vars == <<cm, server, calls, flips>>

Init ==
  /\ cm = NewClientManager
  /\ server \in BOOLEAN
  /\ calls = 0
  /\ flips = 0

\* The forwarded signal is emitted to nobody.
EmitSignal ==
  /\ cm.queue # <<>>
  /\ Head1(cm).kind = "signal"
  /\ cm' = Pop(cm)
  /\ UNCHANGED <<server, calls, flips>>

Next ==
  \/ AsyncStart \/ AsyncStop
  \/ Dispatch \/ EmitSignal \/ DelayedDue
  \/ ClientStep \/ ServerFlip

\* The dispatcher thread and its timer keep running; a client's attempt
\* and its server check end.  The owner's calls and the server are not
\* fair.
Fairness ==
  /\ WF_vars(Dispatch) /\ WF_vars(EmitSignal) /\ WF_vars(DelayedDue)
  /\ WF_vars(ClientStep)

Spec == Init /\ [][Next]_vars /\ Fairness

-----------------------------------------------------------------------------

TypeOK ==
  /\ cm.enabled \in BOOLEAN
  /\ cm.client \in {"none", "connecting", "connected", "failed", "closed"}
  /\ server \in BOOLEAN

\* stop() clears reconnect_enabled_ so that no client outlives it: a
\* client exists only while reconnecting is enabled, whatever reconnect
\* tasks, failures and closes are still queued when async_stop runs.
ClientOnlyWhileEnabled ==
  cm.client # "none" => cm.enabled

\* The refinement mapping: the client object's state as the link's.
LinkOf(c) ==
  CASE c = "none"       -> "idle"
    [] c = "connecting" -> "trying"
    [] c = "connected"  -> "up"
    [] OTHER            -> "down"

Link == INSTANCE ReconnectingLink WITH enabled <- cm.enabled, link <- LinkOf(cm.client)

\* client_manager implements ReconnectingLink: every dispatcher task,
\* client event and reconnect timer is a step of the abstract link or
\* leaves it unchanged.  In particular a failure or close event queued by
\* a client that stop() or a later failure already destroyed never acts
\* on the client created after it, and the link's fairness follows from
\* the dispatcher's and the timer's.
ImplementsReconnectingLink == Link!Spec

\* Once started and not stopped, the manager keeps coming back: while
\* reconnecting is enabled and the server is up, the client is eventually
\* connected (or the server goes away or the manager is stopped).
Reconnects ==
  (cm.enabled /\ server) ~> (cm.client = "connected" \/ ~cm.enabled \/ ~server)

=============================================================================
