--------------------------- MODULE ReconnectingLink ---------------------------
(***************************************************************************)
(* What local_datagram::client_manager promises its owner, without the     *)
(* dispatcher: one link to a server that may be up or down.               *)
(*                                                                         *)
(*   idle    no client                                                     *)
(*   trying  a client is connecting                                        *)
(*   up      the client is connected                                       *)
(*   down    the client failed or lost the server and is about to go      *)
(*                                                                         *)
(* Starting enables reconnecting and tries at once; stopping disables it  *)
(* and drops the client, whatever its state; a dead client is dropped,    *)
(* and an idle link is tried again only while reconnecting is enabled.   *)
(***************************************************************************)
VARIABLES
  enabled,  \* reconnecting is enabled
  link,     \* "idle", "trying", "up" or "down"
  server    \* the server socket is bound

vars == <<enabled, link, server>>

Init ==
  /\ enabled = FALSE
  /\ link = "idle"
  /\ server \in BOOLEAN

Start ==
  /\ enabled' = TRUE
  /\ link' = IF link = "idle" THEN "trying" ELSE link
  /\ UNCHANGED server

Stop ==
  /\ enabled' = FALSE
  /\ link' = "idle"
  /\ UNCHANGED server

Up ==
  /\ link = "trying" /\ server
  /\ link' = "up"
  /\ UNCHANGED <<enabled, server>>

Fail ==
  /\ \/ link = "trying" /\ ~server
     \/ link = "up" /\ ~server
  /\ link' = "down"
  /\ UNCHANGED <<enabled, server>>

Drop ==
  /\ link = "down"
  /\ link' = "idle"
  /\ UNCHANGED <<enabled, server>>

Retry ==
  /\ link = "idle" /\ enabled
  /\ link' = "trying"
  /\ UNCHANGED <<enabled, server>>

ServerChanges ==
  /\ server' = ~server
  /\ UNCHANGED <<enabled, link>>

Next == Start \/ Stop \/ Up \/ Fail \/ Drop \/ Retry \/ ServerChanges

\* Every attempt ends, every dead client is dropped and an idle enabled
\* link is tried again; the owner and the server owe nothing.
Spec == Init /\ [][Next]_vars
          /\ WF_vars(Up) /\ WF_vars(Fail) /\ WF_vars(Drop) /\ WF_vars(Retry)

=============================================================================
