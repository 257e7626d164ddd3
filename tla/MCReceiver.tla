------------------------------ MODULE MCReceiver ------------------------------
(***************************************************************************)
(* The receiver for TLC: two input sources, and three requests of which   *)
(* one is malformed.                                                       *)
(***************************************************************************)
EXTENDS Receiver

CONSTANTS us, ja

MCInputSources == {us, ja}
MCRequestSeq ==
  <<[ts |-> 1, source |-> ja, sizeOk |-> TRUE],
    [ts |-> 2, source |-> us, sizeOk |-> FALSE],
    [ts |-> 3, source |-> us, sizeOk |-> TRUE]>>

\* A request is carried out at most once, however often it arrives: the
\* time stamp check drops a copy of a request that was selected, so it
\* cannot undo a choice the user made in between, while a copy of one that
\* found no enabled input source is tried again.
SelectedAtMostOnce == \A t \in TimeStamps : selects[t] <= 1

=============================================================================
