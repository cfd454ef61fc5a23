------------------------------ MODULE Adapters ------------------------------
(***************************************************************************)
(* The two halves of an adapter: the subgraph that indexes its contracts   *)
(* (Subgraphs) and the program that reads the index (AdapterFeeds).  The   *)
(* program sees of the index no more than rows with their blocks, so that  *)
(* each half is checked by itself: part says which one a behaviour is of,  *)
(* and the other half does nothing.                                        *)
(***************************************************************************)
EXTENDS Subgraphs, AdapterFeeds

VARIABLE part

adapterVars == <<part, indexVars, feedVars>>

IndexIdle ==
  /\ protocol = "none" /\ chain = <<>> /\ queue = <<>> /\ sealed = FALSE /\ txs = 0 /\ before = 0
  /\ index = [events |-> Nothing] /\ handled = {}

FeedIdle ==
  /\ feed = Snapshot /\ blockOf = <<>> /\ indexed = 0
  /\ run = [status |-> "idle"] /\ first = <<>> /\ cut = FALSE

AdapterInit ==
  \/ part = "index" /\ IndexInit /\ FeedIdle
  \/ part = "feed" /\ FeedInit /\ IndexIdle

AdapterNext ==
  \/ part = "index" /\ IndexNext /\ UNCHANGED <<part, feedVars>>
  \/ part = "feed" /\ FeedNext /\ UNCHANGED <<part, indexVars>>

AdapterSpec == AdapterInit /\ [][AdapterNext]_adapterVars
==============================================================================
