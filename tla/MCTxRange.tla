----------------------------- MODULE MCTxRange -----------------------------
(* A chain of four blocks, of which the first cron run takes one or two,   *)
(* and three more cron runs: enough for a range, its successor, and a cron *)
(* run that has read the one and writes behind the other.                  *)
EXTENDS TxRange
==============================================================================
