----------------------------- MODULE MCLpPoints -----------------------------
(* Small instances of LpPoints: one user in two pairs, two blocks.  The    *)
(* project of pair p1 has two snapshots waiting, the project of pair p2    *)
(* has a range of transactions over both blocks; in the last instance the  *)
(* two projects share the pair p1 and the block 2, and the user has sent a *)
(* transfer over a bridge besides.                                         *)
EXTENDS LpPoints

CONSTANTS snap1, snap2, range, idle, transfer, u, p1, p2, gate

A1 == <<u, p1>>
A2 == <<u, p2>>
A3 == <<u, gate>>

(* Each project pays pairs of its own; `idle` is a range with no rows. *)
Apart ==
  [j \in Job |-> CASE j = snap1 -> {<<1, A1>>}
                   [] j = snap2 -> {<<2, A1>>}
                   [] j = range -> {<<1, A2>>, <<2, A2>>}
                   [] j = transfer -> {<<1, A3>>}
                   [] OTHER     -> {}]

(* A project pays both the balances and the transactions of one pair. *)
SamePair ==
  [j \in Job |-> CASE j = snap1 -> {<<1, A1>>, <<1, A2>>}
                   [] j = snap2 -> {<<2, A1>>}
                   [] j = range -> {<<2, A1>>, <<2, A2>>}
                   [] j = transfer -> {<<1, A3>>}
                   [] OTHER     -> {}]
==============================================================================
