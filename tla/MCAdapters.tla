----------------------------- MODULE MCAdapters -----------------------------
(***************************************************************************)
(* Two users, four transactions in blocks of at most two; four rows read   *)
(* in pages of two, of the blocks up to 2 of a chain of 3.                 *)
(***************************************************************************)
EXTENDS Adapters

Users == Permutations(User)
==============================================================================
